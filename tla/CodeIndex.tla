------------------------------ MODULE CodeIndex ------------------------------
(***************************************************************************)
(* The retrieval index of a workspace: IndexService walks the tree in      *)
(* sorted order and writes, for each file, first the rows of FTS5Indexer   *)
(* and then, for a Python file, the edges of TreeSitterCodeGraph, each in  *)
(* a transaction of its own database; a full walk then prunes what it did  *)
(* not see.  The process may die between any two transactions and the tree *)
(* may change under the walk.                                              *)
(*                                                                         *)
(* Of a file's text only this is kept: whether it can be decoded, whether  *)
(* it yields any row (a definition in Python, prose that is not excluded   *)
(* from retrieval elsewhere), and which files it imports from and calls.   *)
(* Files are numbered in the order of the walk.                            *)
(***************************************************************************)
EXTENDS Naturals, FiniteSets, FiniteSetsExt

CONSTANTS
  N,          \* files are 1..N, in the sorted order of the walk
  Text,       \* the ones in TEXT_EXTENSIONS; the others are Python
  TopLevel,   \* Python files at the root, whose path begins with their module and a dot
  MaxEdits    \* bound on the changes made to the tree

IndexAssumption ==
  /\ N \in Nat /\ MaxEdits \in Nat
  /\ Text \subseteq 1..N /\ TopLevel \subseteq (1..N) \ Text

VARIABLES
  tree,      \* the files on disk
  rows,      \* chunks and symbols of the FTS5 database, by file
  edges,     \* edges of the code graph
  graphed,   \* files with rows in the graph's symbols table
  walk,      \* the reindex in progress: its step, the files left, the text just read
  history    \* how the last reindex was called, whether it still describes the tree, edits

indexVars == <<tree, rows, edges, graphed, walk, history>>

Files == 1..N
Absent == [kind |-> "absent"]
Garbled == [kind |-> "garbled"]
Texts(f) == [kind : {"text"}, defs : BOOLEAN,
             uses : IF f \in Text THEN {{}} ELSE SUBSET (Files \ (Text \cup {f}))]
Contents(f) == Texts(f) \cup {Absent, Garbled}

\* import edges join paths, call edges join symbols; a call is recorded under a definition
Edge == [kind : {"imports", "calls"}, src : Files, dst : Files]
EdgesOf(f, c) ==
  IF c.kind # "text" THEN {}
  ELSE [kind : IF c.defs THEN {"imports", "calls"} ELSE {"imports"}, src : {f}, dst : c.uses]

Rest == [pc |-> "idle", left |-> {}, seen |-> {}, at |-> 0, text |-> Absent]

AnyContents == (UNION {Contents(f) : f \in Files}) \cup {Absent}
Walks == [pc : {"idle", "walk", "graph", "prune", "pruneGraph"}, left : SUBSET Files, seen : SUBSET Files,
          at : 0..N, text : AnyContents]
Histories == [call : {"none", "full", "paths"}, faithful : BOOLEAN, edits : 0..MaxEdits]

IndexTypeOK ==
  /\ tree \in [Files -> AnyContents] /\ \A f \in Files : tree[f] \in Contents(f)
  /\ rows \in [Files -> AnyContents] /\ \A f \in Files : rows[f] \in Texts(f) \cup {Absent}
  /\ edges \subseteq Edge /\ graphed \subseteq Files \ Text
  /\ walk \in Walks /\ history \in Histories
  /\ walk.pc = "graph" => walk.at \in Files \ Text /\ walk.text \in Texts(walk.at)

IndexInit ==
  /\ tree \in [Files -> AnyContents]
  /\ \A f \in Files : tree[f] \in Contents(f)
  /\ rows = [f \in Files |-> Absent] /\ edges = {} /\ graphed = {}
  /\ walk = Rest
  /\ history = [call |-> "none", faithful |-> FALSE, edits |-> 0]

-----------------------------------------------------------------------------
(* Reindexing.                                                             *)

Edit(f, c) ==
  /\ history.edits < MaxEdits /\ c # tree[f]
  /\ tree' = [tree EXCEPT ![f] = c]
  /\ history' = [history EXCEPT !.edits = @ + 1, !.faithful = FALSE]
  /\ UNCHANGED <<rows, edges, graphed, walk>>

\* the list of files is complete before the first is read
ReindexAll ==
  /\ walk.pc = "idle"
  /\ walk' = [Rest EXCEPT !.pc = "walk", !.left = {f \in Files : tree[f] # Absent}]
  /\ history' = [history EXCEPT !.call = "full", !.faithful = TRUE]
  /\ UNCHANGED <<tree, rows, edges, graphed>>

\* a cold start: an index with a single chunk in it is taken for a complete one
EnsureIndex == (\A f \in Files : rows[f] = Absent) /\ ReindexAll

ReindexPaths(paths) ==
  /\ walk.pc = "idle"
  /\ walk' = [Rest EXCEPT !.pc = "walk", !.left = paths]
  /\ history' = [history EXCEPT !.call = "paths"]
  /\ UNCHANGED <<tree, rows, edges, graphed>>

\* the walk is sorted, a list of paths is in the caller's order
Reading(f) ==
  /\ walk.pc = "walk" /\ f \in walk.left
  /\ history.call = "full" => f = Min(walk.left)

\* a file that is gone is passed over, whatever rows it has
SkipMissing(f) ==
  /\ Reading(f) /\ tree[f] = Absent
  /\ walk' = [walk EXCEPT !.left = @ \ {f}]
  /\ UNCHANGED <<tree, rows, edges, graphed, history>>

\* a file that does not decode ends the whole walk
FailToRead(f) ==
  /\ Reading(f) /\ tree[f] = Garbled
  /\ walk' = Rest /\ history' = [history EXCEPT !.faithful = FALSE]
  /\ UNCHANGED <<tree, rows, edges, graphed>>

\* replace_file_chunks and replace_file_text: delete and insert in one transaction
WriteRows(f) ==
  /\ Reading(f) /\ tree[f].kind = "text"
  /\ rows' = [rows EXCEPT ![f] = IF tree[f].defs THEN tree[f] ELSE Absent]
  /\ LET on == [walk EXCEPT !.left = @ \ {f}, !.seen = @ \cup {f}] IN
     walk' = IF f \in Text THEN on
             ELSE [on EXCEPT !.pc = "graph", !.at = f, !.text = tree[f]]
  /\ UNCHANGED <<tree, edges, graphed, history>>

\* every edge of the file goes, and every edge that ends in one of its symbols, whoever wrote
\* it; LIKE 'module.%' also matches the path of a module at the root
BugKept(f) == {e \in edges : e.src # f /\ e.dst # f}
Kept(f) == {e \in edges : e.src # f /\ (e.dst # f \/ (e.kind = "imports" /\ f \notin TopLevel))}
ReplaceEdges(f, c) ==
  /\ edges' = Kept(f) \cup EdgesOf(f, c)
  /\ graphed' = IF c.kind = "text" /\ c.defs THEN graphed \cup {f} ELSE graphed \ {f}

\* the edges come from the text read before the rows were written
WriteEdges ==
  /\ walk.pc = "graph"
  /\ ReplaceEdges(walk.at, walk.text)
  /\ walk' = [walk EXCEPT !.pc = "walk", !.at = 0, !.text = Absent]
  /\ UNCHANGED <<tree, rows, history>>

\* a full walk goes on to the orphans, which are read before the first is cleared
EndOfWalk ==
  /\ walk.pc = "walk" /\ walk.left = {}
  /\ walk' = IF history.call = "full"
             THEN [walk EXCEPT !.pc = "prune", !.left = {f \in Files : rows[f] # Absent} \ walk.seen]
             ELSE Rest
  /\ UNCHANGED <<tree, rows, edges, graphed, history>>

PruneRows(f) ==
  /\ walk.pc = "prune" /\ f \in walk.left
  /\ rows' = [rows EXCEPT ![f] = Absent]
  /\ walk' = [walk EXCEPT !.left = @ \ {f}]
  /\ UNCHANGED <<tree, edges, graphed, history>>

EndOfPruning ==
  /\ walk.pc = "prune" /\ walk.left = {}
  /\ walk' = [walk EXCEPT !.pc = "pruneGraph", !.left = graphed \ walk.seen]
  /\ UNCHANGED <<tree, rows, edges, graphed, history>>

PruneGraph(f) ==
  /\ walk.pc = "pruneGraph" /\ f \in walk.left
  /\ ReplaceEdges(f, Absent)
  /\ walk' = [walk EXCEPT !.left = @ \ {f}]
  /\ UNCHANGED <<tree, rows, history>>

EndOfReindex ==
  /\ walk.pc = "pruneGraph" /\ walk.left = {}
  /\ walk' = Rest
  /\ UNCHANGED <<tree, rows, edges, graphed, history>>

\* the process dies; what was committed stays
Die ==
  /\ walk.pc # "idle"
  /\ walk' = Rest /\ history' = [history EXCEPT !.faithful = FALSE]
  /\ UNCHANGED <<tree, rows, edges, graphed>>

IndexNext ==
  \/ \E f \in Files :
       \/ \E c \in Contents(f) : Edit(f, c)
       \/ SkipMissing(f) \/ FailToRead(f) \/ WriteRows(f) \/ PruneRows(f) \/ PruneGraph(f)
  \/ \E paths \in SUBSET Files \ {{}} : ReindexPaths(paths)
  \/ ReindexAll \/ EnsureIndex \/ WriteEdges \/ EndOfWalk \/ EndOfPruning \/ EndOfReindex \/ Die

IndexSpec == IndexInit /\ [][IndexNext]_indexVars

-----------------------------------------------------------------------------
(* Queries: nodes are files as paths and files as symbols.                 *)

Nodes == {"path", "symbol"} \X Files
Dependents(node) ==
  {<<IF e.kind = "imports" THEN "path" ELSE "symbol", e.src>> :
     e \in {x \in edges : x.dst = node[2] /\ (x.kind = "imports") = (node[1] = "path")}}
  \cup IF node[1] = "symbol" /\ node[2] \in graphed THEN {<<"path", node[2]>>} ELSE {}

Seeds(f) == {<<"path", f>>} \cup IF f \in graphed THEN {<<"symbol", f>>} ELSE {}

\* the frontier grows by the dependents of the last one, hop by hop
Frontiers(f, hop) ==
  {w \in [0..hop -> Nodes] : w[0] \in Seeds(f) /\ \A i \in 1..hop : w[i] \in Dependents(w[i - 1])}

ImpactedBy(f, hops) == {g \in Files \ {f} : \E hop \in 0..hops : \E w \in Frontiers(f, hop) : w[hop] = <<"path", g>>}
CallersOf(f) == {e.src : e \in {x \in edges : x.kind = "calls" /\ x.dst = f /\ x.src \in graphed}}

-----------------------------------------------------------------------------
(* Properties.                                                             *)

\* a reindex that ended, of a tree that stayed as it was since the reindex began
Described == walk.pc = "idle" /\ history.faithful

\* ... chunks and symbols are those of the tree, with nothing of a file that is gone, and
\* both databases hold the same Python files, whatever crashes and failed walks came before
\* (IndexService._reindex_all, audit m-5).
IndexMatchesTree ==
  Described =>
    /\ \A f \in Files : rows[f] = IF tree[f].kind = "text" /\ tree[f].defs THEN tree[f] ELSE Absent
    /\ graphed = {f \in Files \ Text : rows[f] # Absent}

\* ... and after a full walk the tools find who depends on a file, as far as the dependent comes later
\* in the walk or the edge is not one that indexing the file itself deletes
\* (replace_file_edges, impacted_by, callers_of).
DependentsAreKept ==
  Described /\ history.call = "full" =>
    \A g \in Files, f \in Files \ Text :
      tree[g].kind = "text" /\ tree[f].kind = "text" /\ g \in tree[f].uses =>
        /\ f > g \/ g \notin TopLevel => f \in ImpactedBy(g, 1)
        /\ f > g /\ tree[f].defs => f \in CallersOf(g)

\* What a search and an impact query answer from is the tree of the last reindex that ended:
\* the rows are its rows and the dependents its dependents (IndexService, FTS5Indexer,
\* TreeSitterCodeGraph), through crashes, failed walks and partial reindexes.
IndexIsFaithful == IndexMatchesTree /\ DependentsAreKept

-----------------------------------------------------------------------------
(* The inductive invariant: how far a reindex of a tree that stays is.     *)

Proper(f) == IF tree[f].kind = "text" /\ tree[f].defs THEN tree[f] ELSE Absent
Live == {f \in Files : tree[f] # Absent}

RowsProper(S) == \A f \in S : rows[f] = Proper(f)
GraphProper(S) == \A f \in S \ Text : f \in graphed <=> Proper(f) # Absent

\* an import of a file at the root is lost when that file comes later in the walk
EdgesProper(S) ==
  \A f \in S \ Text : \A g \in tree[f].uses \cap Live :
    /\ f > g \/ g \notin TopLevel => [kind |-> "imports", src |-> f, dst |-> g] \in edges
    /\ f > g /\ tree[f].defs => [kind |-> "calls", src |-> f, dst |-> g] \in edges

\* the files whose edges are written, of the ones whose rows are
Settled == IF walk.pc = "graph" THEN walk.seen \ {walk.at} ELSE walk.seen

Walking ==
  /\ walk.left \cup walk.seen = Live /\ \A f \in walk.seen, g \in walk.left : f < g
  /\ RowsProper(walk.seen) /\ GraphProper(Settled) /\ EdgesProper(Settled)
  /\ walk.pc = "graph" => walk.at \in walk.seen /\ \A f \in Settled : f < walk.at

Pruning ==
  /\ walk.seen = Live /\ walk.left \cap Live = {}
  /\ RowsProper(Live) /\ GraphProper(Live) /\ EdgesProper(Live)
  /\ walk.pc = "prune" => RowsProper(Files \ walk.left)
  /\ walk.pc = "pruneGraph" => RowsProper(Files) /\ GraphProper(Files \ walk.left)

\* a reindex of some paths rewrites what was right as it was
FaithfulSoFar ==
  history.faithful =>
    /\ history.call # "none"
    /\ walk.pc = "graph" => walk.text = tree[walk.at]
    /\ \A f \in IF history.call = "paths" \/ walk.pc = "idle" THEN Live ELSE walk.seen : tree[f].kind = "text"
    /\ history.call = "full" /\ walk.pc \in {"walk", "graph"} => Walking
    /\ history.call = "full" /\ walk.pc \in {"prune", "pruneGraph"} => Pruning
    /\ history.call = "full" /\ walk.pc = "idle" => EdgesProper(Live)
    /\ history.call = "paths" \/ walk.pc = "idle" => RowsProper(Files) /\ GraphProper(Files)

FullWalksPrune ==
  /\ walk.pc \in {"prune", "pruneGraph"} => history.call = "full"
  /\ walk.pc = "prune" => walk.left \cap walk.seen = {}

IndexInv == IndexTypeOK /\ FaithfulSoFar /\ FullWalksPrune
=============================================================================
