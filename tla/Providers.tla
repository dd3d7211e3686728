------------------------------- MODULE Providers -------------------------------
(***************************************************************************)
(* The model providers of sagiha.  A session (a run, or a candidate of a   *)
(* search) has a provider of its own: in live mode a FallbackModelAdapter  *)
(* over OpenAI adapters, in record mode a CassetteModelProvider around     *)
(* one, in replay mode the cassette alone.  All sessions share one         *)
(* cassette file: each reads it once, when it opens, and writes the whole  *)
(* of what it holds after every answer.  A process may die in the middle   *)
(* of a write.                                                             *)
(*                                                                         *)
(* A request is its digest, an answer its number.                          *)
(***************************************************************************)
EXTENDS Naturals, Sequences, FiniteSets, SequencesExt

CONSTANTS
  Sessions,   \* the sessions
  Digests,    \* digests of requests
  Providers,  \* the providers of the fallback chain are 1..Providers
  Backoffs,   \* backoff_retries
  Posts,      \* max_retries of an OpenAI adapter
  MaxAsks,    \* bound on the requests of a session
  MaxAnswers  \* bound on the answers given

ProvidersAssumption ==
  /\ Providers \in Nat \ {0} /\ Posts \in Nat \ {0}
  /\ Backoffs \in Nat /\ MaxAsks \in Nat /\ MaxAnswers \in Nat

VARIABLES
  cassette,  \* the entries on disk; Torn when a write did not finish
  session,   \* each session: its mode, the entries it holds, what it asked and was told
  call,      \* the call a session waits for
  answers,   \* number of answers given so far
  recorded   \* what a replay is compared with: the last recording made from an empty file

providerVars == <<cassette, session, call, answers, recorded>>

Torn == <<[digest |-> "none", answer |-> 0]>>
Entry == [digest : Digests, answer : 1..MaxAnswers]
Closed == [mode |-> "closed", held |-> <<>>, fresh |-> FALSE, log |-> <<>>]
NoCall == [digest |-> "none", provider |-> 0, attempt |-> 0, post |-> 0]
Modes == {"live", "record", "replay"}
SessionStates == [mode : Modes \cup {"closed"}, held : Seq(Entry), fresh : BOOLEAN, log : Seq(Entry)]
Calls == [digest : Digests, provider : 1..Providers, attempt : 1..Backoffs + 1, post : 1..Posts]

ProvidersTypeOK ==
  /\ cassette = Torn \/ cassette \in Seq(Entry)
  /\ answers \in 0..MaxAnswers /\ recorded \in Seq(Entry)
  /\ session \in [Sessions -> SessionStates] /\ call \in [Sessions -> Calls \cup {NoCall}]

ProvidersInit ==
  /\ cassette = <<>> /\ recorded = <<>> /\ answers = 0
  /\ session = [s \in Sessions |-> Closed] /\ call = [s \in Sessions |-> NoCall]

-----------------------------------------------------------------------------
(* Sessions and the cassette.                                              *)

\* a torn file does not parse: no session opens on it in record or replay mode
Open(s, mode) ==
  /\ session[s].mode = "closed" /\ (mode = "live" \/ cassette # Torn)
  /\ session' = [session EXCEPT ![s] =
       [Closed EXCEPT !.mode = mode,
                      !.held = IF mode = "live" THEN <<>> ELSE cassette,
                      !.fresh = mode = "record" /\ cassette = <<>>]]
  /\ UNCHANGED <<cassette, call, answers, recorded>>

Close(s) ==
  /\ session[s].mode # "closed" /\ call[s] = NoCall
  /\ session' = [session EXCEPT ![s] = Closed]
  /\ UNCHANGED <<cassette, call, answers, recorded>>

Asked(s) == Len(session[s].log)
Digested(entries, d) == {i \in DOMAIN entries : entries[i].digest = d}
\* how many entries of its digest stand before the i-th entry
Turn(entries, i) == Cardinality({j \in Digested(entries, entries[i].digest) : j < i})
Served(log, d) == Cardinality(Digested(log, d))

\* no cursor: the first answer recorded for a digest, each time
BugDue(held, log, d) == {i \in Digested(held, d) : Turn(held, i) = 0}
\* the place of the next entry with the digest, if one is left
Due(held, log, d) == {i \in Digested(held, d) : Turn(held, i) = Served(log, d)}

\* past the last entry with the digest of the request the run fails
Serve(s, d) ==
  /\ session[s].mode = "replay" /\ Asked(s) < MaxAsks
  /\ LET due == Due(session[s].held, session[s].log, d) IN
     \/ \E i \in due : session' = [session EXCEPT ![s].log = Append(@, session[s].held[i])]
     \/ due = {} /\ session' = [session EXCEPT ![s] = Closed]
  /\ UNCHANGED <<cassette, call, answers, recorded>>

Ask(s, d) ==
  /\ session[s].mode \in {"live", "record"} /\ call[s] = NoCall
  /\ Asked(s) < MaxAsks /\ answers < MaxAnswers
  /\ call' = [call EXCEPT ![s] = [digest |-> d, provider |-> 1, attempt |-> 1, post |-> 1]]
  /\ UNCHANGED <<session, cassette, answers, recorded>>

Reply(s) == [digest |-> call[s].digest, answer |-> answers + 1]

\* append and save run without an await, but the write is not atomic
Answer(s) ==
  /\ call[s] # NoCall /\ answers < MaxAnswers
  /\ answers' = answers + 1 /\ call' = [call EXCEPT ![s] = NoCall]
  /\ LET log == Append(session[s].log, Reply(s))
         held == Append(session[s].held, Reply(s))
         told == [session EXCEPT ![s].log = log]
     IN IF session[s].mode = "record"
        THEN /\ session' = [told EXCEPT ![s].held = held]
             /\ cassette' = held
             /\ recorded' = IF session[s].fresh THEN log ELSE <<>>
        ELSE session' = told /\ UNCHANGED <<cassette, recorded>>

Die ==
  /\ session' = [s \in Sessions |-> Closed] /\ call' = [s \in Sessions |-> NoCall]
  /\ \/ UNCHANGED cassette
     \/ (\E s \in Sessions : session[s].mode = "record" /\ call[s] # NoCall) /\ cassette' = Torn
  /\ UNCHANGED <<answers, recorded>>

\* the operator removes the file
Discard ==
  /\ cassette # <<>> /\ cassette' = <<>> /\ recorded' = <<>>
  /\ UNCHANGED <<session, call, answers>>

-----------------------------------------------------------------------------
(* One call of the chain.  A post that fails is made again; the error of   *)
(* the last one, when it is transient, makes the fallback try the provider *)
(* again after a pause; then the next provider is asked.  An answer        *)
(* without choices is an error of no second post.                          *)

Repost(s) ==
  /\ call[s] # NoCall /\ call[s].post < Posts
  /\ call' = [call EXCEPT ![s].post = @ + 1]
  /\ UNCHANGED <<cassette, session, answers, recorded>>

\* error: "transient" or "fatal" after the last post, "empty" after any
Fail(s, error) ==
  /\ call[s] # NoCall /\ (error # "empty" => call[s].post = Posts)
  /\ IF Providers > 1 /\ error = "transient" /\ call[s].attempt <= Backoffs
     THEN call' = [call EXCEPT ![s].attempt = @ + 1, ![s].post = 1] /\ UNCHANGED session
     ELSE IF call[s].provider < Providers
     THEN call' = [call EXCEPT ![s].provider = @ + 1, ![s].attempt = 1, ![s].post = 1] /\ UNCHANGED session
     ELSE call' = [call EXCEPT ![s] = NoCall] /\ session' = [session EXCEPT ![s] = Closed]
  /\ UNCHANGED <<cassette, answers, recorded>>

ProvidersNext ==
  \/ \E s \in Sessions :
       \/ \E mode \in Modes : Open(s, mode)
       \/ \E d \in Digests : Serve(s, d) \/ Ask(s, d)
       \/ \E error \in {"transient", "fatal", "empty"} : Fail(s, error)
       \/ Close(s) \/ Answer(s) \/ Repost(s)
  \/ Die \/ Discard

ProvidersSpec == ProvidersInit /\ [][ProvidersNext]_providerVars

-----------------------------------------------------------------------------
(* Properties.                                                             *)

\* While the file is the one recorded from empty by the session that saved last, a replay that
\* asks the same requests in the same order is given the same answers, whatever was asked
\* twice and whoever recorded at the same time (CassetteModelProvider; digest-keyed, D2).
ReplayIsTheRecording ==
  \A s \in Sessions :
    LET told == session[s].log IN
    session[s].mode = "replay" /\ recorded # <<>> /\ session[s].held = recorded
      /\ Len(told) <= Len(recorded)
      /\ (\A i \in DOMAIN told : told[i].digest = recorded[i].digest)
    => IsPrefix(told, recorded)

-----------------------------------------------------------------------------
(* The inductive invariant: what a replay was told are entries it holds,    *)
(* each in its turn among those with its digest.                            *)

ToldInTurn(held, log) ==
  \A i \in DOMAIN log : \E k \in DOMAIN held : log[i] = held[k] /\ Turn(held, k) = Turn(log, i)

ProvidersInv ==
  /\ ProvidersTypeOK
  /\ \A s \in Sessions :
       /\ call[s] # NoCall => session[s].mode \in {"live", "record"}
       /\ session[s].mode = "replay" => ToldInTurn(session[s].held, session[s].log)
=============================================================================
