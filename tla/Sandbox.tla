-------------------------------- MODULE Sandbox --------------------------------
(***************************************************************************)
(* The container sandbox of a sagiha workspace: start() under an asyncio   *)
(* lock (proxy on a unix socket, podman create --replace, podman start,    *)
(* forwarder, probe), commands through podman exec, and aclose() under the *)
(* same lock.  Any podman command may fail, any caller may be cancelled at *)
(* any await; a podman process whose caller was cancelled still ends, and  *)
(* is taken to end before the next one begins.  A container that runs may  *)
(* exit whenever its own process does; nothing watches it.                 *)
(*                                                                         *)
(* Containers and proxies are numbered by the start that made them.  All   *)
(* the containers of a sandbox have one name and all its proxies one       *)
(* socket path, so a new one replaces what bears the name.                 *)
(***************************************************************************)
EXTENDS Naturals, FiniteSets

CONSTANTS
  Callers,     \* tasks that use or close the sandbox
  Restricted,  \* sandbox.network = "restricted": egress through the proxy only
  MaxStarts    \* bound on the starts

VARIABLES
  task,        \* what each caller is at
  holder,      \* who holds the lock
  handle,      \* the object: container id, proxy, started
  container,   \* the container podman has under the sandbox's name
  listening,   \* proxies whose server is open
  socket,      \* the proxy whose socket is at the path
  starts       \* starts so far

sandboxVars == <<task, holder, handle, container, listening, socket, starts>>

Ids == 1..MaxStarts
Nobody == "nobody"
SandboxAssumption == Restricted \in BOOLEAN /\ MaxStarts \in Nat /\ Nobody \notin Callers

NoContainer == [id |-> 0, state |-> "none", socket |-> 0]
States == {"none", "created", "running", "exited"}
NewHandle == [cid |-> 0, proxy |-> 0, started |-> FALSE]

\* "self": aclose() called by start(), waiting for the lock its caller holds
Steps == {"idle", "enter", "create", "boot", "self", "forward", "probe", "exec", "leave", "remove",
          "unlisten"}
Starting == {"create", "boot", "self", "forward", "probe"}
Holding == Starting \cup {"remove", "unlisten"}

SandboxTypeOK ==
  /\ task \in [Callers -> Steps] /\ holder \in Callers \cup {Nobody}
  /\ handle \in [cid : Ids \cup {0}, proxy : Ids \cup {0}, started : BOOLEAN]
  /\ container \in [id : Ids \cup {0}, state : States, socket : Ids \cup {0}]
  /\ listening \subseteq Ids /\ socket \in Ids \cup {0} /\ starts \in 0..MaxStarts

SandboxInit ==
  /\ task = [c \in Callers |-> "idle"] /\ holder = Nobody
  /\ handle = NewHandle /\ container = NoContainer
  /\ listening = {} /\ socket = 0 /\ starts = 0

To(c, step) == task' = [task EXCEPT ![c] = step]

-----------------------------------------------------------------------------
(* Starting and running commands.                                          *)

\* read, write, apply_edit and run ensure that the sandbox is started
Use(c) ==
  /\ task[c] = "idle"
  /\ To(c, IF handle.started THEN "exec" ELSE "enter")
  /\ UNCHANGED <<holder, handle, container, listening, socket, starts>>

\* once it has the lock, start() looks again
EnterStarted(c) ==
  /\ task[c] = "enter" /\ holder = Nobody /\ handle.started
  /\ To(c, "exec")
  /\ UNCHANGED <<holder, handle, container, listening, socket, starts>>

\* a new proxy takes the socket path and the object's reference from an earlier one
BeginStart(c) ==
  /\ task[c] = "enter" /\ holder = Nobody /\ ~handle.started /\ starts < MaxStarts
  /\ To(c, "create") /\ holder' = c /\ starts' = starts + 1
  /\ IF Restricted
     THEN /\ handle' = [handle EXCEPT !.proxy = starts + 1]
          /\ listening' = listening \cup {starts + 1} /\ socket' = starts + 1
     ELSE UNCHANGED <<handle, listening, socket>>
  /\ UNCHANGED container

\* EgressProxy.stop unlinks whatever is at the path
CloseProxy(h) ==
  IF h.proxy = 0 THEN handle' = h /\ UNCHANGED <<listening, socket>>
  ELSE /\ listening' = listening \ {h.proxy} /\ socket' = 0
       /\ handle' = [h EXCEPT !.proxy = 0]

Created == container' = [id |-> starts, state |-> "created", socket |-> handle.proxy]

Create(c) ==
  /\ task[c] = "create" /\ Created
  /\ To(c, "boot") /\ handle' = [handle EXCEPT !.cid = starts]
  /\ UNCHANGED <<holder, listening, socket, starts>>

CreateFails(c) ==
  /\ task[c] = "create" /\ CloseProxy(handle)
  /\ To(c, "idle") /\ holder' = Nobody
  /\ UNCHANGED <<container, starts>>

Boot(c) ==
  /\ task[c] = "boot"
  /\ container' = [container EXCEPT !.state = "running"]
  /\ IF handle.proxy # 0 THEN To(c, "forward") /\ UNCHANGED <<holder, handle>>
     ELSE To(c, "exec") /\ holder' = Nobody /\ handle' = [handle EXCEPT !.started = TRUE]
  /\ UNCHANGED <<listening, socket, starts>>

\* the error path closes the sandbox first, and aclose() takes the lock start() still holds
BootFails(c) ==
  /\ task[c] = "boot"
  /\ To(c, "self")
  /\ UNCHANGED <<holder, handle, container, listening, socket, starts>>

Forward(c) ==
  /\ task[c] = "forward" /\ container.state = "running" /\ To(c, "probe")
  /\ UNCHANGED <<holder, handle, container, listening, socket, starts>>

\* raises: the container runs and the proxy listens, behind a flag that says not started
ForwardFails(c) ==
  /\ task[c] = "forward" /\ To(c, "idle") /\ holder' = Nobody
  /\ UNCHANGED <<handle, container, listening, socket, starts>>

\* twenty attempts, and what they found is not looked at
Probed(c) ==
  /\ task[c] = "probe"
  /\ To(c, "exec") /\ holder' = Nobody /\ handle' = [handle EXCEPT !.started = TRUE]
  /\ UNCHANGED <<container, listening, socket, starts>>

\* podman exec ends, with whatever exit code
Exit(c) ==
  /\ task[c] = "exec" /\ To(c, "idle")
  /\ UNCHANGED <<holder, handle, container, listening, socket, starts>>

-----------------------------------------------------------------------------
(* Closing and cancellation.                                               *)

Close(c) ==
  /\ task[c] = "idle" /\ To(c, "leave")
  /\ UNCHANGED <<holder, handle, container, listening, socket, starts>>

\* aclose() forgets the container before it removes it
BugForget(c) ==
  /\ task[c] = "leave" /\ holder = Nobody
  /\ To(c, IF handle.cid # 0 /\ container.id = handle.cid THEN "remove" ELSE "unlisten")
  /\ holder' = c /\ handle' = [handle EXCEPT !.cid = 0]
  /\ UNCHANGED <<container, listening, socket, starts>>
Forget(c) ==
  /\ task[c] = "leave" /\ holder = Nobody
  /\ To(c, IF handle.cid # 0 /\ container.id = handle.cid THEN "remove" ELSE "unlisten")
  /\ holder' = c /\ handle' = [handle EXCEPT !.cid = 0, !.started = FALSE]
  /\ UNCHANGED <<container, listening, socket, starts>>

Remove(c) ==
  /\ task[c] = "remove" /\ container' = NoContainer
  /\ To(c, "unlisten")
  /\ UNCHANGED <<holder, handle, listening, socket, starts>>

Unlisten(c) ==
  /\ task[c] = "unlisten" /\ CloseProxy(handle)
  /\ To(c, "idle") /\ holder' = Nobody
  /\ UNCHANGED <<container, starts>>

\* the lock is released as the task unwinds; what podman was asked to do may still happen
Interrupt(c) ==
  /\ task[c] # "idle" /\ To(c, "idle")
  /\ holder' = IF holder = c THEN Nobody ELSE holder
  /\ \/ UNCHANGED container
     \/ task[c] = "create" /\ Created
     \/ task[c] = "boot" /\ container' = [container EXCEPT !.state = "running"]
     \/ task[c] = "remove" /\ container' = NoContainer
  /\ UNCHANGED <<handle, listening, socket, starts>>

\* the container's own process ends
ContainerExits ==
  /\ container.state = "running" /\ container' = [container EXCEPT !.state = "exited"]
  /\ UNCHANGED <<task, holder, handle, listening, socket, starts>>

SandboxNext ==
  \/ ContainerExits
  \/ \E c \in Callers :
    \/ Use(c) \/ EnterStarted(c) \/ BeginStart(c) \/ Create(c) \/ CreateFails(c) \/ Boot(c) \/ BootFails(c)
    \/ Forward(c) \/ ForwardFails(c) \/ Probed(c) \/ Exit(c)
    \/ Close(c) \/ Forget(c) \/ Remove(c) \/ Unlisten(c) \/ Interrupt(c)

SandboxSpec == SandboxInit /\ [][SandboxNext]_sandboxVars

-----------------------------------------------------------------------------
(* Properties.                                                             *)

\* A sandbox that says it is started names the container podman has, which podman has started,
\* and in the restricted mode the one proxy of that container is listening at the path mounted
\* into it, whatever starts failed or were cancelled before (ContainerSandbox: "so the network and
\* credential perimeter holds").  Whether the container still runs it does not say.
StartedIsReady ==
  handle.started =>
    /\ container.id = handle.cid /\ container.id # 0 /\ container.state \in {"running", "exited"}
    /\ Restricted => /\ handle.proxy = container.socket /\ socket = handle.proxy
                     /\ handle.proxy \in listening

\* The lock is with the one task that is inside start() or aclose(), and with nobody when none is:
\* every failure and every cancellation that ends one of them gives it back.  A task that waits
\* inside start() for the lock it holds (NobodyWaitsForItself) is still its owner.
LockHasItsOwner == \A c \in Callers : task[c] \in Holding <=> holder = c

\* Both at once: no order of failures, cancellations, exits and closes leaves a sandbox that says
\* it is started when it is not, or a lock whose owner is no longer inside start() or aclose().
SandboxIsSound == StartedIsReady /\ LockHasItsOwner

\* A task never waits for the lock it holds itself: a failed `podman start` raises
\* "podman start failed" (container.py).
NobodyWaitsForItself == \A c \in Callers : ~(task[c] = "self" /\ holder = c)
=============================================================================
