-------------------------------- MODULE Serve --------------------------------
(***************************************************************************)
(* The accept loop (aqua.rs): it takes one client at a time from the       *)
(* listener, lets the two makers build its services, and spawns a task     *)
(* that unwraps the stream and runs the Connection.  The makers are given  *)
(* clones of the Arc around the stream.  A socket is open as long as the   *)
(* loop, a clone, the task, or the writer task of the Connection holds it; *)
(* the process has room for MaxOpen of them.                               *)
(***************************************************************************)
EXTENDS Naturals, Sequences, FiniteSets

CONSTANTS
    Clients,
    NoClient,
    MaxOpen,    \* descriptors for accepted sockets
    MaxFaults   \* accept errors of any other kind

ASSUME ServeAssumption ==
    /\ IsFiniteSet(Clients) /\ NoClient \notin Clients
    /\ MaxOpen \in Nat \ {0} /\ MaxFaults \in Nat

VARIABLES
    queue,      \* the listener's backlog
    loop,       \* where the accept loop is
    stream,     \* the client whose stream the loop holds
    phase,      \* how far each client has come
    clones,     \* the clones of each stream that were not dropped
    kept,       \* the makers that returned before they dropped theirs (history)
    registered, \* by_client_id of SESSION_MANAGER
    faults      \* accept errors so far

vars == <<queue, loop, stream, phase, clones, kept, registered, faults>>

Holders == {"make_service", "make_connect_service", "loop"}
Makers == Holders \ {"loop"}
Phases == {"away", "queued", "aborted", "making", "spawned", "panicked", "served",
           "ended", "closed"}

ServeTypeOK ==
    /\ queue \in Seq(Clients)
    /\ loop \in {"accept", "sleep", "returned"} \cup Makers
    /\ stream \in Clients \cup {NoClient}
    /\ loop \in Makers <=> stream # NoClient
    /\ phase \in [Clients -> Phases]
    /\ clones \in [Clients -> SUBSET Holders]
    /\ kept \in [Clients -> SUBSET Makers]
    /\ registered \in SUBSET Clients
    /\ faults \in 0 .. MaxFaults

Init ==
    /\ queue = <<>>
    /\ loop = "accept" /\ stream = NoClient
    /\ phase = [c \in Clients |-> "away"]
    /\ clones = [c \in Clients |-> {}]
    /\ kept = [c \in Clients |-> {}]
    /\ registered = {}
    /\ faults = 0

Moves(c, p) == phase' = [phase EXCEPT ![c] = p]

\* A Connection that ended leaves its writer task with the write half.
Open(c) == phase[c] \in {"making", "spawned", "served", "ended"} \/ clones[c] # {}
Exhausted == Cardinality({c \in Clients : Open(c)}) >= MaxOpen

Arrive(c) ==
    /\ phase[c] = "away"
    /\ Moves(c, "queued")
    /\ queue' = Append(queue, c)
    /\ UNCHANGED <<loop, stream, clones, kept, registered, faults>>

-----------------------------------------------------------------------------
(* tcp_accept *)

Accepting == loop = "accept" /\ queue # <<>>

Accept ==
    /\ Accepting /\ ~Exhausted
    /\ stream' = Head(queue)
    /\ queue' = Tail(queue)
    /\ Moves(Head(queue), "making")
    /\ clones' = [clones EXCEPT ![Head(queue)] = {"make_service"}]
    /\ loop' = "make_service"
    /\ UNCHANGED <<kept, registered, faults>>

\* Mutant: the error is not told from a stream.
AcceptAbortedGoesOn ==
    /\ Accepting
    /\ queue' = Tail(queue)
    /\ Moves(Head(queue), "aborted")
    /\ loop' = "make_service"
    /\ UNCHANGED <<stream, clones, kept, registered, faults>>

\* A connection error, the client's own: the next one is accepted at once.
AcceptAborted ==
    /\ Accepting
    /\ queue' = Tail(queue)
    /\ Moves(Head(queue), "aborted")
    /\ UNCHANGED <<loop, stream, clones, kept, registered, faults>>

\* Mutant: any other error ends the loop.
AcceptExhaustedReturns ==
    /\ Accepting /\ Exhausted
    /\ loop' = "returned"
    /\ UNCHANGED <<queue, stream, phase, clones, kept, registered, faults>>

\* Any other error, as when there is no descriptor: the client stays in the
\* backlog for a second.
AcceptExhausted ==
    /\ Accepting /\ Exhausted
    /\ loop' = "sleep"
    /\ UNCHANGED <<queue, stream, phase, clones, kept, registered, faults>>

AcceptFault ==
    /\ Accepting /\ faults < MaxFaults
    /\ loop' = "sleep"
    /\ faults' = faults + 1
    /\ UNCHANGED <<queue, stream, phase, clones, kept, registered>>

Wake ==
    /\ loop = "sleep"
    /\ loop' = "accept"
    /\ UNCHANGED <<queue, stream, phase, clones, kept, registered, faults>>

-----------------------------------------------------------------------------
(* The makers.  The loop awaits each: poll_ready (of make_service only) and *)
(* the future of the call; a maker may take for ever.                       *)

\* The IncomingStream is dropped with the maker's future, or is kept by the
\* service it made or by some task.
Returned(m) ==
    \E k \in {{}, {m}} : kept' = [kept EXCEPT ![stream] = @ \cup k]

MakeService ==
    /\ loop = "make_service"
    /\ Returned("make_service")
    /\ clones' = [clones EXCEPT ![stream] =
                    (@ \cap kept'[stream]) \cup {"make_connect_service"}]
    /\ loop' = "make_connect_service"
    /\ UNCHANGED <<queue, stream, phase, registered, faults>>

\* Mutant: the task is given another clone.
MakeConnectServiceClones ==
    /\ loop = "make_connect_service"
    /\ Returned("make_connect_service")
    /\ clones' = [clones EXCEPT ![stream] = (@ \cap kept'[stream]) \cup {"loop"}]
    /\ Moves(stream, "spawned")
    /\ loop' = "accept" /\ stream' = NoClient
    /\ UNCHANGED <<queue, registered, faults>>

\* The loop moves its own Arc into the task that it spawns.
MakeConnectService ==
    /\ loop = "make_connect_service"
    /\ Returned("make_connect_service")
    /\ clones' = [clones EXCEPT ![stream] = @ \cap kept'[stream]]
    /\ Moves(stream, "spawned")
    /\ loop' = "accept" /\ stream' = NoClient
    /\ UNCHANGED <<queue, registered, faults>>

\* What holds a clone drops it.
DropClone(c) ==
    /\ \E m \in clones[c] \cap kept[c] : clones' = [clones EXCEPT ![c] = @ \ {m}]
    /\ UNCHANGED <<queue, loop, stream, phase, kept, registered, faults>>

-----------------------------------------------------------------------------
(* The spawned task *)

\* try_unwrap succeeds; Connection::new registers a sender and spawns the writer.
TaskServes(c) ==
    /\ phase[c] = "spawned" /\ clones[c] = {}
    /\ Moves(c, "served")
    /\ registered' = registered \cup {c}
    /\ UNCHANGED <<queue, loop, stream, clones, kept, faults>>

\* A clone is left: unwrap panics, and the services go with what they keep.
TaskPanics(c) ==
    /\ phase[c] = "spawned" /\ clones[c] # {}
    /\ Moves(c, "panicked")
    /\ \E left \in SUBSET clones[c] : clones' = [clones EXCEPT ![c] = left]
    /\ UNCHANGED <<queue, loop, stream, kept, registered, faults>>

Task(c) == TaskServes(c) \/ TaskPanics(c)

\* The Connection resolves, whatever the result.
Finish(c) ==
    /\ phase[c] = "served"
    /\ Moves(c, "ended")
    /\ UNCHANGED <<queue, loop, stream, clones, kept, registered, faults>>

\* The application's to call; examples/broker.rs never does.
Unregister(c) ==
    /\ c \in registered /\ phase[c] = "ended"
    /\ registered' = registered \ {c}
    /\ UNCHANGED <<queue, loop, stream, phase, clones, kept, faults>>

\* Mutant: the task goes on as long as its client does.
WriterStays(c) ==
    /\ phase[c] = "ended" /\ c \notin registered
    /\ UNCHANGED vars

\* Without a sender the writer task shuts the socket down.
WriterEnds(c) ==
    /\ phase[c] = "ended" /\ c \notin registered
    /\ Moves(c, "closed")
    /\ UNCHANGED <<queue, loop, stream, clones, kept, registered, faults>>

-----------------------------------------------------------------------------
AcceptLoop == Accept \/ AcceptAborted \/ AcceptExhausted \/ AcceptFault \/ Wake
Making == MakeService \/ MakeConnectService

Next ==
    \/ AcceptLoop \/ Making
    \/ \E c \in Clients :
        \/ Arrive(c) \/ DropClone(c) \/ Task(c) \/ Finish(c) \/ Unregister(c)
        \/ WriterEnds(c)

Spec == Init /\ [][Next]_vars

\* The runtime polls the loop and the tasks; makers, clones, connections and
\* the application take the time they take.
Fairness ==
    /\ WF_vars(AcceptLoop)
    /\ \A c \in Clients : WF_vars(Task(c)) /\ WF_vars(WriterEnds(c))

FairSpec == Spec /\ Fairness

-----------------------------------------------------------------------------
(* Properties *)

\* The task's `try_unwrap(..).unwrap()` (aqua.rs:190) fails for a client only
\* if a maker returned while its clone was still in use: neither the loop's own
\* Arc nor that of a later client gets in the way.
PanicsOnlyIfKept == \A c \in Clients : phase[c] = "panicked" => kept[c] # {}

\* A client waits in the backlog for ever only behind a maker that does not
\* return, or because every descriptor stays in use: errors of the listener,
\* clients that went away, panics of other tasks and running connections do not
\* keep it there.
WaitsForAReason ==
    \A c \in Clients :
        \/ <>[](loop \in Makers)
        \/ <>[]Exhausted
        \/ (phase[c] = "queued" ~> phase[c] # "queued")

\* Descriptors come back: if the makers return and drop their clones, and every
\* connection ends and is unregistered by the application, nobody waits.
SlotsComeBack ==
    (/\ []<>(loop \notin Makers)
     /\ \A c \in Clients :
        /\ []<>(clones[c] = {})
        /\ []<>(phase[c] # "served")
        /\ []<>(c \notin registered))
    => \A c \in Clients : phase[c] = "queued" ~> phase[c] # "queued"
=============================================================================
