----------------------------- MODULE ServeProofs -----------------------------
(***************************************************************************)
(* The stream of a client can be unwrapped unless a maker kept it, for any *)
(* number of clients, descriptors and errors.                              *)
(***************************************************************************)
EXTENDS Serve, SequenceTheorems, TLAPS

\* Where the loop and its stream are; the stream it has no task has.
InLoop ==
    /\ queue \in Seq(Clients)
    /\ stream \in Clients \cup {NoClient}
    /\ loop \in {"accept", "sleep", "returned"} \cup Makers
    /\ loop \in Makers <=> stream # NoClient
    /\ phase \in [Clients -> Phases]
    /\ stream # NoClient => phase[stream] = "making"

\* A clone is with the maker that the loop waits for, or was kept.
Lent(c) == IF c = stream THEN {loop} ELSE {}

ClonesHeld ==
    /\ clones \in [Clients -> SUBSET Holders]
    /\ kept \in [Clients -> SUBSET Makers]
    /\ \A c \in Clients : clones[c] \subseteq kept[c] \cup Lent(c)

Holding == InLoop /\ ClonesHeld /\ PanicsOnlyIfKept

LEMMA InitHolding ==
    Init => Holding
<1> SUFFICES ASSUME Init PROVE Holding
  OBVIOUS
<1> USE DEF Init
<1>1. InLoop
  BY DEF InLoop, Phases, Makers, Holders
<1>2. ClonesHeld
  BY DEF ClonesHeld
<1>3. PanicsOnlyIfKept
  BY DEF PanicsOnlyIfKept
<1> QED BY <1>1, <1>2, <1>3 DEF Holding

\* The loop takes the head of the backlog, or nobody.
LEMMA LoopSteps ==
    ASSUME InLoop, [Next]_vars
    PROVE  InLoop'
<1> USE ServeAssumption DEF InLoop, Moves, Phases, Makers, Holders
<1>1. CASE Accepting
  <2>1. Head(queue) \in Clients /\ Tail(queue) \in Seq(Clients)
    BY <1>1, HeadTailProperties DEF Accepting
  <2>2. loop = "accept" /\ stream = NoClient
    BY <1>1 DEF Accepting
  <2>3. CASE Accept
    BY <2>1, <2>2, <2>3 DEF Accept
  <2>4. CASE AcceptAborted
    BY <2>1, <2>2, <2>4 DEF AcceptAborted
  <2>5. CASE AcceptExhausted \/ AcceptFault
    BY <2>2, <2>5 DEF AcceptExhausted, AcceptFault
  <2>6. CASE \E c \in Clients : Arrive(c)
    BY <2>2, <2>6, AppendProperties DEF Arrive
  <2>7. CASE \E c \in Clients : DropClone(c) \/ Task(c) \/ Finish(c) \/ Unregister(c) \/ WriterEnds(c)
    BY <2>2, <2>7 DEF DropClone, Task, TaskServes, TaskPanics, Finish, Unregister, WriterEnds
  <2>8. CASE UNCHANGED vars
    BY <2>8 DEF vars
  <2>9. ~Wake /\ ~Making
    BY <2>2 DEF Wake, Making, MakeService, MakeConnectService
  <2> QED BY <2>3, <2>4, <2>5, <2>6, <2>7, <2>8, <2>9 DEF Next, AcceptLoop
<1>2. CASE ~Accepting
  <2>1. CASE Wake
    BY <2>1 DEF Wake
  <2>2. CASE MakeService
    BY <2>2 DEF MakeService
  <2>3. CASE MakeConnectService
    BY <2>3 DEF MakeConnectService
  <2>4. ASSUME NEW c \in Clients, Arrive(c) PROVE InLoop'
    BY <2>4, AppendProperties DEF Arrive
  <2>5. ASSUME NEW c \in Clients,
               DropClone(c) \/ Task(c) \/ Finish(c) \/ Unregister(c) \/ WriterEnds(c)
        PROVE  InLoop'
    BY <2>5 DEF DropClone, Task, TaskServes, TaskPanics, Finish, Unregister, WriterEnds
  <2>6. CASE UNCHANGED vars
    BY <2>6 DEF vars
  <2>7. ~Accept /\ ~AcceptAborted /\ ~AcceptExhausted /\ ~AcceptFault
    BY <1>2 DEF Accept, AcceptAborted, AcceptExhausted, AcceptFault
  <2> QED BY <2>1, <2>2, <2>3, <2>4, <2>5, <2>6, <2>7 DEF Next, AcceptLoop, Making
<1> QED BY <1>1, <1>2

\* A maker that returns without its clone leaves none; what is dropped, by
\* whom ever, only makes the set of clones smaller.
LEMMA CloneSteps ==
    ASSUME InLoop, ClonesHeld, [Next]_vars
    PROVE  ClonesHeld'
<1> USE ServeAssumption DEF ClonesHeld, Lent, Makers, Holders
<1>1. CASE Accept
  <2>1. Head(queue) \in Clients
    BY <1>1, HeadTailProperties DEF InLoop, Accept, Accepting
  <2>2. stream = NoClient
    BY <1>1 DEF InLoop, Accept, Accepting
  <2> QED BY <1>1, <2>1, <2>2 DEF Accept
<1>2. CASE AcceptAborted \/ AcceptExhausted \/ AcceptFault \/ Wake
  <2>1. UNCHANGED <<clones, kept, stream>> /\ stream = NoClient
    BY <1>2 DEF InLoop, Accepting, AcceptAborted, AcceptExhausted, AcceptFault, Wake
  <2> QED BY <2>1
<1>3. CASE MakeService
  <2>1. stream \in Clients
    BY <1>3 DEF InLoop, MakeService
  <2>2. PICK k \in {{}, {"make_service"}} : kept' = [kept EXCEPT ![stream] = @ \cup k]
    BY <1>3 DEF MakeService, Returned
  <2> QED BY <1>3, <2>1, <2>2 DEF MakeService
<1>4. CASE MakeConnectService
  <2>1. stream \in Clients
    BY <1>4 DEF InLoop, MakeConnectService
  <2>2. PICK k \in {{}, {"make_connect_service"}} : kept' = [kept EXCEPT ![stream] = @ \cup k]
    BY <1>4 DEF MakeConnectService, Returned
  <2> QED BY <1>4, <2>1, <2>2 DEF MakeConnectService
<1>5. ASSUME NEW c \in Clients, DropClone(c) PROVE ClonesHeld'
  BY <1>5 DEF DropClone
<1>6. ASSUME NEW c \in Clients, TaskPanics(c) PROVE ClonesHeld'
  <2>1. PICK left \in SUBSET clones[c] : clones' = [clones EXCEPT ![c] = left]
    BY <1>6 DEF TaskPanics
  <2>2. kept' = kept /\ stream' = stream /\ loop' = loop
    BY <1>6 DEF TaskPanics
  <2> QED BY <2>1, <2>2
<1>7. ASSUME NEW c \in Clients,
             Arrive(c) \/ TaskServes(c) \/ Finish(c) \/ Unregister(c) \/ WriterEnds(c)
      PROVE  ClonesHeld'
  BY <1>7 DEF Arrive, TaskServes, Finish, Unregister, WriterEnds
<1>8. CASE UNCHANGED vars
  BY <1>8 DEF vars
<1> QED BY <1>1, <1>2, <1>3, <1>4, <1>5, <1>6, <1>7, <1>8 DEF Next, AcceptLoop, Making, Task

\* Only a task whose stream has a clone panics, and that clone was kept: the
\* loop has lent none of a stream it has handed over.
LEMMA PanicSteps ==
    ASSUME InLoop, ClonesHeld, PanicsOnlyIfKept, [Next]_vars
    PROVE  PanicsOnlyIfKept'
<1>1. ASSUME NEW c \in Clients PROVE kept[c] \subseteq kept'[c]
  <2>1. CASE MakeService \/ MakeConnectService
    <3>1. PICK k : kept' = [kept EXCEPT ![stream] = @ \cup k]
      BY <2>1 DEF MakeService, MakeConnectService, Returned
    <3> QED BY <3>1 DEF ClonesHeld
  <2>2. CASE ~(MakeService \/ MakeConnectService)
    <3>1. kept' = kept
      BY <2>2 DEF Next, AcceptLoop, Making, Accept, AcceptAborted, AcceptExhausted, AcceptFault,
                  Wake, Arrive, DropClone, Task, TaskServes, TaskPanics, Finish, Unregister,
                  WriterEnds, vars
    <3> QED BY <3>1
  <2> QED BY <2>1, <2>2
<1>2. ASSUME NEW c \in Clients, phase'[c] = "panicked", phase[c] # "panicked"
      PROVE  TaskPanics(c)
  BY <1>2, HeadTailProperties
     DEF InLoop, Next, AcceptLoop, Making, Accept, AcceptAborted, AcceptExhausted, AcceptFault,
         Wake, MakeService, MakeConnectService, Arrive, DropClone, Task, TaskServes, TaskPanics,
         Finish, Unregister, WriterEnds, Moves, Accepting, vars
<1>3. ASSUME NEW c \in Clients, TaskPanics(c) PROVE kept[c] # {}
  <2>1. c # stream
    BY <1>3, ServeAssumption DEF InLoop, TaskPanics
  <2> QED BY <1>3, <2>1 DEF ClonesHeld, Lent, TaskPanics
<1> QED BY <1>1, <1>2, <1>3 DEF PanicsOnlyIfKept

\* A task fails to unwrap its stream only if a maker kept it.
THEOREM StreamsUnwrapped ==
    Spec => []PanicsOnlyIfKept
<1>1. Holding /\ [Next]_vars => Holding'
  BY LoopSteps, CloneSteps, PanicSteps DEF Holding
<1>2. Holding => PanicsOnlyIfKept
  BY DEF Holding
<1> QED BY <1>1, <1>2, InitHolding, PTL DEF Spec
-----------------------------------------------------------------------------
\* What the registry and the count of errors hold.
Counted == registered \in SUBSET Clients /\ faults \in 0 .. MaxFaults

LEMMA CountedSteps ==
    ASSUME Counted, [Next]_vars
    PROVE  Counted'
<1> USE ServeAssumption DEF Counted
<1>1. CASE AcceptFault
  BY <1>1 DEF AcceptFault
<1>2. CASE Accept \/ AcceptAborted \/ AcceptExhausted \/ Wake \/ Making
  BY <1>2 DEF Accept, AcceptAborted, AcceptExhausted, Wake, Making, MakeService,
              MakeConnectService
<1>3. ASSUME NEW c \in Clients,
             Arrive(c) \/ DropClone(c) \/ Task(c) \/ Finish(c) \/ Unregister(c) \/ WriterEnds(c)
      PROVE  Counted'
  BY <1>3 DEF Arrive, DropClone, Task, TaskServes, TaskPanics, Finish, Unregister, WriterEnds
<1>4. CASE UNCHANGED vars
  BY <1>4 DEF vars
<1> QED BY <1>1, <1>2, <1>3, <1>4 DEF Next, AcceptLoop

\* Every variable of the accept loop keeps its type; the loop holds a stream
\* exactly while it awaits a maker.
THEOREM ServeTyped ==
    Spec => []ServeTypeOK
<1>1. Init => Holding /\ Counted
  BY InitHolding, ServeAssumption DEF Init, Counted
<1>2. Holding /\ Counted /\ [Next]_vars => Holding' /\ Counted'
  BY LoopSteps, CloneSteps, PanicSteps, CountedSteps DEF Holding
<1>3. Holding /\ Counted => ServeTypeOK
  BY DEF Holding, Counted, InLoop, ClonesHeld, ServeTypeOK
<1> QED BY <1>1, <1>2, <1>3, PTL DEF Spec
=============================================================================
