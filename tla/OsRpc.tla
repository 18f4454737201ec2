-------------------------------- MODULE OsRpc --------------------------------
(***************************************************************************)
(* Remote service calls (Os_Rpc.c).  Each core has a pool of nodes in two  *)
(* lists, the free ones and the work to do.  A caller takes a free node,   *)
(* writes its call into it, appends it to the work and interrupts the      *)
(* core; the inter-core interrupt of that core works the list off.  A      *)
(* synchronous caller waits for OS_RPC_DONE and gives the node back, the   *)
(* node of an asynchronous call is given back by the core that served it.  *)
(* Each list operation is one critical section, everything between two of  *)
(* them interleaves.                                                       *)
(***************************************************************************)
EXTENDS Naturals, FiniteSets
LOCAL INSTANCE FiniteSetsExt

CONSTANTS
    Cores,        \* the cores
    Callers,      \* tasks and interrupts that call services of other cores
    CoreOf,       \* the core of a caller
    Level,        \* its level: a caller preempts those of lower levels on its core
    Masking,      \* the callers at or above the level of the inter-core interrupt
    Services,     \* Services[c]: the calls c makes, pairs of a core and a kind
    Stopping,     \* the cores that may shut down
    OS_RPC_MAX_NODE,
    E_OK, E_NOT_OK, E_OS_CORE, None,   \* status values, and none
    MaxCalls,     \* bound: MaxCalls[c] is how many calls c makes
    MaxCallsStopping  \* bound: how many calls are made in all when a core stops

\* The call stands for ActionFn and InPara, and for the result its service returns.
Calls == [caller : Callers, number : Nat, target : Cores, kind : {"sync", "async"}]

ASSUME RpcConstants ==
    /\ CoreOf \in [Callers -> Cores]
    /\ Level \in [Callers -> Nat]
    /\ Masking \subseteq Callers
    /\ Stopping \subseteq Cores
    /\ \A c \in Callers : Services[c] \subseteq (Cores \ {CoreOf[c]}) \X {"sync", "async"}
    /\ OS_RPC_MAX_NODE \in Nat \ {0}
    /\ MaxCalls \in [Callers -> Nat]
    /\ MaxCallsStopping \in Nat
    /\ \A v \in {E_OK, E_NOT_OK, E_OS_CORE, None} : v \notin Calls

\* A core gets synchronous calls or asynchronous ones.  The code does not see to it: TestSync
\* reads the kind of a node that may be another call's by then.
OneKindPerCore ==
    \A c, d \in Callers : \A a \in Services[c], b \in Services[d] : a[1] = b[1] => a = b

\* A core that may stop has a node for each of its synchronous callers.  The code does not see to
\* it either: with fewer nodes, a caller that gives up hands the node that the core may still be
\* serving to a caller that saw the core run.
RoomForCallers ==
    \A t \in Stopping :
        LET waiters == {c \in Callers : <<t, "sync">> \in Services[c]} IN
        IsFiniteSet(waiters) /\ Cardinality(waiters) <= OS_RPC_MAX_NODE

VARIABLES
    node,         \* node[t][i]: Os_InterCore[t].ServiceStation[i]
    freeQue,      \* Os_InterCore[t].FreeQue
    workQue,      \* Os_InterCore[t].WorkQue
    caller,       \* where each caller is in Os_RpcCallService, and its call
    server,       \* where each core is in Os_RpcServiceOperation
    interrupt,    \* the inter-core interrupt of a core is requested
    CoreStatus,   \* Os_CoreCB.CoreStatus
    disabled      \* the cores that take no interrupt and run nothing any more

vars == <<node, freeQue, workQue, caller, server, interrupt, CoreStatus, disabled>>

Nodes == 0 .. OS_RPC_MAX_NODE - 1
OS_RPC_INVALID_TRAIN == OS_RPC_MAX_NODE
Trains == 0 .. OS_RPC_INVALID_TRAIN

InitialNode(i) == [next |-> IF i + 1 = OS_RPC_MAX_NODE THEN OS_RPC_INVALID_TRAIN ELSE i + 1,
                   RpcSync |-> "sync", ProcState |-> "OS_RPC_FREE",
                   RetValue |-> None, call |-> None]

Empty == [Head |-> OS_RPC_INVALID_TRAIN, Tail |-> OS_RPC_INVALID_TRAIN]

Init ==
    /\ node = [t \in Cores |-> [i \in Nodes |-> InitialNode(i)]]
    /\ freeQue = [t \in Cores |-> [Head |-> 0, Tail |-> OS_RPC_MAX_NODE - 1]]
    /\ workQue = [t \in Cores |-> Empty]
    /\ caller = [c \in Callers |->
                   [pc |-> "idle", node |-> OS_RPC_INVALID_TRAIN, ret |-> None,
                    call |-> [caller |-> c, number |-> 0, target |-> CoreOf[c], kind |-> "sync"]]]
    /\ server = [t \in Cores |-> [pc |-> "idle", node |-> OS_RPC_INVALID_TRAIN, result |-> None]]
    /\ interrupt = [t \in Cores |-> FALSE]
    /\ CoreStatus = [t \in Cores |-> "OS_RUN"]
    /\ disabled = {}
-----------------------------------------------------------------------------
(* The lists: Os_RpcGetService and Os_RpcAddService, each under the lock of the core. *)

\* Mutant: the tail is left when the last node is taken.
RpcGetServiceKeepsTail(q, station) ==
    LET first == q.Head
        next == station[first].next IN
    IF first = OS_RPC_INVALID_TRAIN THEN [que |-> q, station |-> station, node |-> first]
    ELSE [que |-> [q EXCEPT !.Head = next],
          station |-> [station EXCEPT ![first].next = OS_RPC_INVALID_TRAIN],
          node |-> first]

RpcGetService(q, station) ==
    LET first == q.Head
        next == station[first].next IN
    IF first = OS_RPC_INVALID_TRAIN THEN [que |-> q, station |-> station, node |-> first]
    ELSE IF next = OS_RPC_INVALID_TRAIN THEN [que |-> Empty, station |-> station, node |-> first]
    ELSE [que |-> [q EXCEPT !.Head = next],
          station |-> [station EXCEPT ![first].next = OS_RPC_INVALID_TRAIN],
          node |-> first]

RpcAddService(q, station, i) ==
    LET ended == [station EXCEPT ![i].next = OS_RPC_INVALID_TRAIN] IN
    IF q.Tail = OS_RPC_INVALID_TRAIN
    THEN [que |-> [Head |-> i, Tail |-> i], station |-> ended]
    ELSE [que |-> [q EXCEPT !.Tail = i],
          station |-> [[station EXCEPT ![q.Tail].next = i] EXCEPT ![i].next = OS_RPC_INVALID_TRAIN]]

\* While t runs, nobody reads the call, state and result of a free node before they are written
\* again.  Once t stops, its interrupt may come upon nodes that were given back.
Forget(t, i) ==
    IF CoreStatus[t] = "OS_RUN"
    THEN [node[t] EXCEPT ![i].ProcState = "OS_RPC_FREE", ![i].RetValue = None, ![i].call = None]
    ELSE node[t]
-----------------------------------------------------------------------------
(* Who runs on a core: the caller of the highest level, or the interrupt. *)

Running == {t \in Cores : CoreStatus[t] = "OS_RUN"}
CallsMade == MapThenSumSet(LAMBDA c : caller[c].call.number, Callers)
InCall(c) == caller[c].pc # "idle"
OnCore(t) == {c \in Callers : CoreOf[c] = t}

CallerRuns(c) ==
    /\ CoreStatus[CoreOf[c]] = "OS_RUN"
    /\ \A d \in OnCore(CoreOf[c]) : InCall(d) => Level[d] <= Level[c]
    /\ server[CoreOf[c]].pc = "idle" \/ c \in Masking

ServerRuns(t) ==
    /\ t \notin disabled
    /\ CoreStatus[t] = "OS_RUN" => \A c \in OnCore(t) \cap Masking : ~ InCall(c)
-----------------------------------------------------------------------------
(* Os_RpcCallService *)

At(c, pc) == caller[c].pc = pc /\ CallerRuns(c)
Goto(c, pc) == caller' = [caller EXCEPT ![c].pc = pc]

Call(c) ==
    /\ At(c, "idle")
    /\ caller[c].call.number < MaxCalls[c]
    /\ Running # Cores => CallsMade < MaxCallsStopping
    /\ \E s \in Services[c] :
         caller' = [caller EXCEPT ![c].pc = "test", ![c].ret = None,
                                  ![c].call = [caller[c].call EXCEPT !.number = @ + 1,
                                              !.target = s[1], !.kind = s[2]]]
    /\ UNCHANGED <<node, freeQue, workQue, server, interrupt, CoreStatus, disabled>>

\* The call ends with ret.
End(c, ret) ==
    caller' = [caller EXCEPT ![c] = [@ EXCEPT !.pc = "idle", !.ret = ret, !.node = OS_RPC_INVALID_TRAIN]]

\* The loop for a free node tests the core, and takes a node in a critical section of its own.
FindsCoreGone(c) ==
    /\ At(c, "test")
    /\ CoreStatus[caller[c].call.target] # "OS_RUN"
    /\ End(c, E_OS_CORE)
    /\ UNCHANGED <<node, freeQue, workQue, server, interrupt, CoreStatus, disabled>>

FindsCoreRunning(c) ==
    /\ At(c, "test")
    /\ CoreStatus[caller[c].call.target] = "OS_RUN"
    /\ Goto(c, "take")
    /\ UNCHANGED <<node, freeQue, workQue, server, interrupt, CoreStatus, disabled>>

TakeNode(c) ==
    LET t == caller[c].call.target
        got == RpcGetService(freeQue[t], node[t]) IN
    /\ At(c, "take")
    /\ freeQue' = [freeQue EXCEPT ![t] = got.que]
    /\ node' = [node EXCEPT ![t] = got.station]
    /\ caller' = [caller EXCEPT ![c].pc = IF got.node = OS_RPC_INVALID_TRAIN THEN "test" ELSE "submit",
                                ![c].node = got.node]
    /\ UNCHANGED <<workQue, server, interrupt, CoreStatus, disabled>>

RpcProcessParameter(n, r) ==
    [n EXCEPT !.ProcState = "OS_RPC_START", !.RetValue = E_NOT_OK, !.RpcSync = r.kind, !.call = r]

\* The node is the caller's own until it is in the list; on a core that has stopped, RoomForCallers
\* sees to that.
SubmitNode(c) ==
    LET r == caller[c].call
        i == caller[c].node
        t == r.target
        added == RpcAddService(workQue[t], [node[t] EXCEPT ![i] = RpcProcessParameter(@, r)], i) IN
    /\ At(c, "submit")
    /\ workQue' = [workQue EXCEPT ![t] = added.que]
    /\ node' = [node EXCEPT ![t] = added.station]
    /\ Goto(c, "remote")
    /\ UNCHANGED <<freeQue, server, interrupt, CoreStatus, disabled>>

\* Os_Hal_RemoteCall; an asynchronous call ends here.
RemoteCall(c) ==
    LET r == caller[c].call IN
    /\ At(c, "remote")
    /\ interrupt' = [interrupt EXCEPT ![r.target] = TRUE]
    /\ IF r.kind = "sync" THEN Goto(c, "wait") ELSE End(c, E_OK)
    /\ UNCHANGED <<node, freeQue, workQue, server, CoreStatus, disabled>>

\* Os_RpcWaitResult looks at the node, then at the core; its caller looks at the node once more.
Held(c) == node[caller[c].call.target][caller[c].node]

\* With Os_RpcProcessResult.
SeesDone(c) ==
    /\ At(c, "wait") \/ At(c, "look")
    /\ Held(c).ProcState = "OS_RPC_DONE"
    /\ node' = [node EXCEPT ![caller[c].call.target][caller[c].node].ProcState = "OS_RPC_FREE"]
    /\ caller' = [caller EXCEPT ![c].pc = "give", ![c].ret = Held(c).RetValue]
    /\ UNCHANGED <<freeQue, workQue, server, interrupt, CoreStatus, disabled>>

SeesCoreGone(c) ==
    /\ At(c, "wait")
    /\ Held(c).ProcState # "OS_RPC_DONE"
    /\ CoreStatus[caller[c].call.target] # "OS_RUN"
    /\ Goto(c, "look")
    /\ UNCHANGED <<node, freeQue, workQue, server, interrupt, CoreStatus, disabled>>

GivesUp(c) ==
    /\ At(c, "look")
    /\ Held(c).ProcState # "OS_RPC_DONE"
    /\ caller' = [caller EXCEPT ![c].pc = "give", ![c].ret = E_OS_CORE]
    /\ UNCHANGED <<node, freeQue, workQue, server, interrupt, CoreStatus, disabled>>

GiveNodeBack(c) ==
    LET t == caller[c].call.target
        added == RpcAddService(freeQue[t], Forget(t, caller[c].node), caller[c].node) IN
    /\ At(c, "give")
    /\ freeQue' = [freeQue EXCEPT ![t] = added.que]
    /\ node' = [node EXCEPT ![t] = added.station]
    /\ End(c, caller[c].ret)
    /\ UNCHANGED <<workQue, server, interrupt, CoreStatus, disabled>>
-----------------------------------------------------------------------------
(* Os_RpcServiceOperation, in the inter-core interrupt *)

Serving(t, pc) == server[t].pc = pc /\ ServerRuns(t)
ServerGoto(t, pc) == server' = [server EXCEPT ![t].pc = pc]
GetNext(t, pc) == server' = [server EXCEPT ![t] = [@ EXCEPT !.pc = pc, !.node = OS_RPC_INVALID_TRAIN]]

EnterInterrupt(t) ==
    /\ Serving(t, "idle")
    /\ interrupt[t]
    /\ interrupt' = [interrupt EXCEPT ![t] = FALSE]
    /\ ServerGoto(t, "get")
    /\ UNCHANGED <<node, freeQue, workQue, caller, CoreStatus, disabled>>

GetWork(t) ==
    LET got == RpcGetService(workQue[t], node[t]) IN
    /\ Serving(t, "get")
    /\ workQue' = [workQue EXCEPT ![t] = got.que]
    /\ node' = [node EXCEPT ![t] = got.station]
    /\ server' = [server EXCEPT ![t].pc = IF got.node = OS_RPC_INVALID_TRAIN THEN "idle" ELSE "act",
                                ![t].node = got.node]
    /\ UNCHANGED <<freeQue, caller, interrupt, CoreStatus, disabled>>

\* OS_RPC_WORK, and Os_RpcServiceAction: the service is called as the node says at this moment,
\* its result is written into the node, then the state.  Another call may be in the node by then.
PerformCall(t) ==
    /\ Serving(t, "act")
    /\ node' = [node EXCEPT ![t][server[t].node].ProcState = "OS_RPC_WORK"]
    /\ server' = [server EXCEPT ![t].pc = "write", ![t].result = node[t][server[t].node].call]
    /\ UNCHANGED <<freeQue, workQue, caller, interrupt, CoreStatus, disabled>>

WriteResult(t) ==
    /\ Serving(t, "write")
    /\ node' = [node EXCEPT ![t][server[t].node].RetValue = server[t].result]
    /\ server' = [server EXCEPT ![t].pc = "done", ![t].result = None]
    /\ UNCHANGED <<freeQue, workQue, caller, interrupt, CoreStatus, disabled>>

SetDone(t) ==
    /\ Serving(t, "done")
    /\ node' = [node EXCEPT ![t][server[t].node].ProcState = "OS_RPC_DONE"]
    /\ ServerGoto(t, "test")
    /\ UNCHANGED <<freeQue, workQue, caller, interrupt, CoreStatus, disabled>>

\* Mutant: the node is given back whatever the kind of the call.
GiveEveryNode(t) ==
    /\ Serving(t, "test")
    /\ ServerGoto(t, "give")
    /\ node' = [node EXCEPT ![t][server[t].node].ProcState = "OS_RPC_FREE"]
    /\ UNCHANGED <<freeQue, workQue, caller, interrupt, CoreStatus, disabled>>

\* The kind of the call is read after its caller can have seen that it is done.
TestSync(t) ==
    /\ Serving(t, "test")
    /\ IF node[t][server[t].node].RpcSync = "sync"
       THEN /\ GetNext(t, "get")
            /\ UNCHANGED node
       ELSE /\ ServerGoto(t, "give")
            /\ node' = [node EXCEPT ![t][server[t].node].ProcState = "OS_RPC_FREE"]
    /\ UNCHANGED <<freeQue, workQue, caller, interrupt, CoreStatus, disabled>>

\* Mutant: one node is served per interrupt.
GiveServedNodeAndReturn(t) ==
    LET added == RpcAddService(freeQue[t], Forget(t, server[t].node), server[t].node) IN
    /\ Serving(t, "give")
    /\ freeQue' = [freeQue EXCEPT ![t] = added.que]
    /\ node' = [node EXCEPT ![t] = added.station]
    /\ GetNext(t, "idle")
    /\ UNCHANGED <<workQue, caller, interrupt, CoreStatus, disabled>>

GiveServedNode(t) ==
    LET added == RpcAddService(freeQue[t], Forget(t, server[t].node), server[t].node) IN
    /\ Serving(t, "give")
    /\ freeQue' = [freeQue EXCEPT ![t] = added.que]
    /\ node' = [node EXCEPT ![t] = added.station]
    /\ GetNext(t, "get")
    /\ UNCHANGED <<workQue, caller, interrupt, CoreStatus, disabled>>
-----------------------------------------------------------------------------
(* A core shuts down, called by a task, an interrupt or the service of a call: nothing but the *)
(* inter-core interrupt runs after it, not even that when it was interrupted, and in the end none. *)

Shutdown(t) ==
    /\ t \in Stopping
    /\ CoreStatus[t] = "OS_RUN"
    /\ CallsMade <= MaxCallsStopping
    /\ CoreStatus' = [CoreStatus EXCEPT ![t] = "OS_CORE_PRE_SHUTDOWN"]
    /\ disabled' = IF server[t].pc = "idle" THEN disabled ELSE disabled \cup {t}
    /\ UNCHANGED <<node, freeQue, workQue, caller, server, interrupt>>

DisableInt(t) ==
    /\ CoreStatus[t] # "OS_RUN"
    /\ t \notin disabled
    /\ server[t].pc = "idle"
    /\ disabled' = disabled \cup {t}
    /\ UNCHANGED <<node, freeQue, workQue, caller, server, interrupt, CoreStatus>>

Caller(c) == \/ FindsCoreGone(c) \/ FindsCoreRunning(c) \/ TakeNode(c) \/ SubmitNode(c)
             \/ RemoteCall(c) \/ SeesDone(c) \/ SeesCoreGone(c) \/ GivesUp(c) \/ GiveNodeBack(c)

Server(t) == \/ EnterInterrupt(t) \/ GetWork(t) \/ PerformCall(t) \/ WriteResult(t)
             \/ SetDone(t) \/ TestSync(t) \/ GiveServedNode(t)

Next == \/ \E c \in Callers : Call(c) \/ Caller(c)
        \/ \E t \in Cores : Server(t) \/ Shutdown(t) \/ DisableInt(t)

\* A core executes its program, and takes an interrupt that is requested and not masked.
Fairness == /\ \A c \in Callers : WF_vars(Caller(c))
            /\ \A t \in Cores : WF_vars(Server(t))

Spec == Init /\ [][Next]_vars /\ Fairness
-----------------------------------------------------------------------------
(* The nodes of a list, from its head along NextNode. *)
ListNodes(q, station) ==
    LET Along[n \in 0 .. OS_RPC_MAX_NODE] ==
            IF n = 0 THEN {q.Head} \ {OS_RPC_INVALID_TRAIN}
            ELSE Along[n - 1] \cup ({station[i].next : i \in Along[n - 1]} \ {OS_RPC_INVALID_TRAIN})
    IN Along[OS_RPC_MAX_NODE]

FreeNodes(t) == ListNodes(freeQue[t], node[t])
WorkNodes(t) == ListNodes(workQue[t], node[t])

\* A call counts as performed when its result is written.
Performs(t) == server[t].pc \in {"act", "write"}
Unperformed(t) == WorkNodes(t) \cup {i \in Nodes : Performs(t) /\ server[t].node = i}

NodeType == [next : Trains, RpcSync : {"sync", "async"},
             ProcState : {"OS_RPC_FREE", "OS_RPC_START", "OS_RPC_WORK", "OS_RPC_DONE"},
             RetValue : {None, E_NOT_OK} \cup Calls, call : {None} \cup Calls]

CallerType == [pc : {"idle", "test", "take", "submit", "remote", "wait", "look", "give"},
               node : Trains,
               ret : {None, E_OK, E_NOT_OK, E_OS_CORE} \cup Calls, call : Calls]

ServerType == [pc : {"idle", "get", "act", "write", "done", "test", "give"}, node : Trains,
               result : {None} \cup Calls]

TypeOK ==
    /\ node \in [Cores -> [Nodes -> NodeType]]
    /\ freeQue \in [Cores -> [Head : Trains, Tail : Trains]]
    /\ workQue \in [Cores -> [Head : Trains, Tail : Trains]]
    /\ caller \in [Callers -> CallerType]
    /\ server \in [Cores -> ServerType]
    /\ interrupt \in [Cores -> BOOLEAN]
    /\ CoreStatus \in [Cores -> {"OS_RUN", "OS_CORE_PRE_SHUTDOWN"}]
    /\ disabled \subseteq {t \in Cores : CoreStatus[t] # "OS_RUN"}

\* Who has a node of t taken and not passed on: callers until they append it, or while they wait
\* for a synchronous result, and the interrupt while it serves an asynchronous call.
CallersWith(t, i) == {c \in Callers : /\ caller[c].call.target = t
                                      /\ caller[c].node = i
                                      /\ caller[c].call.kind = "sync" \/ caller[c].pc = "submit"}
ServesAsync(t, i) == server[t].node = i /\ node[t][i].RpcSync = "async"

\* A node of a running core is in one place: free, at the caller that waits with it, or with an
\* asynchronous call queued or being served; each list ends at its tail.
OnePlace ==
    \A t \in Cores : CoreStatus[t] = "OS_RUN" =>
        LET free == FreeNodes(t) work == WorkNodes(t) IN
        /\ \A i \in Nodes :
             LET holders == CallersWith(t, i)
                 queued == i \in work /\ node[t][i].RpcSync = "async" IN
             /\ Cardinality(holders) <= 1
             /\ i \in free => holders = {} /\ i \notin work /\ ~ ServesAsync(t, i)
             /\ queued => holders = {} /\ ~ ServesAsync(t, i)
             /\ i \in free \/ queued \/ holders # {} \/ ServesAsync(t, i)
        /\ \A que \in {freeQue[t], workQue[t]} :
             /\ que.Tail = OS_RPC_INVALID_TRAIN <=> que.Head = OS_RPC_INVALID_TRAIN
             /\ que.Tail # OS_RPC_INVALID_TRAIN =>
                  que.Tail \in ListNodes(que, node[t]) /\ node[t][que.Tail].next = OS_RPC_INVALID_TRAIN

Uses(t, kind) == \E c \in Callers : <<t, kind>> \in Services[c]

\* A caller has a node from the list on.  The node of a synchronous call keeps that call until it
\* is given back, with its result as soon as it is done.
CallersAgree ==
    \A c \in Callers :
        LET s == caller[c]
            gone == CoreStatus[s.call.target] # "OS_RUN" IN
        /\ s.call.caller = c
        /\ s.pc \in {"idle", "test", "take"} <=> s.node = OS_RPC_INVALID_TRAIN
        /\ s.pc # "idle" => <<s.call.target, s.call.kind>> \in Services[c]
        /\ s.pc \in {"wait", "look", "give"} => s.call.kind = "sync"
        /\ s.pc = "look" => gone
        /\ s.pc \in {"remote", "wait", "look", "give"} /\ s.call.kind = "sync" =>
             /\ Held(c).call = s.call
             /\ Held(c).RetValue \in {E_NOT_OK, s.call}
             /\ Held(c).ProcState = "OS_RPC_DONE" => Held(c).RetValue = s.call
        /\ s.pc = "give" => \/ s.ret = s.call /\ Held(c).RetValue = s.call
                            \/ s.ret = E_OS_CORE /\ gone

\* The interrupt gives back nodes of asynchronous calls only.
ServersAgree ==
    \A t \in Cores :
        /\ server[t].pc \in {"idle", "get"} <=> server[t].node = OS_RPC_INVALID_TRAIN
        /\ server[t].pc = "give" => node[t][server[t].node].RpcSync = "async"
        /\ \A i \in Nodes : node[t][i].RpcSync = "async" => Uses(t, "async")

\* What a running core has to do are calls that were made to it, each of them once.
WorkAgrees ==
    \A t \in Running :
        LET todo == Unperformed(t) IN
        /\ \A i \in todo :
             LET n == node[t][i] s == caller[n.call.caller] IN
             /\ n.ProcState # "OS_RPC_DONE" /\ n.RetValue = E_NOT_OK
             /\ n.call \in Calls /\ n.call.target = t /\ n.call.kind = n.RpcSync
             /\ Uses(t, n.RpcSync)
             /\ n.call.number <= s.call.number
             /\ n.call.number = s.call.number => s.pc \notin {"test", "take", "submit"}
        /\ \A i, j \in todo : node[t][i].call = node[t][j].call => i = j
        /\ server[t].pc \in {"test", "give"} => Uses(t, node[t][server[t].node].RpcSync)

\* The pool of each running core is in order, and nodes, callers and cores agree on the calls.
RpcInvariant == TypeOK /\ OnePlace /\ CallersAgree /\ ServersAgree /\ WorkAgrees

\* The refinement: a call is accepted when its node is appended, performed when its action is done.
Submitted(c) == caller[c].pc \in {"remote", "wait", "look", "give"}

Phase(c) ==
    IF ~ InCall(c) THEN "idle"
    ELSE IF ~ Submitted(c) THEN "calling"
    ELSE IF caller[c].call.kind = "sync" /\ Held(c).RetValue = caller[c].call THEN "performed"
    ELSE "accepted"

Abstract == INSTANCE OsRpcSpec WITH
    phase <- [c \in Callers |-> Phase(c)],
    call <- [c \in Callers |-> caller[c].call],
    got <- [c \in Callers |-> IF InCall(c) THEN None ELSE caller[c].ret],
    open <- UNION {{node[t][i].call : i \in Unperformed(t)} : t \in Running},
    running <- Running

\* Seen from outside every call is performed at most once and a synchronous caller gets the
\* result of its own call, whatever the lists, the nodes and a core that stops do meanwhile.
ImplementsRemoteCall == Abstract!Spec

\* Every call returns, also when cores call each other, the pool is empty for a while, an
\* interrupt masks the inter-core interrupt during its own call, or the other core stops; and
\* the work is done, asynchronous calls included for which nobody waits.  Each caller makes
\* MaxCalls calls, so that this is said of the end: only callers on a core that stopped are left.
CallsEnd ==
    <>[] /\ \A c \in Callers : InCall(c) => CoreStatus[CoreOf[c]] # "OS_RUN"
         /\ Running = Cores => \A t \in Cores : WorkNodes(t) = {} /\ server[t].pc = "idle"
=============================================================================
