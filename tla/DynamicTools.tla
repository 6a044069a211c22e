---------------------------- MODULE DynamicTools ----------------------------
(***************************************************************************)
(* Dynamic tools (kernel/agent_tool.c 57-106, 827-899, 1017-1104 and       *)
(* 1147-1163): services register tools, callers put a request into one of  *)
(* a few slots and sleep until the service has answered it, services take  *)
(* the requests out and answer by request id.                              *)
(*                                                                         *)
(* A step is a region under agent_runtime_lock.  Callers and services      *)
(* sleep on the one channel dynamic_requests.  Going to sleep is cut in    *)
(* two, because kill() needs only p->lock: a process that has looked at    *)
(* its killed flag is "falling", with the runtime lock, until sleep() has  *)
(* p->lock.  A process has one pid, and its group does not change.         *)
(* agent_next_request_id wraps after 2^31 - 1 calls; the model ends before *)
(* (MaxId).                                                                *)
(***************************************************************************)
EXTENDS Integers, FiniteSets

CONSTANTS
    Procs,          \* agents
    NoProc,         \* pid 0
    Names,          \* names of dynamic tools
    NoName,         \* the empty name
    ToolMax,        \* AGENT_DYNAMIC_TOOL_MAX
    RequestMax,     \* AGENT_DYNAMIC_REQUEST_MAX
    Services,       \* processes with AGENT_CAP_REGISTER_TOOL
    Clients,        \* bound of the model: processes that call tools
    ProcGroup,      \* p->agent_group, 0 for none
    Copyouts,       \* outcomes of the copyout of a request: TRUE, FALSE
    MaxId           \* bound of the model: requests

ASSUME ToolsAssumption ==
    /\ NoProc \notin Procs
    /\ NoName \notin Names
    /\ ToolMax \in Nat
    /\ RequestMax \in Nat
    /\ Services \subseteq Procs
    /\ Clients \subseteq Procs
    /\ ProcGroup \in [Procs -> Nat]
    /\ Copyouts \subseteq BOOLEAN
    /\ MaxId \in Nat

VARIABLES
    tools,          \* dynamic_tools
    slots,          \* dynamic_requests
    nextId,         \* agent_next_request_id
    pc,             \* where the process is
    wait,           \* awake, falling asleep or asleep on dynamic_requests
    slotOf,         \* the slot a caller waits for, slot in the call
    reqOf,          \* its request_id
    got,            \* requests a service has in its memory
    killed          \* processes with p->killed

callVars == <<slotOf, reqOf>>
toolsVars == <<tools, slots, nextId, pc, wait, callVars, got, killed>>

Ids == 1..MaxId
ToolIndex == 1..ToolMax
SlotIndex == 1..RequestMax

NoTool == [name |-> NoName, owner |-> NoProc, group |-> 0, public |-> FALSE]
Tool == [name: Names, owner: Procs, group: Nat, public: BOOLEAN]

\* A slot after memset.
Empty == [used |-> FALSE, delivered |-> FALSE, replied |-> FALSE, id |-> 0,
          caller |-> NoProc, service |-> NoProc, status |-> "ok", result |-> 0]
Request == [used: {TRUE}, delivered: BOOLEAN, replied: BOOLEAN, id: Ids,
            caller: Procs, service: Procs, status: {"ok", "gone"},
            result: Ids \union {0}]

ToolsTypeOK ==
    /\ tools \in [ToolIndex -> Tool \union {NoTool}]
    /\ slots \in [SlotIndex -> Request \union {Empty}]
    /\ nextId \in 1..(MaxId + 1)
    /\ pc \in [Procs -> {"user", "call", "recv", "gone"}]
    /\ wait \in [Procs -> {"awake", "falling", "asleep"}]
    /\ slotOf \in [Procs -> SlotIndex \union {0}]
    /\ reqOf \in [Procs -> Ids \union {0}]
    /\ got \in [Procs -> SUBSET Ids]
    /\ killed \subseteq Procs

ToolsInit ==
    /\ tools = [t \in ToolIndex |-> NoTool]
    /\ slots = [i \in SlotIndex |-> Empty]
    /\ nextId = 1
    /\ pc = [p \in Procs |-> "user"]
    /\ wait = [p \in Procs |-> "awake"]
    /\ slotOf = [p \in Procs |-> 0]
    /\ reqOf = [p \in Procs |-> 0]
    /\ got = [p \in Procs |-> {}]
    /\ killed = {}

-----------------------------------------------------------------------------
\* The runtime lock is free between the steps, but for who falls asleep.
Unlocked == \A p \in Procs : wait[p] # "falling"

Lowest(i, S) == i \in S /\ \A j \in S : i <= j

\* Mutant: only the callers are woken.
Woken_Callers(p) ==
    [q \in Procs |-> IF q # p /\ wait[q] = "asleep" /\ pc[q] = "call"
                     THEN "awake" ELSE wait[q]]

\* wakeup(dynamic_requests) by p.
Woken(p) ==
    [q \in Procs |-> IF q # p /\ wait[q] = "asleep" THEN "awake" ELSE wait[q]]

InUser(p) == pc[p] = "user"

-----------------------------------------------------------------------------
(* Tools.                                                                   *)

\* agent_tool_register; refused when the name is taken or the table full.
Register(p, n, public) ==
    /\ InUser(p) /\ p \in Services
    /\ Unlocked
    /\ \A t \in ToolIndex : tools[t].name # n
    /\ \E t \in ToolIndex :
          /\ Lowest(t, {u \in ToolIndex : tools[u] = NoTool})
          /\ tools' = [tools EXCEPT ![t] =
                         [name |-> n, owner |-> p, group |-> ProcGroup[p],
                          public |-> public]]
    /\ UNCHANGED <<slots, nextId, pc, wait, callVars, got, killed>>

\* agent_same_group_or_public.
Allowed(p, tool) ==
    \/ tool.public
    \/ ProcGroup[p] # 0 /\ ProcGroup[p] = tool.group

-----------------------------------------------------------------------------
(* agent_dynamic_tool_call.                                                 *)

\* Mutant: a caller that gives up leaves its slot behind.
Freed_Answered(i) ==
    IF slots[i].replied THEN [slots EXCEPT ![i] = Empty] ELSE slots

Freed(i) == [slots EXCEPT ![i] = Empty]

NewRequest(p, service) ==
    [used |-> TRUE, delivered |-> FALSE, replied |-> FALSE, id |-> nextId,
     caller |-> p, service |-> service, status |-> "ok", result |-> 0]

\* A request enters a slot and the service is woken; the first turn of the
\* loop ends at once when the caller is killed already.
Call(p, n) ==
    /\ InUser(p) /\ p \in Clients
    /\ Unlocked
    /\ nextId \in Ids
    /\ \E t \in ToolIndex, i \in SlotIndex :
          /\ tools[t].name = n
          /\ Allowed(p, tools[t])
          /\ Lowest(i, {j \in SlotIndex : ~slots[j].used})
          /\ wait' = [Woken(p) EXCEPT ![p] =
                        IF p \in killed THEN "awake" ELSE "falling"]
          /\ IF p \in killed
             THEN UNCHANGED <<slots, pc, callVars>>
             ELSE /\ slots' = [slots EXCEPT ![i] =
                                 NewRequest(p, tools[t].owner)]
                  /\ pc' = [pc EXCEPT ![p] = "call"]
                  /\ slotOf' = [slotOf EXCEPT ![p] = i]
                  /\ reqOf' = [reqOf EXCEPT ![p] = nextId]
    /\ nextId' = nextId + 1
    /\ UNCHANGED <<tools, got, killed>>

Answered(p) == slots[slotOf[p]].replied

\* Mutant: a killed caller waits for its answer.
GivesUp_Never(p) == FALSE

GivesUp(p) == p \in killed

Lost(p) ==
    LET slot == slots[slotOf[p]] IN slot.id # reqOf[p] \/ ~slot.used

\* One turn of the loop by a caller that is awake.
CallTurn(p) ==
    /\ pc[p] = "call" /\ wait[p] = "awake"
    /\ Unlocked
    /\ IF Answered(p) \/ GivesUp(p)
       THEN /\ slots' = Freed(slotOf[p])
            /\ wait' = Woken(p)
       ELSE /\ wait' = IF Lost(p) THEN wait
                       ELSE [wait EXCEPT ![p] = "falling"]
            /\ UNCHANGED slots
    /\ IF Answered(p) \/ GivesUp(p) \/ Lost(p)
       THEN /\ pc' = [pc EXCEPT ![p] = "user"]
            /\ slotOf' = [slotOf EXCEPT ![p] = 0]
            /\ reqOf' = [reqOf EXCEPT ![p] = 0]
       ELSE UNCHANGED <<pc, callVars>>
    /\ UNCHANGED <<tools, nextId, got, killed>>

\* sleep(): with p->lock the runtime lock is given up.
FallAsleep(p) ==
    /\ wait[p] = "falling"
    /\ wait' = [wait EXCEPT ![p] = "asleep"]
    /\ UNCHANGED <<tools, slots, nextId, pc, callVars, got, killed>>

-----------------------------------------------------------------------------
(* agent_tool_recv.                                                         *)

RecvEnter(p) ==
    /\ InUser(p) /\ p \in Services
    /\ pc' = [pc EXCEPT ![p] = "recv"]
    /\ UNCHANGED <<tools, slots, nextId, wait, callVars, got, killed>>

\* Slots with a request for service p that it has not got yet.
Undelivered(p) ==
    {i \in SlotIndex : /\ slots[i].used
                       /\ ~slots[i].delivered
                       /\ slots[i].service = p}

Delivered(slot) ==
    [used |-> slot.used, delivered |-> TRUE, replied |-> slot.replied,
     id |-> slot.id, caller |-> slot.caller, service |-> slot.service,
     status |-> slot.status, result |-> slot.result]

\* One turn of its loop.  A request is delivered also when its copyout to
\* the service then fails.
RecvTurn(p) ==
    /\ pc[p] = "recv" /\ wait[p] = "awake"
    /\ Unlocked
    /\ \/ \E i \in SlotIndex, ok \in Copyouts :
             /\ Lowest(i, Undelivered(p))
             /\ slots' = [slots EXCEPT ![i] = Delivered(@)]
             /\ got' = IF ok THEN [got EXCEPT ![p] = @ \union {slots[i].id}]
                       ELSE got
             /\ pc' = [pc EXCEPT ![p] = "user"]
             /\ UNCHANGED wait
       \/ /\ Undelivered(p) = {} /\ p \in killed
          /\ pc' = [pc EXCEPT ![p] = "user"]
          /\ UNCHANGED <<slots, wait, got>>
       \/ /\ Undelivered(p) = {} /\ p \notin killed
          /\ wait' = [wait EXCEPT ![p] = "falling"]
          /\ UNCHANGED <<slots, pc, got>>
    /\ UNCHANGED <<tools, nextId, callVars, killed>>

-----------------------------------------------------------------------------
(* agent_tool_reply.                                                        *)

\* Mutant: any request of the service that has been delivered.
Awaiting_AnyOf(p, id) ==
    {i \in SlotIndex : /\ slots[i].used /\ slots[i].delivered
                       /\ slots[i].service = p}

Awaiting(p, id) ==
    {i \in SlotIndex : /\ slots[i].used
                       /\ slots[i].id = id
                       /\ slots[i].service = p}

WithAnswer(slot, status, result) ==
    [used |-> slot.used, delivered |-> slot.delivered, replied |-> TRUE,
     id |-> slot.id, caller |-> slot.caller, service |-> slot.service,
     status |-> status, result |-> result]

\* The service answers a request it has got; the request may have been given
\* up, or been answered before.
Reply(p, id) ==
    /\ InUser(p) /\ id \in got[p]
    /\ Unlocked
    /\ \E i \in SlotIndex :
          /\ Lowest(i, Awaiting(p, id))
          /\ slots' = [slots EXCEPT ![i] = WithAnswer(@, "ok", id)]
    /\ wait' = Woken(p)
    /\ UNCHANGED <<tools, nextId, pc, callVars, got, killed>>

-----------------------------------------------------------------------------
(* Exit and kill.                                                           *)

\* Mutant: only requests that were delivered are answered.
Orphan_Delivered(slot, p) ==
    slot.used /\ slot.service = p /\ ~slot.replied /\ slot.delivered

Orphan(slot, p) == slot.used /\ slot.service = p /\ ~slot.replied

\* agent_proc_exit: the tools of p go, its own requests go, and the requests
\* to it that have no answer get SERVICE_GONE.
Exit(p) ==
    /\ InUser(p)
    /\ Unlocked
    /\ tools' = [t \in ToolIndex |->
                   IF tools[t].owner = p THEN NoTool ELSE tools[t]]
    /\ slots' = [i \in SlotIndex |->
                   IF slots[i].used /\ slots[i].caller = p THEN Empty
                   ELSE IF Orphan(slots[i], p)
                   THEN WithAnswer(slots[i], "gone", slots[i].result)
                   ELSE slots[i]]
    /\ wait' = Woken(p)
    /\ pc' = [pc EXCEPT ![p] = "gone"]
    /\ got' = [got EXCEPT ![p] = {}]
    /\ UNCHANGED <<nextId, callVars, killed>>

\* kill() and the cascade: the flag, and a wakeup if the process sleeps.  A
\* process that is falling asleep is not woken and has looked at its flag.
Kill(p) ==
    /\ pc[p] # "gone"
    /\ p \notin killed
    /\ killed' = killed \union {p}
    /\ wait' = IF wait[p] = "asleep" THEN [wait EXCEPT ![p] = "awake"]
               ELSE wait
    /\ UNCHANGED <<tools, slots, nextId, pc, callVars, got>>

-----------------------------------------------------------------------------
ToolsNext ==
    \E p \in Procs :
        \/ \E n \in Names, public \in BOOLEAN : Register(p, n, public)
        \/ \E n \in Names : Call(p, n)
        \/ CallTurn(p)
        \/ FallAsleep(p)
        \/ RecvEnter(p)
        \/ RecvTurn(p)
        \/ \E id \in Ids : Reply(p, id)
        \/ Exit(p)
        \/ Kill(p)

ToolsSpec == ToolsInit /\ [][ToolsNext]_toolsVars

\* A process inside the kernel goes on; the runtime lock, which others take
\* in turn, is got in the end by who tries again and again.
Fairness ==
    \A p \in Procs : /\ WF_toolsVars(FallAsleep(p))
                     /\ SF_toolsVars(CallTurn(p))
                     /\ SF_toolsVars(RecvTurn(p))

FairToolsSpec == ToolsSpec /\ Fairness

-----------------------------------------------------------------------------
(* Properties.                                                              *)

Calling(p) == pc[p] = "call"

\* A caller's slot stays its own, with its request, until it takes the answer
\* (the test "tool request lost" of the loop never succeeds), and a call
\* without an answer has a service that still lives: agent_proc_exit forgets
\* no request, delivered or not.
CallersKeepSlots ==
    \A p \in Procs : Calling(p) =>
        /\ slotOf[p] \in SlotIndex
        /\ LET slot == slots[slotOf[p]]
           IN  /\ slot.used
               /\ slot.caller = p
               /\ slot.id = reqOf[p]
               /\ slot.replied \/ pc[slot.service] # "gone"

\* Nobody sleeps on dynamic_requests through what it waits for: a sleeping
\* caller has no answer yet, a sleeping service no request.
NoMissedWakeup ==
    \A p \in Procs : wait[p] = "asleep" =>
        /\ Calling(p) => ~Answered(p)
        /\ pc[p] = "recv" => Undelivered(p) = {}

\* No slot is leaked: every slot in use has a caller that waits for it.
SlotsHaveCallers ==
    \A i \in SlotIndex : slots[i].used =>
        \E p \in Procs : Calling(p) /\ slotOf[p] = i

\* An answered call returns, and so does the call of a killed process that
\* has been woken: by the kill, or, when that came between the test of the
\* flag and the sleep, by any later wakeup of the channel.
CallReturns ==
    \A p \in Procs :
        (Calling(p) /\ (Answered(p) \/ (p \in killed /\ wait[p] = "awake")))
            ~> ~Calling(p)

-----------------------------------------------------------------------------
(* What a caller sees, in the words of ToolCalls: its request is looked up  *)
(* by the caller's own slot, an answer is one for the id it asked with.     *)

NobodysCall == [service |-> NoProc, answer |-> "none"]

CallOf(p) ==
    IF ~Calling(p) THEN NobodysCall
    ELSE LET slot == slots[slotOf[p]]
         IN  [service |-> slot.service,
              answer |-> IF ~slot.replied THEN "none"
                         ELSE IF slot.status = "gone" THEN "gone"
                         ELSE IF slot.result = reqOf[p] THEN "reply"
                         ELSE "of another call"]

Promise == INSTANCE ToolCalls
               WITH NoCall <- NobodysCall,
                    call <- [p \in Procs |-> CallOf(p)],
                    gone <- {p \in Procs : pc[p] = "gone"}

\* Every call is answered by its own service, or with SERVICE_GONE when that
\* has exited, with the answer meant for it.
Promised == Promise!Spec
=============================================================================
