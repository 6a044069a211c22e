------------------------------- MODULE Leases -------------------------------
(***************************************************************************)
(* File edit leases (kernel/agent.c 912-1060).  agent_global.leases is a   *)
(* small table under agent_global.lock; the inode lock is held over the    *)
(* whole of lease_begin, and both lease_begin and lease_commit read the    *)
(* clock before they take agent_global.lock, so that they may use a tick   *)
(* that is long past.  The owner of a lease is a process of one            *)
(* identity_generation; a new process is another member of Procs.          *)
(***************************************************************************)
EXTENDS Integers, FiniteSets

CONSTANTS
    Procs,          \* processes that may take leases
    Files,          \* inodes
    LeaseMax,       \* AGENT_LEASE_MAX
    Expiry,         \* AGENT_LEASE_EXPIRY_TICKS
    Expected,       \* values programs pass as expected_version
    MaxId,          \* bound of the model: leases granted
    MaxTick,        \* bound of the model: ticks while there is no lease
    Patched,        \* bound of the model: files that programs change
    MaxVersion      \* bound of the model: changes of each

ASSUME LeaseAssumption ==
    /\ 0 \notin Files /\ 0 \notin Procs
    /\ LeaseMax \in Nat \ {0}
    /\ Expiry \in Nat \ {0}
    /\ Expected \subseteq Nat
    /\ MaxId \in Nat /\ MaxTick \in Nat /\ MaxVersion \in Nat
    /\ Patched \subseteq Files

Slots == 1..LeaseMax

VARIABLES
    lease,          \* agent_global.leases
    nextId,         \* agent_global.next_lease_id
    ticks,
    reaping,        \* clockintr has not called agent_lease_reap_expired yet
    pc,             \* the call a process is in, "user" or "gone"
    arg,            \* its inode (lease_begin) or lease_id
    expected,       \* its expected_version (lease_commit)
    read,           \* the tick it has read
    ret,            \* what its last call returned
    version,        \* file versions (agentfs_inode_version)
    granted         \* the last lease_id granted for a file, a history variable

clockVars == <<ticks, reaping>>
callVars == <<pc, arg, expected, read, ret>>
tableVars == <<lease, nextId, granted>>
vars == <<clockVars, callVars, tableVars, version>>

\* A slot after memset.
Free == [id |-> 0, file |-> 0, owner |-> 0, expiry |-> 0]

Init ==
    /\ lease = [i \in Slots |-> Free]
    /\ nextId = 0
    /\ ticks = 0
    /\ reaping = FALSE
    /\ pc = [p \in Procs |-> "user"]
    /\ arg = [p \in Procs |-> 0]
    /\ expected = [p \in Procs |-> 0]
    /\ read = [p \in Procs |-> 0]
    /\ ret = [p \in Procs |-> "NONE"]
    /\ version = [f \in Files |-> 1]
    /\ granted = [f \in Files |-> 0]

Used(i) == lease[i].id # 0

\* The inode lock of f is held by a lease_begin.
Locked(f) == \E p \in Procs : pc[p] = "begin" /\ arg[p] = f

\* Mutant: a lease ends at its expiry tick only.
Unexpired_Exact(t) ==
    [i \in Slots |-> IF Used(i) /\ lease[i].expiry = t THEN Free ELSE lease[i]]

\* The table without the leases that have expired at tick t.
Unexpired(t) ==
    [i \in Slots |-> IF Used(i) /\ lease[i].expiry <= t THEN Free ELSE lease[i]]

\* Mutant: leases of the caller are not looked at.
Taken_Others(table, f, p) ==
    \E i \in Slots : table[i].id # 0 /\ table[i].file = f /\ table[i].owner # p

\* The inode has a lease already, whoever owns it.
Taken(table, f, p) == \E i \in Slots : table[i].id # 0 /\ table[i].file = f

NewLease(p) ==
    [id |-> nextId + 1, file |-> arg[p], owner |-> p,
     expiry |-> read[p] + Expiry]

\* The lease named by the caller, if it is the caller's.
Owns(p, i) == Used(i) /\ lease[i].id = arg[p] /\ lease[i].owner = p

-----------------------------------------------------------------------------

Call(p, name, a, e) ==
    /\ pc[p] = "user"
    /\ pc' = [pc EXCEPT ![p] = name]
    /\ arg' = [arg EXCEPT ![p] = a]
    /\ expected' = [expected EXCEPT ![p] = e]
    /\ read' = [read EXCEPT ![p] = IF name = "abort" THEN 0 ELSE ticks]
    /\ ret' = [ret EXCEPT ![p] = "NONE"]
    /\ UNCHANGED <<clockVars, tableVars, version>>

Return(p, r) ==
    /\ pc' = [pc EXCEPT ![p] = "user"]
    /\ arg' = [arg EXCEPT ![p] = 0]
    /\ expected' = [expected EXCEPT ![p] = 0]
    /\ read' = [read EXCEPT ![p] = 0]
    /\ ret' = [ret EXCEPT ![p] = r]
    /\ UNCHANGED <<clockVars, version>>

\* lease_begin: ilock, then the clock; lease_commit: the clock.
CallBegin(p, f) == ~Locked(f) /\ Call(p, "begin", f, 0)
CallCommit(p, id, e) == Call(p, "commit", id, e)
CallAbort(p, id) == Call(p, "abort", id, 0)

BeginGrant(p) ==
    LET left == Unexpired(read[p]) IN
    /\ pc[p] = "begin"
    /\ nextId < MaxId
    /\ ~Taken(left, arg[p], p)
    /\ \E i \in Slots :
         /\ left[i].id = 0
         /\ \A j \in 1..(i - 1) : left[j].id # 0
         /\ lease' = [left EXCEPT ![i] = NewLease(p)]
    /\ nextId' = nextId + 1
    /\ granted' = [granted EXCEPT ![arg[p]] = nextId + 1]
    /\ Return(p, "OK")

BeginFail(p) ==
    LET left == Unexpired(read[p]) IN
    /\ pc[p] = "begin"
    /\ lease' = left
    /\ \/ Taken(left, arg[p], p) /\ Return(p, "BUSY")
       \/ /\ ~Taken(left, arg[p], p)
          /\ \A i \in Slots : left[i].id # 0
          /\ Return(p, "NO_SPACE")
    /\ UNCHANGED <<nextId, granted>>

\* The expected version is not looked at.
Commit(p) ==
    /\ pc[p] = "commit"
    /\ UNCHANGED <<nextId, granted>>
    /\ \/ \E i \in Slots :
            /\ Owns(p, i) /\ lease[i].expiry > read[p]
            /\ lease' = [lease EXCEPT ![i] = Free]
            /\ Return(p, "OK")
       \/ /\ \E i \in Slots : Owns(p, i) /\ lease[i].expiry <= read[p]
          /\ Return(p, "BAD_PARAM")
          /\ UNCHANGED lease
       \/ /\ \A i \in Slots : ~Owns(p, i)
          /\ Return(p, "PERMISSION")
          /\ UNCHANGED lease

Abort(p) ==
    /\ pc[p] = "abort"
    /\ UNCHANGED <<nextId, granted>>
    /\ \/ \E i \in Slots :
            /\ Owns(p, i)
            /\ lease' = [lease EXCEPT ![i] = Free]
            /\ Return(p, "OK")
       \/ /\ \A i \in Slots : ~Owns(p, i)
          /\ Return(p, "PERMISSION")
          /\ UNCHANGED lease

\* exit, then agent_proc_exit calls agent_lease_reap_pid.
Exit(p) ==
    /\ pc[p] = "user"
    /\ pc' = [pc EXCEPT ![p] = "exit"]
    /\ UNCHANGED <<arg, expected, read, ret, clockVars, tableVars, version>>

ReapPid(p) ==
    /\ pc[p] = "exit"
    /\ lease' = [i \in Slots |-> IF lease[i].owner = p THEN Free ELSE lease[i]]
    /\ pc' = [pc EXCEPT ![p] = "gone"]
    /\ UNCHANGED <<arg, expected, read, ret, clockVars, nextId, granted, version>>

\* patch_file, which asks for no lease, changes the file.
Patch(p, f) ==
    /\ pc[p] = "user" /\ ~Locked(f)
    /\ f \in Patched
    /\ version[f] < MaxVersion
    /\ version' = [version EXCEPT ![f] = @ + 1]
    /\ UNCHANGED <<clockVars, callVars, tableVars>>

\* clockintr, and the part of agent_tick that ends leases.
Tick ==
    /\ ~reaping
    /\ \/ ticks < MaxTick
       \/ (\E i \in Slots : Used(i)) /\ ticks < MaxTick + MaxId * Expiry
    /\ ticks' = ticks + 1
    /\ reaping' = TRUE
    /\ UNCHANGED <<callVars, tableVars, version>>

ReapExpired ==
    /\ reaping
    /\ lease' = Unexpired(ticks)
    /\ reaping' = FALSE
    /\ UNCHANGED <<ticks, callVars, nextId, granted, version>>

-----------------------------------------------------------------------------

Next ==
    \/ \E p \in Procs :
         \/ \E f \in Files : CallBegin(p, f) \/ Patch(p, f)
         \/ \E id \in 1..MaxId :
              CallAbort(p, id) \/ \E e \in Expected : CallCommit(p, id, e)
         \/ BeginGrant(p) \/ BeginFail(p) \/ Commit(p) \/ Abort(p)
         \/ Exit(p) \/ ReapPid(p)
    \/ Tick \/ ReapExpired

Spec == Init /\ [][Next]_vars

\* The timer interrupts CPU 0 for ever.
FairSpec == Spec /\ WF_vars(Tick) /\ WF_vars(ReapExpired)

-----------------------------------------------------------------------------

\* What a used slot holds.
Held == [id : Nat \ {0}, file : Files, owner : Procs, expiry : Nat]

\* Types; a used slot has a lease_id other than 0 and an owner.
TypeOK ==
    /\ lease \in [Slots -> {Free} \cup Held]
    /\ nextId \in Nat
    /\ ticks \in Nat
    /\ reaping \in BOOLEAN
    /\ pc \in [Procs -> {"user", "begin", "commit", "abort", "exit", "gone"}]
    /\ arg \in [Procs -> Nat \cup Files]
    /\ expected \in [Procs -> Nat]
    /\ read \in [Procs -> Nat]
    /\ ret \in [Procs -> {"NONE", "OK", "BUSY", "NO_SPACE", "PERMISSION",
                          "BAD_PARAM"}]
    /\ version \in [Files -> Nat]
    /\ granted \in [Files -> Nat]

\* A lease that can still be committed is the last one granted for its file:
\* no other agent has been given the file since, however late the owner comes
\* and whatever tick lease_begin had read.
HolderIsLast == \A i \in Slots : Used(i) => granted[lease[i].file] = lease[i].id

\* A file has at most one lease.
OneLease ==
    \A i, j \in Slots :
        Used(i) /\ Used(j) /\ lease[i].file = lease[j].file => i = j

\* A lease ends when its time is over, or by its owner's own call or exit:
\* lease_commit and lease_abort of anyone else fail.
OwnerEnds ==
    [][\A i \in Slots :
         Used(i) /\ lease'[i] # lease[i] =>
           \/ lease[i].expiry <= ticks
           \/ /\ pc[lease[i].owner] \in {"commit", "abort", "exit"}
              /\ pc'[lease[i].owner] # pc[lease[i].owner]]_vars

\* What these rest on: the tick a caller has read is not ahead, lease_begin
\* has found an inode.
CallInv ==
    \A p \in Procs : read[p] <= ticks /\ (pc[p] = "begin" => arg[p] \in Files)

\* Every lease ends, so that no file stays BUSY for ever: agent_tick drops
\* also those that were granted with a tick long past.
LeasesEnd ==
    \A id \in 1..MaxId :
        (\E i \in Slots : lease[i].id = id) ~> (\A i \in Slots : lease[i].id # id)
=============================================================================
