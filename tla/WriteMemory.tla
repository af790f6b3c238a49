----------------------------- MODULE WriteMemory -----------------------------
(***************************************************************************)
(* Periodic saving of a Thunder's configuration by the housekeeper.        *)
(*                                                                         *)
(* The load balancers of one device and partition have a vthunders row     *)
(* each.  A flow of the worker changes the device and at its end stores    *)
(* the time in its row (updated_at).  The housekeeper takes the rows with  *)
(* updated_at not before last_write_mem, looks whether the device has      *)
(* started since updated_at (what was not saved is lost: the load balancer *)
(* goes to ERROR), saves the configuration through one of them, and stores *)
(* the time of saving in all of them.                                      *)
(*                                                                         *)
(* Times have the resolution of the columns: several steps may see one     *)
(* value of the clock.                                                     *)
(***************************************************************************)
EXTENDS Naturals, FiniteSets

CONSTANTS
    LBs, Threads,
    MaxClock,    \* bound: the clock
    MaxChanges,  \* bound: the requests on a load balancer, each one change
    None

ASSUME BoundAssumption == MaxClock \in Nat \ {0} /\ MaxChanges \in Nat /\ None \notin LBs

VARIABLES
    hardware,   \* a hardware Thunder: no compute, no busy lock
    shared,     \* the load balancers are in the shared partition
    clock,
    lb,         \* provisioning_status
    row,        \* vthunders: status, updated_at and last_write_mem (0 is NULL)
    asked,      \* the number of requests on a load balancer
    running,    \* device: the changes in its running configuration
    saved,      \* device: the changes in its startup configuration
    started,    \* device: when it last started
    flow,       \* the worker's flow in each thread
    hk,         \* the housekeeper's thread
    due,        \* history: the changes of flows that stored their time
    crossed,    \* history: load balancers asked to change, or whose flow
                \* failed, between a read of the housekeeper and its write;
                \* and those of which one of two flows failed, or
                \* an update that a deletion went by
    slipped,    \* history: changes that a time of saving passed over
    masked      \* history: load balancers that lost changes where the check
                \* of the housekeeper cannot see it

device == <<running, saved, started>>
hist == <<due, crossed, slipped, masked>>
vars == <<hardware, shared, clock, lb, row, asked, device, flow, hk, hist>>

Times == 0..MaxClock
Changes == LBs \X (1..MaxChanges)
NoRow == [status |-> "NONE", updated |-> 0, written |-> 0]
Idle == [op |-> "none", lb |-> None, nr |-> 0, step |-> "idle"]

Rows == [status : {"NONE", "ACTIVE", "PENDING_DELETE", "DELETED"},
         updated : Times, written : Times]
Ops == {"create", "update", "delete"}
Flows == [op : Ops \cup {"none"}, lb : LBs \cup {None}, nr : 0..MaxChanges,
          step : {"idle", "row", "active", "change", "drop", "gone", "stamp", "reload"}]
Passes == [step : {"idle", "check", "uptime", "read", "mark",
                   "shared", "private", "stamp", "unmark"},
           rep : LBs \cup {None}, check : SUBSET LBs, snap : [LBs -> Times],
           deleted : BOOLEAN, held : SUBSET LBs, ok : BOOLEAN, skip : BOOLEAN]
Resting == [step |-> "idle", rep |-> None, check |-> {}, snap |-> [l \in LBs |-> 0],
            deleted |-> FALSE, held |-> {}, ok |-> TRUE, skip |-> FALSE]

(* Every variable keeps to its type: rows with times up to the clock, one  *)
(* flow a thread, one pass of the housekeeper.                             *)
TypeOK ==
    /\ hardware \in BOOLEAN /\ shared \in BOOLEAN /\ clock \in Times
    /\ lb \in [LBs -> {"NEW", "PENDING", "ACTIVE", "ERROR", "DELETED"}]
    /\ row \in [LBs -> Rows]
    /\ asked \in [LBs -> 0..MaxChanges]
    /\ running \subseteq Changes /\ saved \subseteq Changes /\ started \in Times
    /\ flow \in [Threads -> Flows]
    /\ hk \in Passes
    /\ due \subseteq Changes /\ slipped \subseteq Changes
    /\ crossed \subseteq LBs /\ masked \subseteq LBs

Init ==
    /\ hardware \in BOOLEAN /\ shared \in BOOLEAN
    /\ clock = 1
    /\ lb = [l \in LBs |-> "NEW"]
    /\ row = [l \in LBs |-> NoRow]
    /\ asked = [l \in LBs |-> 0]
    /\ running = {} /\ saved = {} /\ started = 0
    /\ flow = [t \in Threads |-> Idle]
    /\ hk = Resting
    /\ due = {} /\ crossed = {} /\ slipped = {} /\ masked = {}

-----------------------------------------------------------------------------
(* The worker.  On a vThunder, requests that create or delete run alone    *)
(* (BusyLock); the vThunder goes with its last load balancer, which is not *)
(* deleted here.  The creation of a load balancer ends before the next     *)
(* request on it begins.                                                   *)
Exclusive == {"create", "delete"}
MayBegin(op) ==
    \A t \in Threads : flow[t] # Idle =>
        hardware \/ (op \notin Exclusive /\ flow[t].op \notin Exclusive)

(* The housekeeper read the status of l and has yet to write it, or lets   *)
(* requests in before its last write.                                      *)
Crossing(l) == l \in hk.held /\ (hk.step \in {"uptime", "mark"} \/ ~hk.ok)

(* What the device lost of the changes of l.                               *)
Lost(l) == \E c \in due : c[1] = l /\ c \notin running \cup saved

Request(t, op, l, step) ==
    /\ flow[t] = Idle /\ MayBegin(op)
    /\ asked[l] < MaxChanges /\ asked' = [asked EXCEPT ![l] = @ + 1]
    /\ \A u \in Threads : flow[u].lb = l => flow[u].op # "create"
    /\ lb' = [lb EXCEPT ![l] = "PENDING"]
    /\ flow' = [flow EXCEPT ![t] = [op |-> op, lb |-> l, nr |-> asked[l] + 1, step |-> step]]
    /\ crossed' = IF Crossing(l) THEN crossed \cup {l} ELSE crossed
    /\ UNCHANGED <<hardware, shared, clock, row, device, hk, due, slipped, masked>>

CreateLb(t, l) == lb[l] = "NEW" /\ Request(t, "create", l, "row")
UpdateListener(t, l) == lb[l] = "ACTIVE" /\ Request(t, "update", l, "change")
DeleteLb(t, l) ==
    /\ lb[l] \in {"ACTIVE", "ERROR"} /\ row[l].status \in {"ACTIVE", "PENDING_DELETE"}
    /\ hardware \/ \E m \in LBs \ {l} : row[m].status = "ACTIVE"
    /\ Request(t, "delete", l, "row")

After(op, step) ==
    CASE step = "row" -> IF op = "create" THEN "active" ELSE "change"
      [] step = "active" -> IF op = "create" THEN "change" ELSE "stamp"
      [] step = "change" /\ op = "update" -> "active"
      [] step = "change" /\ op = "delete" -> "drop"
      [] step = "drop" -> "gone"
      [] OTHER -> "stamp"
At(t, step) == flow[t].step = step
Go(t) == flow' = [flow EXCEPT ![t].step = After(flow[t].op, flow[t].step)]

(* A row is written with its time.                                         *)
CreateVThunderEntry(t) ==
    /\ At(t, "row") /\ flow[t].op = "create"
    /\ row' = [row EXCEPT ![flow[t].lb] = [status |-> "ACTIVE", updated |-> clock, written |-> 0]]
    /\ Go(t)
    /\ UNCHANGED <<hardware, shared, clock, lb, asked, device, hk, hist>>

(* A row whose time is stored after a loss hides it: the device seems to   *)
(* have started before.                                                    *)
Hidden(l) == IF Lost(l) THEN masked \cup {l} ELSE masked

MarkVThunderStatus(t, status) ==
    LET l == flow[t].lb
    IN  /\ row' = [row EXCEPT ![l].status = status, ![l].updated = clock]
        /\ masked' = Hidden(l)
        /\ Go(t)
        /\ UNCHANGED <<hardware, shared, clock, lb, asked, device, hk, due, crossed, slipped>>
MarkPendingDelete(t) == At(t, "row") /\ flow[t].op = "delete" /\ MarkVThunderStatus(t, "PENDING_DELETE")
MarkVThunderDeleted(t) == At(t, "drop") /\ MarkVThunderStatus(t, "DELETED")

(* The configuration is saved, its time is not yet stored.                 *)
Saved == hk.ok /\ (hk.step = "stamp" \/ (hk.step = "private" /\ shared))

Change(t) == <<flow[t].lb, flow[t].nr>>
ChangeDevice(t) ==
    /\ At(t, "change")
    /\ running' = running \cup {Change(t)}
    /\ slipped' = IF Saved THEN slipped \cup {Change(t)} ELSE slipped
    /\ Go(t)
    /\ UNCHANGED <<hardware, shared, clock, lb, row, asked, saved, started, hk,
                   due, crossed, masked>>

MarkLB(t, step, status) ==
    /\ At(t, step)
    /\ lb' = [lb EXCEPT ![flow[t].lb] = status]
    /\ Go(t)
    /\ UNCHANGED <<hardware, shared, clock, row, asked, device, hk, hist>>
MarkLBActive(t) == MarkLB(t, "active", "ACTIVE")
MarkLBDeleted(t) == MarkLB(t, "gone", "DELETED")

(* The time of saving goes to all rows of the address and partition.       *)
Stamped(at) == [l \in LBs |-> IF row[l].status = "NONE" THEN row[l]
                               ELSE [row[l] EXCEPT !.written = at]]
(* Mutant: the time is rounded up.                                         *)
RoundLastWriteMem == row' = Stamped(clock + 1)
UpdateLastWriteMem == row' = Stamped(clock)

(* An interface was plugged or unplugged: the flow saves the configuration *)
(* and has the device started again.                                       *)
PostNetworkPlug(t) ==
    /\ <<flow[t].op, flow[t].step>> \in {<<"create", "active">>, <<"delete", "change">>}
    /\ ~hardware
    /\ saved' = running /\ UpdateLastWriteMem
    /\ masked' = masked \cup {l \in LBs : Lost(l)}
    /\ flow' = [flow EXCEPT ![t].step = "reload"]
    /\ UNCHANGED <<hardware, shared, clock, lb, asked, running, started, hk,
                   due, crossed, slipped>>
ReloadReboot(t) ==
    /\ At(t, "reload")
    /\ running' = saved /\ started' = clock
    /\ masked' = masked \cup {l \in LBs : \E c \in due : c[1] = l /\ c \notin saved}
    /\ flow' = [flow EXCEPT ![t].step = IF flow[t].op = "create" THEN "active" ELSE "change"]
    /\ UNCHANGED <<hardware, shared, clock, lb, row, asked, saved, hk, due, crossed, slipped>>

SetThunderUpdatedAt(t) ==
    LET l == flow[t].lb
    IN  /\ At(t, "stamp")
        /\ row' = [row EXCEPT ![l].updated = clock]
        /\ due' = due \cup {Change(t)}
        /\ masked' = IF Change(t) \notin running \cup saved THEN masked \cup {l} ELSE Hidden(l)
        /\ flow' = [flow EXCEPT ![t] = Idle]
        /\ UNCHANGED <<hardware, shared, clock, lb, asked, device, hk, crossed, slipped>>

(* The status that the first task of a flow gives the load balancer when   *)
(* the flow is reverted, whatever it was: ListenerToErrorOnRevertTask puts *)
(* only the listener in ERROR.                                             *)
RevertedStatus(op) == IF op = "update" THEN "ACTIVE" ELSE "ERROR"

(* A task raises: what was changed may stay on the device; the revert of   *)
(* CreateVThunderEntry deletes the row, the others leave it as it is.  An  *)
(* update may set ACTIVE what a deletion went by meanwhile (crossed), or   *)
(* what the housekeeper had found to have lost changes (masked).           *)
FailFlow(t) ==
    LET l == flow[t].lb
    IN  /\ flow[t] # Idle
        /\ lb' = [lb EXCEPT ![l] = RevertedStatus(flow[t].op)]
        /\ row' = IF flow[t].op = "create" THEN [row EXCEPT ![l] = NoRow] ELSE row
        /\ flow' = [flow EXCEPT ![t] = Idle]
        /\ crossed' = IF \/ l \in hk.held
                         \/ \E u \in Threads \ {t} : flow[u].lb = l
                         \/ flow[t].op = "update" /\ row[l].status # "ACTIVE"
                      THEN crossed \cup {l} ELSE crossed
        /\ masked' = IF flow[t].op = "update" /\ lb[l] = "ERROR" THEN masked \cup {l} ELSE masked
        /\ UNCHANGED <<hardware, shared, clock, asked, device, hk, due, slipped>>

-----------------------------------------------------------------------------
(* The device starts again, at any time: what was not saved is lost.       *)
Unsaved(l) == \E c \in due : c[1] = l /\ c \notin saved
Restart ==
    /\ started # clock \/ running # saved
    /\ running' = saved /\ started' = clock
    /\ masked' = masked \cup
        {l \in LBs : Unsaved(l) /\ (hk.step # "idle" \/ row[l].updated >= clock
                                    \/ \E c \in slipped : c[1] = l)}
    /\ UNCHANGED <<hardware, shared, clock, lb, row, asked, saved, flow, hk,
                   due, crossed, slipped>>

Tick ==
    /\ clock < MaxClock /\ clock' = clock + 1
    /\ UNCHANGED <<hardware, shared, lb, row, asked, device, flow, hk, hist>>

-----------------------------------------------------------------------------
(* The housekeeper.                                                        *)
(* Mutant: a change stored at the time of saving counts as saved.          *)
RecentStrictly(r) == r.status \in {"ACTIVE", "DELETED"} /\ (r.written = 0 \/ r.updated > r.written)
Recent(r) == r.status \in {"ACTIVE", "DELETED"} /\ (r.written = 0 \/ r.updated >= r.written)

(* One pass: every row that is not DELETED is checked, the configuration   *)
(* is saved through one of them.                                           *)
(* Mutant: rows that were never saved are not checked.                     *)
CheckedIfWritten == {l \in LBs : Recent(row[l]) /\ row[l].status # "DELETED" /\ row[l].written # 0}
Checked == {l \in LBs : Recent(row[l]) /\ row[l].status # "DELETED"}
PerformMemoryWrites(rep) ==
    /\ hk.step = "idle" /\ Recent(row[rep])
    /\ hk' = [Resting EXCEPT
                  !.step = "check", !.rep = rep, !.deleted = row[rep].status = "DELETED",
                  !.check = Checked,
                  !.snap = [l \in LBs |-> IF l \in Checked THEN row[l].updated ELSE 0]]
    /\ UNCHANGED <<hardware, shared, clock, lb, row, asked, device, flow, hist>>

Pass == UNCHANGED <<hardware, shared, clock, asked, started, flow, due, crossed>>
(* Mutant: load balancers of every status are taken.                       *)
AnyStatus(l) == {l}
Active(l) == IF lb[l] = "ACTIVE" THEN {l} ELSE {}

(* Only ACTIVE ones are checked; but the time of the save that follows is  *)
(* stored in the rows of the others too: a loss is not seen (masked) of    *)
(* one that is PENDING just now.                                           *)
CheckActive(l) ==
    /\ hk.step = "check" /\ l \in hk.check
    /\ hk' = IF lb[l] = "ACTIVE"
             THEN [hk EXCEPT !.check = @ \ {l}, !.held = {l}, !.step = "uptime"]
             ELSE [hk EXCEPT !.check = @ \ {l}, !.snap[l] = 0]
    /\ masked' = IF lb[l] = "PENDING" /\ Lost(l) THEN masked \cup {l} ELSE masked
    /\ Pass /\ UNCHANGED <<lb, row, running, saved, slipped>>

(* A device that does not answer is not checked in this pass.              *)
StatusCheck(answers) ==
    /\ hk.step = "uptime"
    /\ lb' = [l \in LBs |-> IF l \in hk.held /\ answers /\ started > hk.snap[l]
                            THEN "ERROR" ELSE lb[l]]
    /\ masked' = masked \cup {l \in hk.held : ~answers /\ Lost(l)}
    /\ hk' = [hk EXCEPT !.step = "check", !.held = {}, !.snap = [l \in LBs |-> IF l \in hk.check THEN @[l] ELSE 0]]
    /\ Pass /\ UNCHANGED <<row, running, saved, slipped>>

(* A compute whose rows are all DELETED but one counts as being deleted.   *)
DeleteCompute ==
    /\ ~hardware /\ hk.deleted
    /\ Cardinality({l \in LBs : row[l].status \notin {"NONE", "DELETED"}}) < 2

PerformWriteMemory ==
    /\ hk.step = "check" /\ hk.check = {}
    /\ hk' = [hk EXCEPT !.step = "read", !.skip = DeleteCompute]
    /\ Pass /\ UNCHANGED <<lb, row, running, saved, slipped, masked>>

GetActiveLoadBalancers ==
    /\ hk.step = "read"
    /\ hk' = [hk EXCEPT !.step = "mark", !.held = Active(hk.rep)]
    /\ Pass /\ UNCHANGED <<lb, row, running, saved, slipped, masked>>

MarkHeld(status) == lb' = [l \in LBs |-> IF l \in hk.held THEN status ELSE lb[l]]

MarkPendingUpdate ==
    /\ hk.step = "mark"
    /\ MarkHeld("PENDING")
    /\ hk' = [hk EXCEPT !.step = IF hk.skip THEN "stamp" ELSE "shared"]
    /\ Pass /\ UNCHANGED <<row, running, saved, slipped, masked>>

(* The shared partition is saved, then the one of the load balancer when   *)
(* it has its own.                                                         *)
NextWrite == IF hk.step = "shared" THEN "private" ELSE "stamp"
WriteMemory ==
    /\ hk.step \in {"shared", "private"}
    /\ saved' = IF shared = (hk.step = "shared") THEN running ELSE saved
    /\ hk' = [hk EXCEPT !.step = NextWrite]
    /\ Pass /\ UNCHANGED <<lb, row, running, slipped, masked>>

(* An error of the write itself: the load balancers are set ACTIVE and the *)
(* flow goes on.                                                           *)
WriteFails ==
    /\ hk.step \in {"shared", "private"}
    /\ MarkHeld("ACTIVE")
    /\ hk' = [hk EXCEPT !.step = NextWrite, !.ok = FALSE]
    /\ Pass /\ UNCHANGED <<row, running, saved, slipped, masked>>

(* The partition of the device cannot be entered: the flow ends, and no    *)
(* task of it has a revert.                                                *)
WriteAborts ==
    /\ hk.step \in {"shared", "private"}
    /\ hk' = Resting
    /\ Pass /\ UNCHANGED <<lb, row, running, saved, slipped, masked>>

SetThunderLastWriteMem ==
    /\ hk.step = "stamp"
    /\ IF hk.ok THEN UpdateLastWriteMem ELSE UNCHANGED row
    /\ slipped' = IF hk.skip THEN slipped \cup (running \ saved) ELSE slipped
    /\ hk' = [hk EXCEPT !.step = "unmark"]
    /\ Pass /\ UNCHANGED <<lb, running, saved, masked>>

MarkActive ==
    /\ hk.step = "unmark"
    /\ MarkHeld("ACTIVE")
    /\ hk' = Resting
    /\ Pass /\ UNCHANGED <<row, running, saved, slipped, masked>>

-----------------------------------------------------------------------------
Worker(t) ==
    \/ \E l \in LBs : CreateLb(t, l) \/ UpdateListener(t, l) \/ DeleteLb(t, l)
    \/ CreateVThunderEntry(t) \/ MarkPendingDelete(t) \/ PostNetworkPlug(t)
    \/ ReloadReboot(t) \/ ChangeDevice(t) \/ MarkLBActive(t)
    \/ MarkVThunderDeleted(t) \/ MarkLBDeleted(t) \/ SetThunderUpdatedAt(t) \/ FailFlow(t)

Housekeeper ==
    \/ \E l \in LBs : PerformMemoryWrites(l) \/ CheckActive(l)
    \/ \E answers \in BOOLEAN : StatusCheck(answers)
    \/ PerformWriteMemory \/ GetActiveLoadBalancers \/ MarkPendingUpdate
    \/ WriteMemory \/ WriteFails \/ WriteAborts \/ SetThunderLastWriteMem \/ MarkActive

Next == (\E t \in Threads : Worker(t)) \/ Restart \/ Tick \/ Housekeeper
Spec == Init /\ [][Next]_vars

-----------------------------------------------------------------------------
(* A change that runs on the device but is not saved is found by a later   *)
(* pass: its row was updated since the last save.  Passed over are changes *)
(* made between the save and its time, and those that are stamped without  *)
(* a save because the rows of the compute are nearly all DELETED; and the  *)
(* row of a deletion that failed is not looked at.                         *)
ChangeFound ==
    \A c \in (due \cap running) \ (saved \cup slipped) :
        c[1] \in crossed \/ Recent(row[c[1]]) \/ row[c[1]].status = "PENDING_DELETE"

(* A load balancer that lost changes is not ACTIVE for ever: its row was   *)
(* updated since the last save and before the device started, so that the  *)
(* next check sets it to ERROR; but for losses that no check can see       *)
(* (masked), such as that of a load balancer that was PENDING at its turn. *)
LossFound ==
    \A l \in LBs \ (masked \cup crossed) :
        (lb[l] = "ACTIVE" /\ Lost(l) /\ \A t \in Threads : flow[t].lb # l) =>
            Recent(row[l]) /\ row[l].status # "DELETED" /\ started > row[l].updated

(* A pass of the housekeeper leaves alone load balancers that a flow works *)
(* on, until the flow sets them ACTIVE, and those that are gone, unless    *)
(* they were asked for while the pass acted on what it had read.           *)
Owns(t, l) ==
    /\ flow[t].lb = l
    /\ <<flow[t].op, flow[t].step>> \notin {<<"create", "change">>} \cup (Ops \X {"stamp"})
HousekeeperSparesRequests ==
    [][\A l \in LBs \ crossed :
        (hk' # hk /\ (lb[l] = "DELETED" \/ \E t \in Threads : Owns(t, l)))
            => lb'[l] = lb[l]]_vars
=============================================================================
