----------------------- MODULE WithdrawBridgeProofs -----------------------
(***************************************************************************)
(* The withdraw pipeline never pays a request twice, never forgets one, and*)
(* loses of one no more than faults of the game server account for: for    *)
(* every number of accounts and requests, every limit and every number of  *)
(* failed calls and crashes.                                               *)
(***************************************************************************)
EXTENDS WithdrawBridge, TLAPS

-----------------------------------------------------------------------------
(* Type correctness.                                                       *)

\* The script counts each currency of a row at most once.
DrainedCount ==
  /\ gpc \in {"zeny", "zenyCredit"} => drained = 0
  /\ gpc \in {"points", "pointsCredit"} => drained <= 1

TypeInv == TypeOK /\ DrainedCount

LEMMA ZeroIsAmount == Zero \in Amount
BY DEF Zero, Amount

LEMMA InitTypeInv == Init => TypeInv
BY BoundsAssumption, ZeroIsAmount
DEF Init, TypeInv, TypeOK, DrainedCount, NoRows, Amount, WorkerPcs, PollerPcs

\* What the worker reads, or nothing.
LEMMA ReadIntoStep ==
  ASSUME TypeInv, NEW pc \in WorkerPcs, NEW S \in SUBSET Ids, NEW f \in [Ids -> Amount],
         NEW out, ReadInto(pc, [i \in S |-> f[i]], out)
  PROVE  TypeInv'
<1> DEFINE read == [i \in S |-> f[i]]
<1>1. DOMAIN read \subseteq Ids /\ read \in [DOMAIN read -> Amount]
  OBVIOUS
<1>2. DOMAIN NoRows \subseteq Ids /\ NoRows \in [DOMAIN NoRows -> Amount]
  BY DEF NoRows
<1>3. /\ todo' \in {read, NoRows} /\ wpc' = pc /\ faults' \in {faults, faults + 1}
      /\ UNCHANGED <<clock, panelVars, requestVars, queueVars, gameVars, historyVars>>
  BY DEF ReadInto, CountFault
<1> HIDE DEF read
<1>4. DOMAIN todo' \subseteq Ids /\ todo' \in [DOMAIN todo' -> Amount]
  BY <1>1, <1>2, <1>3
<1> QED
  BY <1>3, <1>4
  DEF TypeInv, TypeOK, DrainedCount, panelVars, requestVars, queueVars, gameVars, historyVars

LEMMA TypeInvStep ==
  ASSUME TypeInv, [Next]_vars
  PROVE  TypeInv'
<1> USE BoundsAssumption, ZeroIsAmount
<1> USE DEF TypeInv, TypeOK, DrainedCount, panelVars, requestVars, queueVars,
        workerVars, gameVars, historyVars
<1>1. CASE \E a \in Accounts, amt \in Requests, i \in Ids : RequestWithdraw(a, amt, i)
  BY <1>1 DEF Requests, RequestWithdraw, Affordable, Cur, Amount
<1>2. CASE Tick
  BY <1>2 DEF Tick
<1>3. CASE \E out \in Outcome : PendingWithdraws(out)
  <2>1. FirstOf(PendingIds, Batch, ById) \in SUBSET Ids
    BY DEF FirstOf, PendingIds
  <2>2. amount \in [Ids -> Amount] /\ "insert" \in WorkerPcs
    BY DEF WorkerPcs
  <2>3. PICK out \in Outcome :
          ReadInto("insert", [i \in FirstOf(PendingIds, Batch, ById) |-> amount[i]], out)
    BY <1>3 DEF PendingWithdraws
  <2> HIDE DEF TypeInv, TypeOK, DrainedCount
  <2> QED
    BY <2>1, <2>2, <2>3, ReadIntoStep
<1>4. CASE \E out \in Outcome, i \in DOMAIN todo : EnqueueInsert(i, out)
  BY <1>4 DEF EnqueueInsert, CountFault, Inserted, Without, WorkerPcs
<1>5. CASE \E out \in Outcome, i \in DOMAIN todo : MarkWithdrawSent(i, out)
  BY <1>5 DEF MarkWithdrawSent, CountFault, Without, WorkerPcs
<1>6. CASE \E out \in Outcome : Delivered(out)
  <2>1. FirstOf(stamped, Batch, ById) \in SUBSET Ids
    BY DEF FirstOf
  <2>2. rowAmt \in [Ids -> Amount] /\ "confirm" \in WorkerPcs
    BY DEF WorkerPcs
  <2>3. PICK out \in Outcome :
          ReadInto("confirm", [i \in FirstOf(stamped, Batch, ById) |-> rowAmt[i]], out)
    BY <1>6 DEF Delivered
  <2> HIDE DEF TypeInv, TypeOK, DrainedCount
  <2> QED
    BY <2>1, <2>2, <2>3, ReadIntoStep
<1>7. CASE \E out \in Outcome, i \in DOMAIN todo : ResetDelivered(i, out)
  BY <1>7 DEF ResetDelivered, CountFault, Without
<1>8. CASE \E out \in Outcome, i \in DOMAIN todo : MarkWithdrawDelivered(i, out)
  BY <1>8 DEF MarkWithdrawDelivered, CountFault, Without, WorkerPcs
<1>9. CASE \E out \in Outcome, i \in DOMAIN todo : Delete(i, out)
  BY <1>9 DEF Delete, CountFault, Without, WorkerPcs
<1>10. CASE \E out \in Outcome : SentBefore(out)
  <2>1. FirstOf(StaleIds, Batch, BySent) \in SUBSET Ids
    BY DEF FirstOf, StaleIds
  <2>2. amount \in [Ids -> Amount] /\ "reap" \in WorkerPcs
    BY DEF WorkerPcs
  <2>3. PICK out \in Outcome :
          ReadInto("reap", [i \in FirstOf(StaleIds, Batch, BySent) |-> amount[i]], out)
    BY <1>10 DEF SentBefore
  <2> HIDE DEF TypeInv, TypeOK, DrainedCount
  <2> QED
    BY <2>1, <2>2, <2>3, ReadIntoStep
<1>11. CASE \E out \in Outcome, i \in DOMAIN todo : ReapInsert(i, out)
  BY <1>11 DEF ReapInsert, CountFault, Inserted, Without, WorkerPcs
<1>12. CASE DrainDone
  BY <1>12 DEF DrainDone, WorkerPcs
<1>13. CASE WorkerCrash
  <2>1. DOMAIN todo' \subseteq Ids /\ todo' \in [DOMAIN todo' -> Amount]
    BY <1>13 DEF WorkerCrash, NoRows
  <2>2. /\ wpc' = "idle" /\ faults' \in Nat
        /\ UNCHANGED <<clock, panelVars, requestVars, queueVars, gameVars, historyVars>>
    BY <1>13 DEF WorkerCrash, CountFault
  <2> QED
    BY <2>1, <2>2 DEF WorkerPcs
<1>14. CASE Poll
  BY <1>14 DEF Poll, FirstOf, PollerPcs
<1>15. CASE \E i \in DOMAIN batch : StampDelivered(i)
  BY <1>15 DEF StampDelivered, NextRowOrSleep, Without, PollerPcs
<1>16. CASE \E i \in DOMAIN batch, c \in Cur : SkipCurrency(i, c)
  BY <1>16 DEF SkipCurrency, AfterPc, Cur, PollerPcs
<1>17. CASE \E i \in DOMAIN batch, c \in Cur : DrainCurrency(i, c)
  BY <1>17 DEF DrainCurrency, CreditPc, Cur, Amount, PollerPcs
<1>18. CASE \E i \in DOMAIN batch, c \in Cur : CreditCurrency(i, c)
  BY <1>18 DEF CreditCurrency, CreditPc, AfterPc, Cur, Amount, PollerPcs
<1>19. CASE \E i \in DOMAIN batch : StampSlips(i)
  BY <1>19 DEF StampSlips, GameFault, NextRowOrSleep, Without, PollerPcs
<1>20. CASE \E i \in DOMAIN batch : GameCrash(i)
  <2>1. PICK i \in DOMAIN batch : GameCrash(i)
    BY <1>20
  <2> DEFINE rest == [c \in Cur |-> lost[i][c] + IF gpc = CreditPc(c) THEN batch[i][c] ELSE 0]
  <2>2. rest \in Amount
    BY DEF Amount
  <2>3. lost' = [lost EXCEPT ![i] = rest]
    BY <2>1 DEF GameCrash
  <2> HIDE DEF rest
  <2>4. lost' \in [Ids -> Amount]
    BY <2>2, <2>3
  <2>5. /\ gpc' = "idle" /\ batch' = NoRows /\ drained' = 0 /\ gameFaults' = gameFaults + 1
        /\ UNCHANGED <<clock, panelVars, requestVars, queueVars, workerVars, credited, slipped>>
    BY <2>1 DEF GameCrash, GameFault
  <2>6. DOMAIN batch' \subseteq Ids /\ batch' \in [DOMAIN batch' -> Amount]
    BY <2>5 DEF NoRows
  <2>7. gpc' \in PollerPcs /\ drained' \in 0..2 /\ gameFaults' \in Nat
    BY <2>5 DEF PollerPcs
  <2>8. TypeOK'
    BY <2>4, <2>5, <2>6, <2>7
  <2> QED
    BY <2>5, <2>8
<1>21. CASE \E i \in DOMAIN batch, c \in Cur : AttachRefused(i, c)
  BY <1>21 DEF AttachRefused, GameFault, AfterPc, Cur, PollerPcs
<1>22. CASE \E i \in DOMAIN batch, c \in Cur : DrainSlips(i, c)
  BY <1>22 DEF DrainSlips, GameFault, CreditPc, Cur, Amount, PollerPcs
<1>23. CASE \E i \in DOMAIN batch, c \in Cur : CreditSlips(i, c)
  BY <1>23 DEF CreditSlips, GameFault, CreditPc, AfterPc, Cur, Amount, PollerPcs
<1>24. CASE UNCHANGED vars
  BY <1>24 DEF vars
<1> QED
  BY <1>1, <1>2, <1>3, <1>4, <1>5, <1>6, <1>7, <1>8, <1>9, <1>10, <1>11, <1>12,
     <1>13, <1>14, <1>15, <1>16, <1>17, <1>18, <1>19, <1>20, <1>21, <1>22, <1>23,
     <1>24
  DEF Next, Worker, Poller, GameFaults

\* Type correctness of the withdraw pipeline; in particular no balance is ever
\* overdrawn by a request.
THEOREM TypeCorrect == Spec => []TypeOK
<1>1. Init => TypeInv
  BY InitTypeInv
<1>2. TypeInv /\ [Next]_vars => TypeInv'
  BY TypeInvStep
<1>3. TypeInv => TypeOK
  BY DEF TypeInv
<1> QED
  BY <1>1, <1>2, <1>3, PTL DEF Spec

-----------------------------------------------------------------------------
(* The inductive invariant.                                                *)

Current(i) == IsNext(i, batch, ById)

\* Taken off the row by the script (or meant to be), not yet credited.
InFlight(i, c) == IF gpc = CreditPc(c) /\ Current(i) THEN batch[i][c] ELSE 0

\* The script has not come to currency c of row i of its batch.
Untouched(i, c) ==
  \/ ~Current(i)
  \/ gpc = c
  \/ c = "points" /\ gpc \in {"zeny", "zenyCredit"}

\* A row holds exactly what of its request is not on its way to the account.
Balanced ==
  \A i \in rows, c \in Cur :
    rowAmt[i][c] + InFlight(i, c) + credited[i][c] + lost[i][c] = amount[i][c] + slipped[i][c]

\* So does what was delivered, whose row may be gone.
DeliveredBalanced ==
  \A i \in Ids : status[i] = 3 =>
    \A c \in Cur : credited[i][c] + lost[i][c] = amount[i][c] + slipped[i][c]

\* A request that never had a row has nothing to show for it.
Fresh ==
  \A i \in Ids : i \notin rows /\ status[i] < 3 =>
    \A c \in Cur : credited[i][c] = 0 /\ lost[i][c] = 0 /\ slipped[i][c] = 0

RowHasRequest == \A i \in rows : status[i] > 0

\* The row of a delivered request is empty and out of the script's reach.
SettledRow ==
  \A i \in rows : status[i] = 3 => i \in stamped /\ rowAmt[i] = Zero

\* The lists the worker holds have not become stale.
EnqueueList ==
  wpc \in {"insert", "sent"} =>
    \A i \in DOMAIN todo :
      /\ status[i] = 1 /\ todo[i] = amount[i]
      /\ wpc = "sent" /\ IsNext(i, todo, ById) => i \in rows
ConfirmList ==
  wpc \in {"confirm", "delete"} =>
    \A i \in DOMAIN todo :
      /\ i \in stamped /\ todo[i] = rowAmt[i]
      /\ wpc = "delete" /\ IsNext(i, todo, ById) => status[i] = 3
ReapList ==
  wpc = "reap" => \A i \in DOMAIN todo : status[i] = 2

\* Nor has the batch of the script.
PollerList ==
  /\ \A i \in DOMAIN batch :
       /\ i \in rows \ stamped
       /\ \A c \in Cur : Untouched(i, c) => batch[i][c] = rowAmt[i][c]
  /\ gpc = "idle" => DOMAIN batch = {}

\* Neither a row nor a list ever holds more than was asked for, so that a
\* fault of the game loses or repeats at most that.
RowsBound == \A i \in rows, c \in Cur : rowAmt[i][c] <= amount[i][c]
ListsBound ==
  /\ \A i \in DOMAIN batch, c \in Cur : batch[i][c] <= amount[i][c]
  /\ wpc = "reap" => \A i \in DOMAIN todo : todo[i] = amount[i]
LossBound ==
  \A i \in Ids, c \in Cur : lost[i][c] + slipped[i][c] <= gameFaults * amount[i][c]

Ledger == Balanced /\ Fresh /\ RowHasRequest /\ DeliveredBalanced /\ SettledRow /\ SentHasRow
WorkerLists == EnqueueList /\ ConfirmList /\ ReapList
IndInv == Ledger /\ WorkerLists /\ PollerList
FaultInv == RowsBound /\ ListsBound /\ LossBound

-----------------------------------------------------------------------------
(* What a step leaves alone.                                               *)

LEMMA LedgerFrame ==
  ASSUME Ledger, UNCHANGED <<status, amount, queueVars, historyVars, gpc, batch>>
  PROVE  Ledger'
BY DEF Ledger, Balanced, Fresh, RowHasRequest, DeliveredBalanced, SettledRow, SentHasRow,
       InFlight, Current, IsNext, queueVars, historyVars

LEMMA WorkerFrame ==
  ASSUME WorkerLists, UNCHANGED <<status, amount, queueVars, wpc, todo>>
  PROVE  WorkerLists'
BY DEF WorkerLists, EnqueueList, ConfirmList, ReapList, IsNext, queueVars

LEMMA PollerFrame ==
  ASSUME PollerList, UNCHANGED <<queueVars, gpc, batch>>
  PROVE  PollerList'
BY DEF PollerList, Untouched, Current, IsNext, queueVars

\* A loop is at one row at a time.
LEMMA NextUnique ==
  ASSUME NEW read, DOMAIN read \subseteq Ids,
         NEW i, NEW j, IsNext(i, read, ById), IsNext(j, read, ById)
  PROVE  i = j
BY BoundsAssumption DEF IsNext, ById, Ids

-----------------------------------------------------------------------------
(* The worker.                                                             *)

LEMMA RequestStep ==
  ASSUME TypeInv, IndInv, NEW a \in Accounts, NEW amt \in Requests, NEW n \in Ids,
         RequestWithdraw(a, amt, n)
  PROVE  IndInv'
<1> USE DEF IndInv, TypeInv, TypeOK
<1>1. /\ status[n] = 0
      /\ status' = [status EXCEPT ![n] = 1] /\ amount' = [amount EXCEPT ![n] = amt]
      /\ UNCHANGED <<queueVars, historyVars, gpc, batch, wpc, todo>>
  BY DEF RequestWithdraw, workerVars, gameVars
<1>2. n \notin rows
  BY <1>1 DEF Ledger, RowHasRequest
<1>3. n \notin DOMAIN todo \/ wpc = "idle"
  BY <1>1, <1>2 DEF WorkerLists, EnqueueList, ConfirmList, ReapList, WorkerPcs
<1>4. Ledger'
  <2>1. Balanced'
    BY <1>1, <1>2 DEF Ledger, Balanced, InFlight, Current, IsNext, queueVars, historyVars
  <2>2. Fresh' /\ RowHasRequest' /\ DeliveredBalanced' /\ SettledRow' /\ SentHasRow'
    BY <1>1, <1>2 DEF Ledger, Fresh, RowHasRequest, DeliveredBalanced, SettledRow, SentHasRow,
                      queueVars, historyVars
  <2> QED
    BY <2>1, <2>2 DEF Ledger
<1>5. WorkerLists'
  BY <1>1, <1>3 DEF WorkerLists, EnqueueList, ConfirmList, ReapList, IsNext, queueVars
<1>6. PollerList'
  BY <1>1, PollerFrame
<1> QED
  BY <1>4, <1>5, <1>6

\* The three reads: the rows read are what the lists say they are.
LEMMA ReadStep ==
  ASSUME TypeInv, IndInv, NEW out \in Outcome,
         PendingWithdraws(out) \/ Delivered(out) \/ SentBefore(out)
  PROVE  IndInv'
<1> USE DEF IndInv, TypeInv, TypeOK
<1>1. UNCHANGED <<status, amount, queueVars, historyVars, gpc, batch>>
  BY DEF PendingWithdraws, Delivered, SentBefore, ReadInto, requestVars, gameVars
<1>2. WorkerLists'
  <2>1. CASE todo' = NoRows
    BY <2>1 DEF WorkerLists, EnqueueList, ConfirmList, ReapList, NoRows
  <2>2. CASE PendingWithdraws(out) /\ out = "ok"
    BY <1>1, <2>2 DEF WorkerLists, EnqueueList, ConfirmList, ReapList, PendingWithdraws, ReadInto,
                      PendingIds, FirstOf
  <2>3. CASE Delivered(out) /\ out = "ok"
    BY <1>1, <2>3 DEF WorkerLists, EnqueueList, ConfirmList, ReapList, Delivered, ReadInto,
                      FirstOf, queueVars
  <2>4. CASE SentBefore(out) /\ out = "ok"
    BY <1>1, <2>4 DEF WorkerLists, EnqueueList, ConfirmList, ReapList, SentBefore, ReadInto,
                      StaleIds, FirstOf
  <2> QED
    BY <2>1, <2>2, <2>3, <2>4 DEF PendingWithdraws, Delivered, SentBefore, ReadInto
<1> QED
  BY <1>1, <1>2, LedgerFrame, PollerFrame

\* A new row holds its request's amount, of which nothing was credited.
LEMMA InsertStep ==
  ASSUME TypeInv, IndInv, NEW n \in DOMAIN todo, NEW out \in Outcome, EnqueueInsert(n, out)
  PROVE  IndInv'
<1> USE DEF IndInv, TypeInv, TypeOK
<1>1. /\ wpc = "insert" /\ IsNext(n, todo, ById)
      /\ UNCHANGED <<status, amount, historyVars, gpc, batch>>
      /\ wpc' \in {"insert", "sent"}
      /\ wpc' = "sent" => todo' = todo
      /\ todo' = todo \/ todo' = Without(todo, n)
  BY DEF EnqueueInsert, InsertDone, requestVars, gameVars
<1>2. status[n] = 1 /\ todo[n] = amount[n] /\ n \in Ids
  BY <1>1 DEF WorkerLists, EnqueueList
<1>3. wpc' = "sent" => n \in rows'
  BY DEF EnqueueInsert, InsertDone, TookEffect, Inserted
<1>4. rows \subseteq rows'
  BY DEF EnqueueInsert, Inserted, queueVars
<1>5. WorkerLists'
  <2>1. ASSUME NEW j \in DOMAIN todo' PROVE j \in DOMAIN todo /\ todo'[j] = todo[j]
    BY <1>1, <2>1 DEF Without
  <2>2. ASSUME wpc' = "sent", NEW j \in DOMAIN todo', IsNext(j, todo', ById)
        PROVE  j = n
    BY <1>1, <2>2, NextUnique
  <2> QED
    BY <1>1, <1>3, <2>1, <2>2 DEF WorkerLists, EnqueueList, ConfirmList, ReapList
<1>6. CASE UNCHANGED queueVars
  BY <1>1, <1>5, <1>6, LedgerFrame, PollerFrame
<1>7. CASE /\ n \notin rows
           /\ rows' = rows \cup {n} /\ stamped' = stamped
           /\ rowAmt' = [rowAmt EXCEPT ![n] = amount[n]]
  <2>1. n \notin DOMAIN batch /\ ~Current(n)
    BY <1>7 DEF PollerList, Current, IsNext
  <2>2. \A j \in Ids, c \in Cur : InFlight(j, c)' = InFlight(j, c)
    BY <1>1 DEF InFlight, Current, IsNext
  <2>3. \A c \in Cur : credited[n][c] = 0 /\ lost[n][c] = 0 /\ slipped[n][c] = 0
    BY <1>2, <1>7 DEF Ledger, Fresh
  <2>4. Balanced'
    <3>1. ASSUME NEW j \in rows', NEW c \in Cur
          PROVE  (rowAmt[j][c] + InFlight(j, c) + credited[j][c] + lost[j][c]
                   = amount[j][c] + slipped[j][c])'
      <4>1. CASE j = n
        <5>1. InFlight(n, c) = 0
          BY <2>1 DEF InFlight
        <5>2. amount[n][c] \in Nat
          BY <1>2 DEF Amount
        <5> QED
          BY <1>1, <1>2, <1>7, <2>2, <2>3, <4>1, <5>1, <5>2 DEF historyVars
      <4>2. CASE j # n
        BY <1>1, <1>2, <1>7, <2>2, <4>2 DEF Ledger, Balanced, historyVars
      <4> QED
        BY <4>1, <4>2
    <3> QED
      BY <3>1 DEF Balanced
  <2>5. Fresh' /\ RowHasRequest' /\ DeliveredBalanced' /\ SettledRow' /\ SentHasRow'
    BY <1>1, <1>2, <1>7 DEF Ledger, Fresh, RowHasRequest, DeliveredBalanced, SettledRow, SentHasRow,
                            historyVars
  <2>6. PollerList'
    BY <1>1, <1>2, <1>7, <2>1 DEF PollerList, Untouched, Current, IsNext
  <2> QED
    BY <1>5, <2>4, <2>5, <2>6 DEF Ledger
<1> QED
  BY <1>2, <1>6, <1>7 DEF EnqueueInsert, Inserted, queueVars

LEMMA SentStep ==
  ASSUME TypeInv, IndInv, NEW n \in DOMAIN todo, NEW out \in Outcome, MarkWithdrawSent(n, out)
  PROVE  IndInv'
<1> USE DEF IndInv, TypeInv, TypeOK
<1>1. /\ wpc = "sent" /\ IsNext(n, todo, ById)
      /\ UNCHANGED <<amount, queueVars, historyVars, gpc, batch>>
      /\ wpc' = "insert" /\ todo' = Without(todo, n)
      /\ status' = status \/ status' = [status EXCEPT ![n] = 2]
  BY DEF MarkWithdrawSent, gameVars
<1>2. status[n] = 1 /\ n \in rows /\ n \in Ids
  BY <1>1 DEF WorkerLists, EnqueueList
<1>3. Ledger'
  <2>1. Balanced'
    BY <1>1 DEF Ledger, Balanced, InFlight, Current, IsNext, queueVars, historyVars
  <2>2. Fresh' /\ RowHasRequest' /\ DeliveredBalanced' /\ SettledRow' /\ SentHasRow'
    BY <1>1, <1>2 DEF Ledger, Fresh, RowHasRequest, DeliveredBalanced, SettledRow, SentHasRow,
                      queueVars, historyVars
  <2> QED
    BY <2>1, <2>2 DEF Ledger
<1>4. WorkerLists'
  BY <1>1 DEF Without, WorkerLists, EnqueueList, ConfirmList, ReapList
<1> QED
  BY <1>1, <1>3, <1>4, PollerFrame

LEMMA ResetStep ==
  ASSUME TypeInv, IndInv, NEW n \in DOMAIN todo, NEW out \in Outcome, ResetDelivered(n, out)
  PROVE  IndInv'
<1> USE DEF IndInv, TypeInv, TypeOK
<1>1. /\ wpc = "confirm" /\ todo[n] # Zero
      /\ UNCHANGED <<status, amount, rows, rowAmt, historyVars, wpc, gpc, batch>>
      /\ todo' = Without(todo, n)
      /\ stamped' = stamped \/ stamped' = stamped \ {n}
  BY DEF ResetDelivered, Drained, requestVars, gameVars
<1>2. n \in stamped /\ rowAmt[n] # Zero
  BY <1>1 DEF WorkerLists, ConfirmList
<1>3. Ledger'
  <2>1. Balanced'
    BY <1>1 DEF Ledger, Balanced, InFlight, Current, IsNext, historyVars
  <2>2. Fresh' /\ RowHasRequest' /\ DeliveredBalanced' /\ SettledRow' /\ SentHasRow'
    BY <1>1, <1>2 DEF Ledger, Fresh, RowHasRequest, DeliveredBalanced, SettledRow, SentHasRow,
                      historyVars
  <2> QED
    BY <2>1, <2>2 DEF Ledger
<1>4. WorkerLists'
  BY <1>1 DEF Without, WorkerLists, EnqueueList, ConfirmList, ReapList
<1>5. PollerList'
  BY <1>1 DEF PollerList, Untouched, Current, IsNext
<1> QED
  BY <1>3, <1>4, <1>5

\* An empty, stamped row that the script is not working on: its request has
\* been credited or lost in full.
LEMMA DeliveredStep ==
  ASSUME TypeInv, IndInv, NEW n \in DOMAIN todo, NEW out \in Outcome,
         MarkWithdrawDelivered(n, out)
  PROVE  IndInv'
<1> USE DEF IndInv, TypeInv, TypeOK
<1>1. /\ wpc = "confirm" /\ todo[n] = Zero /\ IsNext(n, todo, ById)
      /\ UNCHANGED <<amount, queueVars, historyVars, gpc, batch>>
      /\ status' = status \/ status' = [status EXCEPT ![n] = 3]
      /\ \/ wpc' = "delete" /\ todo' = todo /\ status'[n] = 3
         \/ wpc' = "confirm" /\ todo' = Without(todo, n)
  BY DEF MarkWithdrawDelivered, Drained, Confirmed, TookEffect, gameVars
<1>2. n \in stamped /\ rowAmt[n] = Zero /\ n \in Ids /\ n \in rows
  BY <1>1 DEF WorkerLists, ConfirmList
<1>3. \A c \in Cur : credited[n][c] + lost[n][c] = amount[n][c] + slipped[n][c]
  <2>1. \A c \in Cur : InFlight(n, c) = 0
    BY <1>2 DEF InFlight, Current, IsNext, PollerList
  <2>2. \A c \in Cur : rowAmt[n][c] = 0
    BY <1>2 DEF Zero
  <2>3. \A c \in Cur : credited[n][c] \in Nat /\ lost[n][c] \in Nat
    BY <1>2 DEF Amount
  <2> QED
    BY <1>2, <2>1, <2>2, <2>3 DEF Ledger, Balanced
<1>4. Ledger'
  <2>1. Balanced'
    BY <1>1 DEF Ledger, Balanced, InFlight, Current, IsNext, queueVars, historyVars
  <2>2. DeliveredBalanced'
    BY <1>1, <1>2, <1>3 DEF Ledger, DeliveredBalanced, historyVars
  <2>3. Fresh' /\ RowHasRequest' /\ SettledRow' /\ SentHasRow'
    BY <1>1, <1>2 DEF Ledger, Fresh, RowHasRequest, SettledRow, SentHasRow, queueVars, historyVars
  <2> QED
    BY <2>1, <2>2, <2>3 DEF Ledger
<1>5. WorkerLists'
  <2>1. CASE wpc' = "delete"
    BY <1>1, <2>1, NextUnique DEF WorkerLists, EnqueueList, ConfirmList, ReapList, queueVars
  <2>2. CASE wpc' = "confirm"
    BY <1>1, <2>2 DEF Without, WorkerLists, EnqueueList, ConfirmList, ReapList, queueVars
  <2> QED
    BY <1>1, <2>1, <2>2
<1> QED
  BY <1>1, <1>4, <1>5, PollerFrame

LEMMA DeleteStep ==
  ASSUME TypeInv, IndInv, NEW n \in DOMAIN todo, NEW out \in Outcome, Delete(n, out)
  PROVE  IndInv'
<1> USE DEF IndInv, TypeInv, TypeOK
<1>1. /\ wpc = "delete" /\ IsNext(n, todo, ById)
      /\ UNCHANGED <<status, amount, historyVars, gpc, batch>>
      /\ wpc' = "confirm" /\ todo' = Without(todo, n)
      /\ \/ UNCHANGED queueVars
         \/ /\ rows' = rows \ {n} /\ stamped' = stamped \ {n}
            /\ rowAmt' = [rowAmt EXCEPT ![n] = Zero]
  BY DEF Delete, requestVars, gameVars
<1>2. n \in stamped /\ status[n] = 3 /\ n \in Ids
  BY <1>1 DEF WorkerLists, ConfirmList
<1>3. WorkerLists'
  BY <1>1, <1>2 DEF Without, WorkerLists, EnqueueList, ConfirmList, ReapList, queueVars
<1>4. CASE UNCHANGED queueVars
  BY <1>1, <1>3, <1>4, LedgerFrame, PollerFrame
<1>5. CASE /\ rows' = rows \ {n} /\ stamped' = stamped \ {n}
           /\ rowAmt' = [rowAmt EXCEPT ![n] = Zero]
  <2>1. Balanced'
    BY <1>1, <1>2, <1>5 DEF Ledger, Balanced, InFlight, Current, IsNext, historyVars
  <2>2. Fresh' /\ RowHasRequest' /\ DeliveredBalanced' /\ SettledRow' /\ SentHasRow'
    BY <1>1, <1>2, <1>5 DEF Ledger, Fresh, RowHasRequest, DeliveredBalanced, SettledRow, SentHasRow,
                            historyVars
  <2>3. PollerList'
    BY <1>1, <1>2, <1>5 DEF PollerList, Untouched, Current, IsNext
  <2> QED
    BY <1>3, <2>1, <2>2, <2>3 DEF Ledger
<1> QED
  BY <1>1, <1>4, <1>5

\* A stale request is re-inserted over its row, which changes nothing.
LEMMA ReapStep ==
  ASSUME TypeInv, IndInv, NEW n \in DOMAIN todo, NEW out \in Outcome, ReapInsert(n, out)
  PROVE  IndInv'
<1> USE DEF IndInv, TypeInv, TypeOK
<1>1. n \in rows
  BY DEF ReapInsert, WorkerLists, ReapList, Ledger, SentHasRow
<1>2. UNCHANGED <<status, amount, queueVars, historyVars, gpc, batch>>
  BY <1>1 DEF ReapInsert, Inserted, requestVars, queueVars, gameVars
<1>3. WorkerLists'
  BY <1>2 DEF ReapInsert, Without, WorkerLists, EnqueueList, ConfirmList, ReapList
<1> QED
  BY <1>2, <1>3, LedgerFrame, PollerFrame

LEMMA WorkerRestStep ==
  ASSUME TypeInv, IndInv, DrainDone \/ WorkerCrash
  PROVE  IndInv'
<1> USE DEF IndInv, TypeInv, TypeOK
<1>1. wpc' = "idle" /\ UNCHANGED <<status, amount, queueVars, historyVars, gpc, batch>>
  BY DEF DrainDone, WorkerCrash, requestVars, gameVars
<1>2. WorkerLists'
  BY <1>1 DEF WorkerLists, EnqueueList, ConfirmList, ReapList
<1> QED
  BY <1>1, <1>2, LedgerFrame, PollerFrame

-----------------------------------------------------------------------------
(* The script.                                                             *)

\* The worker's lists are about rows the script is not working on.
LEMMA ScriptKeepsLists ==
  ASSUME TypeInv, IndInv, UNCHANGED <<status, amount, wpc, todo, rows>>,
         \A j \in rows \ DOMAIN batch : rowAmt'[j] = rowAmt[j],
         stamped \subseteq stamped'
  PROVE  WorkerLists'
<1>1. \A j \in stamped : j \in rows \ DOMAIN batch
  BY DEF TypeInv, TypeOK, IndInv, PollerList
<1> QED
  BY <1>1 DEF IndInv, WorkerLists, EnqueueList, ConfirmList, ReapList, IsNext

\* Only the current row is in flight.
LEMMA OthersNotInFlight ==
  ASSUME TypeInv, NEW n, IsNext(n, batch, ById), NEW j, NEW c, j # n
  PROVE  InFlight(j, c) = 0
<1>1. ~IsNext(j, batch, ById)
  BY NextUnique DEF TypeInv, TypeOK
<1> QED
  BY <1>1 DEF InFlight, Current

\* The rest of the ledger only speaks of requests without a row, of delivered
\* requests, and of rows the script is not working on.
LEMMA ScriptKeepsRest ==
  ASSUME TypeInv, IndInv, NEW n \in DOMAIN batch,
         UNCHANGED <<status, amount, rows>>,
         \A j \in Ids \ {n} : /\ rowAmt'[j] = rowAmt[j] /\ credited'[j] = credited[j]
                              /\ lost'[j] = lost[j] /\ slipped'[j] = slipped[j],
         stamped \subseteq stamped'
  PROVE  Fresh' /\ RowHasRequest' /\ DeliveredBalanced' /\ SettledRow' /\ SentHasRow'
<1>1. n \in rows /\ n \notin stamped /\ n \in Ids
  BY DEF IndInv, PollerList, TypeInv, TypeOK
<1>2. status[n] # 3
  BY <1>1 DEF IndInv, Ledger, SettledRow
<1> QED
  BY <1>1, <1>2 DEF IndInv, Ledger, Fresh, RowHasRequest, DeliveredBalanced, SettledRow, SentHasRow,
                    TypeInv, TypeOK

\* Between two rows, or with nothing in flight, nothing changes hands.
LEMMA PollStep ==
  ASSUME TypeInv, IndInv, Poll
  PROVE  IndInv'
<1> USE DEF IndInv, TypeInv, TypeOK
<1>1. /\ gpc = "idle" /\ gpc' = "zeny"
      /\ UNCHANGED <<status, amount, queueVars, historyVars, wpc, todo>>
      /\ batch' = [i \in FirstOf(rows \ stamped, PollMax, ById) |-> rowAmt[i]]
  BY DEF Poll, requestVars, workerVars
<1>2. \A j, c : InFlight(j, c) = 0 /\ InFlight(j, c)' = 0
  BY <1>1 DEF InFlight, CreditPc
<1>3. Balanced'
  BY <1>1, <1>2 DEF Ledger, Balanced, queueVars, historyVars
<1>4. Fresh' /\ RowHasRequest' /\ DeliveredBalanced' /\ SettledRow' /\ SentHasRow'
  BY <1>1 DEF Ledger, Fresh, RowHasRequest, DeliveredBalanced, SettledRow, SentHasRow,
              queueVars, historyVars
<1>5. PollerList'
  BY <1>1 DEF PollerList, FirstOf, queueVars
<1> QED
  BY <1>1, <1>3, <1>4, <1>5, WorkerFrame DEF Ledger

LEMMA PassStep ==
  ASSUME TypeInv, IndInv, NEW n \in DOMAIN batch, NEW c \in Cur,
         SkipCurrency(n, c) \/ AttachRefused(n, c)
  PROVE  IndInv'
<1> USE DEF IndInv, TypeInv, TypeOK
<1>1. /\ gpc = c /\ gpc' = AfterPc(c) /\ IsNext(n, batch, ById)
      /\ UNCHANGED <<status, amount, queueVars, historyVars, wpc, todo, batch>>
  BY DEF SkipCurrency, AttachRefused, requestVars, workerVars
<1>2. \A j, d : InFlight(j, d) = 0 /\ InFlight(j, d)' = 0
  BY <1>1 DEF InFlight, CreditPc, AfterPc, Cur
<1>3. Balanced'
  BY <1>1, <1>2 DEF Ledger, Balanced, queueVars, historyVars
<1>4. Fresh' /\ RowHasRequest' /\ DeliveredBalanced' /\ SettledRow' /\ SentHasRow'
  BY <1>1 DEF Ledger, Fresh, RowHasRequest, DeliveredBalanced, SettledRow, SentHasRow,
              queueVars, historyVars
<1>5. PollerList'
  BY <1>1 DEF PollerList, Untouched, Current, IsNext, AfterPc, Cur, queueVars
<1> QED
  BY <1>1, <1>3, <1>4, <1>5, WorkerFrame DEF Ledger

\* The script takes the amount off the row, or fails to: either way the
\* amount is in flight now.
LEMMA DrainStep ==
  ASSUME TypeInv, TypeInv', IndInv, NEW n \in DOMAIN batch, NEW c \in Cur,
         DrainCurrency(n, c) \/ DrainSlips(n, c)
  PROVE  IndInv'
<1> USE DEF IndInv, TypeInv, TypeOK
<1>1. /\ gpc = c /\ gpc' = CreditPc(c) /\ IsNext(n, batch, ById) /\ n \in Ids /\ n \in rows
      /\ UNCHANGED <<status, amount, rows, stamped, wpc, todo, batch, credited, lost>>
      /\ batch[n][c] = rowAmt[n][c]
      /\ \/ rowAmt' = [rowAmt EXCEPT ![n][c] = 0] /\ slipped' = slipped
         \/ rowAmt' = rowAmt /\ slipped' = [slipped EXCEPT ![n][c] = @ + batch[n][c]]
  BY DEF DrainCurrency, DrainSlips, PollerList, Untouched, requestVars, queueVars, workerVars,
         historyVars
<1>2. \A j \in Ids \ {n} : rowAmt'[j] = rowAmt[j] /\ slipped'[j] = slipped[j]
  BY <1>1
<1>3. \A d \in Cur \ {c} : rowAmt'[n][d] = rowAmt[n][d] /\ slipped'[n][d] = slipped[n][d]
  BY <1>1 DEF Amount
<1>4. Balanced'
  <2>1. ASSUME NEW j \in rows, NEW d \in Cur
        PROVE  rowAmt'[j][d] + InFlight(j, d)' + credited'[j][d] + lost'[j][d]
                 = amount'[j][d] + slipped'[j][d]
    <3>1. rowAmt[j][d] + InFlight(j, d) + credited[j][d] + lost[j][d] = amount[j][d] + slipped[j][d]
      BY DEF Ledger, Balanced
    <3>2. InFlight(j, d) = 0
      BY <1>1 DEF InFlight, CreditPc, Cur
    <3>3. CASE j # n
      <4>1. InFlight(j, d)' = 0
        BY <1>1, <3>3, NextUnique DEF InFlight, Current, IsNext
      <4> QED
        BY <1>1, <1>2, <3>1, <3>2, <3>3, <4>1
    <3>4. CASE j = n /\ d # c
      <4>1. InFlight(j, d)' = 0
        BY <1>1, <3>4 DEF InFlight, CreditPc, Cur
      <4> QED
        BY <1>1, <1>3, <3>1, <3>2, <3>4, <4>1
    <3>5. CASE j = n /\ d = c
      <4>1. InFlight(j, d)' = batch[n][c]
        BY <1>1, <3>5 DEF InFlight, Current, IsNext
      <4>2. /\ rowAmt[n][c] \in Nat /\ credited[n][c] \in Nat /\ lost[n][c] \in Nat
            /\ amount[n][c] \in Nat /\ slipped[n][c] \in Nat
        BY <1>1 DEF Amount
      <4>3. \/ rowAmt'[n][c] = 0 /\ slipped'[n][c] = slipped[n][c]
            \/ rowAmt'[n][c] = rowAmt[n][c] /\ slipped'[n][c] = slipped[n][c] + batch[n][c]
        BY <1>1 DEF Amount
      <4> QED
        BY <1>1, <3>1, <3>2, <3>5, <4>1, <4>2, <4>3
    <3> QED
      BY <3>3, <3>4, <3>5
  <2> QED
    BY <1>1, <2>1 DEF Balanced
<1>5. Fresh' /\ RowHasRequest' /\ DeliveredBalanced' /\ SettledRow' /\ SentHasRow'
  BY <1>1, <1>2, ScriptKeepsRest
<1>6. PollerList'
  <2>1. ASSUME NEW j \in DOMAIN batch, NEW d \in Cur, Untouched(j, d)'
        PROVE  batch[j][d] = rowAmt'[j][d]
    <3>1. Untouched(j, d) /\ ~(j = n /\ d = c)
      BY <1>1, <2>1 DEF Untouched, Current, IsNext, CreditPc, Cur
    <3>2. batch[j][d] = rowAmt[j][d]
      BY <3>1 DEF PollerList
    <3> QED
      BY <1>2, <1>3, <3>1, <3>2
  <2> QED
    BY <1>1, <2>1 DEF PollerList, CreditPc
<1>7. WorkerLists'
  BY <1>1, <1>2, ScriptKeepsLists
<1> QED
  BY <1>4, <1>5, <1>6, <1>7 DEF Ledger

\* What was in flight arrives, or is lost because the query failed or the game
\* server stopped.
LEMMA CreditStep ==
  ASSUME TypeInv, TypeInv', IndInv, NEW n \in DOMAIN batch, NEW c \in Cur,
         CreditCurrency(n, c) \/ CreditSlips(n, c)
  PROVE  IndInv'
<1> USE DEF IndInv, TypeInv, TypeOK
<1>1. /\ gpc = CreditPc(c) /\ gpc' = AfterPc(c) /\ IsNext(n, batch, ById) /\ n \in Ids /\ n \in rows
      /\ UNCHANGED <<status, amount, queueVars, wpc, todo, batch, slipped>>
      /\ \/ credited' = [credited EXCEPT ![n][c] = @ + batch[n][c]] /\ lost' = lost
         \/ credited' = credited /\ lost' = [lost EXCEPT ![n][c] = @ + batch[n][c]]
  BY DEF CreditCurrency, CreditSlips, PollerList, requestVars, workerVars
<1>2. \A j \in Ids \ {n} : credited'[j] = credited[j] /\ lost'[j] = lost[j]
  BY <1>1
<1>3. \A d \in Cur \ {c} : credited'[n][d] = credited[n][d] /\ lost'[n][d] = lost[n][d]
  BY <1>1 DEF Amount
<1>4. Balanced'
  <2>1. ASSUME NEW j \in rows, NEW d \in Cur
        PROVE  rowAmt[j][d] + InFlight(j, d)' + credited'[j][d] + lost'[j][d]
                 = amount[j][d] + slipped[j][d]
    <3>1. rowAmt[j][d] + InFlight(j, d) + credited[j][d] + lost[j][d] = amount[j][d] + slipped[j][d]
      BY DEF Ledger, Balanced
    <3>2. InFlight(j, d)' = 0
      BY <1>1 DEF InFlight, CreditPc, AfterPc, Cur
    <3>3. CASE j # n
      BY <1>1, <1>2, <3>1, <3>2, <3>3, OthersNotInFlight
    <3>4. CASE j = n /\ d # c
      <4>1. InFlight(j, d) = 0
        BY <1>1, <3>4 DEF InFlight, CreditPc, Cur
      <4> QED
        BY <1>1, <1>3, <3>1, <3>2, <3>4, <4>1
    <3>5. CASE j = n /\ d = c
      <4>1. InFlight(j, d) = batch[n][c]
        BY <1>1, <3>5 DEF InFlight, Current
      <4>2. /\ rowAmt[n][c] \in Nat /\ credited[n][c] \in Nat /\ lost[n][c] \in Nat
            /\ batch[n][c] \in Nat
        BY <1>1 DEF Amount
      <4>3. \/ credited'[n][c] = credited[n][c] + batch[n][c] /\ lost'[n][c] = lost[n][c]
            \/ credited'[n][c] = credited[n][c] /\ lost'[n][c] = lost[n][c] + batch[n][c]
        BY <1>1 DEF Amount
      <4> QED
        BY <3>1, <3>2, <3>5, <4>1, <4>2, <4>3
    <3> QED
      BY <3>3, <3>4, <3>5
  <2> QED
    BY <1>1, <2>1 DEF Balanced, queueVars
<1>5. Fresh' /\ RowHasRequest' /\ DeliveredBalanced' /\ SettledRow' /\ SentHasRow'
  BY <1>1, <1>2, ScriptKeepsRest DEF queueVars
<1>6. PollerList'
  BY <1>1 DEF PollerList, Untouched, Current, IsNext, CreditPc, AfterPc, Cur, queueVars
<1> QED
  BY <1>1, <1>4, <1>5, <1>6, WorkerFrame DEF Ledger

LEMMA GameCrashStep ==
  ASSUME TypeInv, TypeInv', IndInv, NEW n \in DOMAIN batch, GameCrash(n)
  PROVE  IndInv'
<1> USE DEF IndInv, TypeInv, TypeOK
<1>1. /\ gpc' = "idle" /\ batch' = NoRows /\ IsNext(n, batch, ById) /\ n \in Ids /\ n \in rows
      /\ UNCHANGED <<status, amount, queueVars, wpc, todo, credited, slipped>>
      /\ lost' = [lost EXCEPT ![n] =
           [c \in Cur |-> lost[n][c] + IF gpc = CreditPc(c) THEN batch[n][c] ELSE 0]]
  BY DEF GameCrash, PollerList, requestVars, workerVars
<1>2. \A j \in Ids \ {n} : lost'[j] = lost[j]
  BY <1>1
<1>3. \A c \in Cur : lost'[n][c] = lost[n][c] + InFlight(n, c)
  BY <1>1 DEF InFlight, Current
<1>4. Balanced'
  <2>1. ASSUME NEW j \in rows, NEW d \in Cur
        PROVE  rowAmt[j][d] + InFlight(j, d)' + credited[j][d] + lost'[j][d]
                 = amount[j][d] + slipped[j][d]
    <3>1. rowAmt[j][d] + InFlight(j, d) + credited[j][d] + lost[j][d] = amount[j][d] + slipped[j][d]
      BY DEF Ledger, Balanced
    <3>2. InFlight(j, d)' = 0
      BY <1>1 DEF InFlight, CreditPc
    <3>3. CASE j # n
      BY <1>1, <1>2, <3>1, <3>2, <3>3, OthersNotInFlight
    <3>4. CASE j = n
      <4>1. /\ rowAmt[n][d] \in Nat /\ credited[n][d] \in Nat /\ lost[n][d] \in Nat
            /\ InFlight(n, d) \in Nat
        BY <1>1 DEF Amount, InFlight
      <4> QED
        BY <1>3, <3>1, <3>2, <3>4, <4>1
    <3> QED
      BY <3>3, <3>4
  <2> QED
    BY <1>1, <2>1 DEF Balanced, queueVars
<1>5. Fresh' /\ RowHasRequest' /\ DeliveredBalanced' /\ SettledRow' /\ SentHasRow'
  BY <1>1, <1>2, ScriptKeepsRest DEF queueVars
<1>6. PollerList'
  BY <1>1 DEF PollerList, NoRows
<1> QED
  BY <1>1, <1>4, <1>5, <1>6, WorkerFrame DEF Ledger

LEMMA StampStep ==
  ASSUME TypeInv, TypeInv', IndInv, NEW n \in DOMAIN batch, StampDelivered(n) \/ StampSlips(n)
  PROVE  IndInv'
<1> USE DEF IndInv, TypeInv, TypeOK
<1>1. /\ gpc = "stamp" /\ gpc' = (IF DOMAIN batch = {n} THEN "idle" ELSE "zeny")
      /\ IsNext(n, batch, ById) /\ n \in rows
      /\ UNCHANGED <<status, amount, rows, rowAmt, historyVars, wpc, todo>>
      /\ batch' = Without(batch, n)
      /\ stamped' = stamped \/ stamped' = stamped \cup {n}
  BY DEF StampDelivered, StampSlips, NextRowOrSleep, PollerList, requestVars, queueVars, workerVars
<1>2. \A j, d : InFlight(j, d) = 0 /\ InFlight(j, d)' = 0
  BY <1>1 DEF InFlight, CreditPc
<1>3. Balanced'
  BY <1>1, <1>2 DEF Ledger, Balanced, historyVars
<1>4. Fresh' /\ RowHasRequest' /\ DeliveredBalanced' /\ SettledRow' /\ SentHasRow'
  BY <1>1, ScriptKeepsRest DEF historyVars
<1>5. PollerList'
  <2>1. \A j \in DOMAIN batch' : j \in DOMAIN batch /\ j # n /\ batch'[j] = batch[j]
    BY <1>1 DEF Without
  <2>2. \A j \in DOMAIN batch' : ~IsNext(j, batch, ById)
    BY <1>1, <2>1, NextUnique
  <2>3. gpc' = "idle" => DOMAIN batch' = {}
    BY <1>1 DEF Without
  <2> QED
    BY <1>1, <2>1, <2>2, <2>3 DEF PollerList, Untouched, Current
<1>6. WorkerLists'
  BY <1>1, ScriptKeepsLists
<1> QED
  BY <1>3, <1>4, <1>5, <1>6 DEF Ledger

-----------------------------------------------------------------------------
(* The theorems.                                                           *)

LEMMA IndInvStep ==
  ASSUME TypeInv, TypeInv', IndInv, [Next]_vars
  PROVE  IndInv'
<1>1. CASE \E a \in Accounts, amt \in Requests, i \in Ids : RequestWithdraw(a, amt, i)
  BY <1>1, RequestStep
<1>2. CASE Tick
  BY <1>2, LedgerFrame, WorkerFrame, PollerFrame
  DEF Tick, IndInv, requestVars, workerVars, gameVars
<1>3. CASE Worker
  BY <1>3, ReadStep, InsertStep, SentStep, ResetStep, DeliveredStep, DeleteStep, ReapStep,
     WorkerRestStep DEF Worker
<1>4. CASE WorkerCrash
  BY <1>4, WorkerRestStep
<1>5. CASE Poller
  BY <1>5, PollStep, PassStep, DrainStep, CreditStep, StampStep DEF Poller
<1>6. CASE GameFaults
  BY <1>6, PassStep, DrainStep, CreditStep, GameCrashStep, StampStep DEF GameFaults
<1>7. CASE UNCHANGED vars
  BY <1>7, LedgerFrame, WorkerFrame, PollerFrame
  DEF vars, IndInv, requestVars, workerVars, gameVars
<1> QED
  BY <1>1, <1>2, <1>3, <1>4, <1>5, <1>6, <1>7 DEF Next

LEMMA Inductive == Spec => [](TypeInv /\ IndInv)
<1>1. Init => TypeInv
  BY InitTypeInv
<1>2. Init => IndInv
  BY DEF Init, IndInv, Ledger, Balanced, Fresh, RowHasRequest, DeliveredBalanced, SettledRow,
         SentHasRow, WorkerLists, EnqueueList, ConfirmList, ReapList, PollerList, NoRows, Zero
<1>3. TypeInv /\ [Next]_vars => TypeInv'
  BY TypeInvStep
<1>4. TypeInv /\ TypeInv' /\ IndInv /\ [Next]_vars => IndInv'
  BY IndInvStep
<1> QED
  BY <1>1, <1>2, <1>3, <1>4, PTL DEF Spec

LEMMA IndInvPays == TypeInv /\ IndInv => NoOverpay
<1> SUFFICES ASSUME TypeInv, IndInv, NEW i \in Ids, NEW c \in Cur
             PROVE  credited[i][c] <= amount[i][c] + slipped[i][c]
  BY DEF NoOverpay
<1>1. /\ credited[i][c] \in Nat /\ lost[i][c] \in Nat /\ slipped[i][c] \in Nat
      /\ amount[i][c] \in Nat /\ rowAmt[i][c] \in Nat /\ InFlight(i, c) \in Nat
  BY DEF TypeInv, TypeOK, Amount, InFlight, Current, IsNext
<1>2. CASE i \in rows
  BY <1>1, <1>2 DEF IndInv, Ledger, Balanced
<1>3. CASE status[i] = 3
  BY <1>1, <1>3 DEF IndInv, Ledger, DeliveredBalanced
<1>4. CASE i \notin rows /\ status[i] # 3
  BY <1>1, <1>4 DEF IndInv, Ledger, Fresh, TypeInv, TypeOK
<1> QED
  BY <1>2, <1>3, <1>4

\* A request is never paid twice: not by a repeated insert, not by a stale
\* list, not after a crash between any two calls of the worker or the script.
THEOREM NeverOverpaid == Spec => []NoOverpay
BY Inductive, IndInvPays, PTL

\* A request between sent and delivered is never without its row.
THEOREM SentKeepTheirRow == Spec => []SentHasRow
<1>1. IndInv => SentHasRow
  BY DEF IndInv, Ledger
<1> QED
  BY <1>1, Inductive, PTL

LEMMA RowsStep ==
  ASSUME TypeInv, IndInv, [Next]_vars
  PROVE  \A i \in Ids : /\ status[i] = 3 /\ i \notin rows => i \notin rows'
                        /\ i \in rows => \A c \in Cur : rowAmt'[i][c] <= rowAmt[i][c]
<1> USE DEF TypeInv, TypeOK, Amount
<1>1. \A i \in Ids, c \in Cur : rowAmt[i][c] \in Nat
  OBVIOUS
<1>2. CASE UNCHANGED queueVars
  BY <1>1, <1>2 DEF queueVars
<1>3. CASE \E i \in DOMAIN todo, out \in Outcome : EnqueueInsert(i, out) \/ ReapInsert(i, out)
  <2>1. PICK i \in DOMAIN todo, out \in Outcome : EnqueueInsert(i, out) \/ ReapInsert(i, out)
    BY <1>3
  <2>2. status[i] # 3
    BY <2>1 DEF EnqueueInsert, ReapInsert, IndInv, WorkerLists, EnqueueList, ReapList
  <2>3. \/ UNCHANGED queueVars
        \/ rows' = rows \cup {i} /\ rowAmt' = IF i \in rows THEN rowAmt ELSE [rowAmt EXCEPT ![i] = todo[i]]
    BY <2>1 DEF EnqueueInsert, ReapInsert, Inserted
  <2>4. \A j \in rows : rowAmt'[j] = rowAmt[j]
    BY <2>3 DEF queueVars
  <2>5. \A j \in Ids : status[j] = 3 /\ j \notin rows => j \notin rows'
    BY <2>2, <2>3 DEF queueVars
  <2> QED
    BY <1>1, <2>4, <2>5
<1>4. CASE \E i \in DOMAIN todo, out \in Outcome : Delete(i, out)
  BY <1>1, <1>4 DEF Delete, queueVars, Zero
<1>5. CASE \E i \in DOMAIN todo, out \in Outcome : ResetDelivered(i, out)
  BY <1>1, <1>5 DEF ResetDelivered
<1>6. CASE \E i \in DOMAIN batch, c \in Cur : DrainCurrency(i, c)
  BY <1>1, <1>6 DEF DrainCurrency
<1>7. CASE \E i \in DOMAIN batch : StampDelivered(i)
  BY <1>1, <1>7 DEF StampDelivered
<1>8. CASE UNCHANGED vars
  BY <1>2, <1>8 DEF vars
<1> QED
  BY <1>2, <1>3, <1>4, <1>5, <1>6, <1>7, <1>8
  DEF Next, RequestWithdraw, Tick, Worker, DrainDone, PendingWithdraws, Delivered, SentBefore,
      ReadInto, MarkWithdrawSent, MarkWithdrawDelivered, WorkerCrash, Poller, Poll, SkipCurrency,
      CreditCurrency, GameFaults, StampSlips, GameCrash, AttachRefused, DrainSlips,
      CreditSlips

\* No stale list of the worker brings back a row it deleted.
THEOREM NeverResurrected == Spec => NoResurrection
<1>1. TypeInv /\ IndInv /\ [Next]_vars
        => [\A i \in Ids : status[i] = 3 /\ i \notin rows => i \notin rows']_vars
  BY RowsStep
<1> QED
  BY <1>1, Inductive, PTL DEF Spec, NoResurrection

\* No insert puts back what the script took off a row.
THEOREM RowsNeverRefilled == Spec => RowsOnlyDrain
<1>1. TypeInv /\ IndInv /\ [Next]_vars
        => [\A i \in rows, c \in Cur : rowAmt'[i][c] <= rowAmt[i][c]]_vars
  BY RowsStep DEF TypeInv, TypeOK
<1> QED
  BY <1>1, Inductive, PTL DEF Spec, RowsOnlyDrain

-----------------------------------------------------------------------------
(* What faults of the game may cost.                                       *)

\* One more fault may cost the amount once more.
LEMMA OneMoreFault ==
  ASSUME NEW g \in Nat, NEW a \in Nat
  PROVE  (g + 1) * a = g * a + a /\ g * a \in Nat
OBVIOUS

\* The amount of a request never changes once it was made.
LEMMA AmountKept ==
  ASSUME TypeInv, [Next]_vars
  PROVE  \A i \in Ids : status[i] > 0 => amount'[i] = amount[i]
BY DEF TypeInv, TypeOK, Next, vars, requestVars, RequestWithdraw, Tick, Worker, DrainDone,
       PendingWithdraws, Delivered, SentBefore, ReadInto, EnqueueInsert, MarkWithdrawSent,
       ResetDelivered, MarkWithdrawDelivered, Delete, ReapInsert, WorkerCrash, Poller, Poll,
       StampDelivered, SkipCurrency, DrainCurrency, CreditCurrency, GameFaults, StampSlips,
       GameCrash, AttachRefused, DrainSlips, CreditSlips

LEMMA RowsBoundStep ==
  ASSUME TypeInv, TypeInv', IndInv, FaultInv, [Next]_vars
  PROVE  RowsBound'
<1> USE DEF TypeInv, TypeOK
<1>1. \A i \in rows : status[i] > 0
  BY DEF IndInv, Ledger, RowHasRequest
<1>2. \A i \in Ids : status[i] > 0 => amount'[i] = amount[i]
  BY AmountKept
<1>3. CASE \E n \in DOMAIN todo, out \in Outcome : EnqueueInsert(n, out)
  <2>1. PICK n \in DOMAIN todo, out \in Outcome : EnqueueInsert(n, out)
    BY <1>3
  <2>2. todo[n] = amount[n] /\ n \in Ids /\ UNCHANGED amount
    BY <2>1 DEF EnqueueInsert, requestVars, IndInv, WorkerLists, EnqueueList
  <2>3. \/ UNCHANGED queueVars
        \/ rows' = rows \cup {n} /\ rowAmt' = IF n \in rows THEN rowAmt
                                              ELSE [rowAmt EXCEPT ![n] = amount[n]]
    BY <2>1, <2>2 DEF EnqueueInsert, Inserted
  <2>4. \A i \in rows' : rowAmt'[i] = amount[i] \/ (i \in rows /\ rowAmt'[i] = rowAmt[i])
    BY <2>2, <2>3 DEF queueVars
  <2> QED
    BY <2>2, <2>4 DEF FaultInv, RowsBound, Amount
<1>4. CASE \A i \in rows' : i \in rows /\ \A c \in Cur : rowAmt'[i][c] <= rowAmt[i][c]
  <2> SUFFICES ASSUME NEW i \in rows', NEW c \in Cur PROVE rowAmt'[i][c] <= amount'[i][c]
    BY DEF RowsBound
  <2>1. i \in rows /\ rowAmt'[i][c] <= rowAmt[i][c] /\ amount'[i] = amount[i]
    BY <1>1, <1>2, <1>4
  <2>2. rowAmt[i][c] <= amount[i][c]
    BY <2>1 DEF FaultInv, RowsBound
  <2>3. rowAmt[i][c] \in Nat /\ rowAmt'[i][c] \in Nat /\ amount[i][c] \in Nat
    BY <2>1 DEF Amount
  <2> QED
    BY <2>1, <2>2, <2>3
<1>5. CASE rows' \subseteq rows
  BY <1>4, <1>5, RowsStep
<1>6. CASE \E n \in DOMAIN todo, out \in Outcome : ReapInsert(n, out)
  <2>1. rows' = rows
    BY <1>6 DEF ReapInsert, Inserted, queueVars, IndInv, WorkerLists, ReapList, Ledger, SentHasRow
  <2> QED
    BY <1>5, <2>1
<1> QED
  BY <1>3, <1>5, <1>6
  DEF Next, vars, queueVars, RequestWithdraw, Tick, Worker, DrainDone, PendingWithdraws,
      Delivered, SentBefore, ReadInto, MarkWithdrawSent, ResetDelivered,
      MarkWithdrawDelivered, Delete, WorkerCrash, Poller, Poll, StampDelivered,
      SkipCurrency, DrainCurrency, CreditCurrency, GameFaults, StampSlips, GameCrash,
      AttachRefused, DrainSlips, CreditSlips

LEMMA ListsBoundStep ==
  ASSUME TypeInv, TypeInv', IndInv, FaultInv, [Next]_vars
  PROVE  ListsBound'
<1> USE DEF TypeInv, TypeOK
<1>1. \A i \in Ids : status[i] > 0 => amount'[i] = amount[i]
  BY AmountKept
<1>2. \A i \in rows : status[i] > 0
  BY DEF IndInv, Ledger, RowHasRequest
<1>3. \A i \in DOMAIN batch', c \in Cur : batch'[i][c] <= amount'[i][c]
  <2>1. CASE Poll
    <3>1. \A i \in DOMAIN batch' : i \in rows /\ batch'[i] = rowAmt[i]
      BY <2>1 DEF Poll, FirstOf
    <3> QED
      BY <1>1, <1>2, <3>1 DEF FaultInv, RowsBound
  <2>2. CASE \A i \in DOMAIN batch' : i \in DOMAIN batch /\ batch'[i] = batch[i]
    <3>1. \A i \in DOMAIN batch : i \in rows
      BY DEF IndInv, PollerList
    <3> QED
      BY <1>1, <1>2, <2>2, <3>1 DEF FaultInv, ListsBound
  <2> QED
    BY <2>1, <2>2
    DEF Next, vars, gameVars, RequestWithdraw, Tick, Worker, DrainDone,
        PendingWithdraws, Delivered, SentBefore, ReadInto, EnqueueInsert, MarkWithdrawSent,
        ResetDelivered, MarkWithdrawDelivered, Delete, ReapInsert, WorkerCrash, Poller,
        StampDelivered, SkipCurrency, DrainCurrency, CreditCurrency, GameFaults, StampSlips,
        GameCrash, AttachRefused, DrainSlips, CreditSlips, NextRowOrSleep, Without, NoRows
<1>4. wpc' = "reap" => \A i \in DOMAIN todo' : todo'[i] = amount'[i]
  <2>1. CASE \E out \in Outcome : SentBefore(out)
    <3>1. UNCHANGED amount
      BY <2>1 DEF SentBefore, ReadInto, requestVars
    <3>2. \A i \in DOMAIN todo' : todo'[i] = amount[i]
      BY <2>1 DEF SentBefore, ReadInto, FirstOf, NoRows
    <3> QED
      BY <3>1, <3>2
  <2>2. CASE wpc = "reap" /\ \A i \in DOMAIN todo' : i \in DOMAIN todo /\ todo'[i] = todo[i]
    <3>1. \A i \in DOMAIN todo : status[i] = 2 /\ todo[i] = amount[i]
      BY <2>2 DEF IndInv, WorkerLists, ReapList, FaultInv, ListsBound
    <3> QED
      BY <1>1, <2>2, <3>1
  <2>3. CASE wpc' # "reap"
    BY <2>3
  <2> QED
    BY <2>1, <2>2, <2>3
    DEF Next, vars, workerVars, RequestWithdraw, Tick, Worker, DrainDone,
        PendingWithdraws, Delivered, ReadInto, EnqueueInsert, MarkWithdrawSent,
        ResetDelivered, MarkWithdrawDelivered, Delete, ReapInsert, WorkerCrash, Poller, Poll,
        StampDelivered, SkipCurrency, DrainCurrency, CreditCurrency, GameFaults, StampSlips,
        GameCrash, AttachRefused, DrainSlips, CreditSlips, Without
<1> QED
  BY <1>3, <1>4 DEF ListsBound

\* A step that is no fault of the game loses and repeats nothing.
LEMMA LossBoundFrame ==
  ASSUME TypeInv, TypeInv', IndInv, FaultInv, UNCHANGED <<lost, slipped, gameFaults>>,
         \A i \in Ids : status[i] > 0 => amount'[i] = amount[i]
  PROVE  LossBound'
<1> USE DEF TypeInv, TypeOK, Amount
<1> SUFFICES ASSUME NEW i \in Ids, NEW c \in Cur
             PROVE  lost[i][c] + slipped[i][c] <= gameFaults * amount'[i][c]
  BY DEF LossBound
<1>1. CASE status[i] > 0
  BY <1>1 DEF FaultInv, LossBound
<1>2. CASE status[i] = 0
  <2>1. lost[i][c] = 0 /\ slipped[i][c] = 0
    <3>1. i \notin rows
      BY <1>2 DEF IndInv, Ledger, RowHasRequest
    <3>2. Fresh
      BY DEF IndInv, Ledger
    <3>3. status[i] < 3 /\ i \in Ids /\ c \in Cur
      BY <1>2
    <3> QED
      BY ONLY <3>1, <3>2, <3>3 DEF Fresh
  <2>2. gameFaults * amount'[i][c] >= 0
    <3>1. gameFaults \in Nat /\ amount'[i][c] \in Nat
      OBVIOUS
    <3> QED
      BY ONLY <3>1, OneMoreFault
  <2> QED
    BY <2>1, <2>2
<1>3. status[i] \in 0..3
  OBVIOUS
<1> QED
  BY <1>1, <1>2, <1>3

\* A fault of the game loses or repeats at most a list entry's amount.
LEMMA LossBoundFault ==
  ASSUME TypeInv, TypeInv', FaultInv, UNCHANGED amount, gameFaults' = gameFaults + 1,
         NEW n \in DOMAIN batch,
         \A i \in Ids \ {n} : lost'[i] = lost[i] /\ slipped'[i] = slipped[i],
         \A c \in Cur : lost'[n][c] + slipped'[n][c] <= lost[n][c] + slipped[n][c] + batch[n][c]
  PROVE  LossBound'
<1> USE DEF TypeInv, TypeOK, Amount
<1> SUFFICES ASSUME NEW i \in Ids, NEW c \in Cur
             PROVE  lost'[i][c] + slipped'[i][c] <= (gameFaults + 1) * amount[i][c]
  BY DEF LossBound
<1>1. /\ lost'[i][c] \in Nat /\ slipped'[i][c] \in Nat /\ lost[i][c] \in Nat
      /\ slipped[i][c] \in Nat /\ amount[i][c] \in Nat /\ gameFaults \in Nat
  OBVIOUS
<1>2. lost'[i][c] + slipped'[i][c] <= lost[i][c] + slipped[i][c] + amount[i][c]
  <2>1. CASE i = n
    <3>1. batch[n][c] \in Nat /\ batch[n][c] <= amount[n][c]
      BY DEF FaultInv, ListsBound
    <3> QED
      BY <1>1, <2>1, <3>1
  <2>2. CASE i # n
    BY <1>1, <2>2
  <2> QED
    BY <2>1, <2>2
<1>3. lost[i][c] + slipped[i][c] <= gameFaults * amount[i][c]
  BY DEF FaultInv, LossBound
<1>4. /\ (gameFaults + 1) * amount[i][c] = gameFaults * amount[i][c] + amount[i][c]
      /\ gameFaults * amount[i][c] \in Nat
  BY <1>1, OneMoreFault
<1>5. PICK total \in Nat : total = gameFaults * amount[i][c]
  BY <1>4
<1> QED
  BY ONLY <1>1, <1>2, <1>3, <1>4, <1>5

LEMMA LossBoundStep ==
  ASSUME TypeInv, TypeInv', IndInv, FaultInv, [Next]_vars
  PROVE  LossBound'
<1>1. \A i \in Ids : status[i] > 0 => amount'[i] = amount[i]
  BY AmountKept
<1>2. CASE UNCHANGED <<lost, slipped, gameFaults>>
  BY <1>1, <1>2, LossBoundFrame
<1>3. CASE GameFaults
  <2>1. PICK n \in DOMAIN batch :
          \/ StampSlips(n) \/ GameCrash(n)
          \/ \E c \in Cur : AttachRefused(n, c) \/ DrainSlips(n, c) \/ CreditSlips(n, c)
    BY <1>3 DEF GameFaults
  <2>2. gameFaults' = gameFaults + 1 /\ UNCHANGED amount
    BY <2>1 DEF StampSlips, GameCrash, AttachRefused, DrainSlips, CreditSlips, GameFault,
                requestVars
  <2>3. n \in Ids /\ \A c \in Cur : /\ batch[n][c] \in Nat /\ lost[n][c] \in Nat
                                     /\ slipped[n][c] \in Nat
    BY DEF TypeInv, TypeOK, Amount
  <2>4. /\ \A i \in Ids \ {n} : lost'[i] = lost[i] /\ slipped'[i] = slipped[i]
        /\ \A c \in Cur : lost'[n][c] + slipped'[n][c] <= lost[n][c] + slipped[n][c] + batch[n][c]
    <3>1. CASE StampSlips(n) \/ \E c \in Cur : AttachRefused(n, c)
      BY <2>3, <3>1 DEF StampSlips, AttachRefused, historyVars
    <3>2. CASE GameCrash(n)
      BY <2>3, <3>2 DEF GameCrash, TypeInv, TypeOK
    <3>3. CASE \E c \in Cur : DrainSlips(n, c) \/ CreditSlips(n, c)
      <4>1. PICK d \in Cur : DrainSlips(n, d) \/ CreditSlips(n, d)
        BY <3>3
      <4>2. \/ lost' = lost /\ slipped' = [slipped EXCEPT ![n][d] = @ + batch[n][d]]
            \/ slipped' = slipped /\ lost' = [lost EXCEPT ![n][d] = @ + batch[n][d]]
        BY <4>1 DEF DrainSlips, CreditSlips
      <4>3. lost \in [Ids -> Amount] /\ slipped \in [Ids -> Amount]
        BY DEF TypeInv, TypeOK
      <4>4. \A i \in Ids \ {n} : lost'[i] = lost[i] /\ slipped'[i] = slipped[i]
        BY <4>2, <4>3
      <4>5. \A c \in Cur \ {d} : lost'[n][c] = lost[n][c] /\ slipped'[n][c] = slipped[n][c]
        BY <2>3, <4>2, <4>3 DEF Amount
      <4>6. \/ lost'[n][d] = lost[n][d] /\ slipped'[n][d] = slipped[n][d] + batch[n][d]
            \/ slipped'[n][d] = slipped[n][d] /\ lost'[n][d] = lost[n][d] + batch[n][d]
        BY <2>3, <4>2, <4>3 DEF Amount
      <4>7. ASSUME NEW c \in Cur
            PROVE  lost'[n][c] + slipped'[n][c] <= lost[n][c] + slipped[n][c] + batch[n][c]
        <5>1. CASE c = d
          BY <2>3, <4>6, <5>1
        <5>2. CASE c # d
          BY <2>3, <4>5, <5>2
        <5> QED
          BY <5>1, <5>2
      <4> QED
        BY <4>4, <4>7
    <3> QED
      BY <2>1, <3>1, <3>2, <3>3
  <2> QED
    BY <2>2, <2>4, LossBoundFault
<1> QED
  BY <1>2, <1>3
  DEF Next, vars, gameVars, historyVars, RequestWithdraw, Tick, Worker, DrainDone,
      PendingWithdraws, Delivered, SentBefore, ReadInto, EnqueueInsert, MarkWithdrawSent,
      ResetDelivered, MarkWithdrawDelivered, Delete, ReapInsert, WorkerCrash, Poller, Poll,
      StampDelivered, SkipCurrency, DrainCurrency, CreditCurrency

LEMMA FaultsBounded == Spec => []FaultInv
<1>1. Init => FaultInv
  BY BoundsAssumption DEF Init, FaultInv, RowsBound, ListsBound, LossBound, NoRows, Zero
<1>2. TypeInv /\ TypeInv' /\ IndInv /\ FaultInv /\ [Next]_vars => FaultInv'
  BY RowsBoundStep, ListsBoundStep, LossBoundStep DEF FaultInv
<1> QED
  BY <1>1, <1>2, Inductive, PTL DEF Spec

\* A request the panel shows as delivered was paid in full, but for what the
\* faults of the game server lost or repeated: at most its amount for each, and
\* nothing when there was none.
THEOREM DeliveredArePaid == Spec => []DeliveredMeansPaid
<1>1. IndInv /\ FaultInv => DeliveredMeansPaid
  BY DEF IndInv, Ledger, DeliveredBalanced, FaultInv, LossBound, DeliveredMeansPaid
<1> QED
  BY <1>1, Inductive, FaultsBounded, PTL

=============================================================================
