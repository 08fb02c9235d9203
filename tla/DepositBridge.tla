--------------------------- MODULE DepositBridge ---------------------------
(***************************************************************************)
(* The deposit pipeline of the currency bridge.  The Currency Manager NPC  *)
(* takes currency from a character and inserts a row in cp_deposit         *)
(* (MariaDB); DepositWorker credits it to cp_currency (Postgres), once per *)
(* row by the cp_deposit_processed table, and deletes the row.  Deposits   *)
(* and withdrawals of an account share one cooldown.                       *)
(*                                                                         *)
(* Time is what is left of each cooldown, so that it never runs out.       *)
(***************************************************************************)
EXTENDS Integers, FiniteSets, Functions

CONSTANTS
  Accounts,
  InitBalance,   \* what every account owns at the start, panel and game alike
  MaxDeposit,    \* largest deposit the NPC accepts (.max_cp, MAX_ZENY)
  MaxBalance,    \* math.MaxInt64 for zeny, math.MaxInt32 for cashpoints
  Cooldown,      \* cooldown of the panel
  GameCooldown,  \* .cooldown of the NPC
  Batch,         \* LIMIT of the worker's query
  MaxDep,        \* bound: number of deposit rows
  MaxWithdraws,  \* bound: withdrawals, which restart the cooldown
  MaxStray,      \* bound: rows that the NPC did not write
  MaxFaults      \* bound: failed calls and crashes

ASSUME BoundsAssumption ==
  /\ InitBalance \in Nat /\ MaxDeposit \in Nat /\ MaxBalance \in Nat
  /\ InitBalance <= MaxBalance
  /\ Cooldown \in Nat /\ GameCooldown \in Nat /\ Batch \in Nat \ {0}
  /\ MaxDep \in Nat /\ MaxWithdraws \in Nat /\ MaxStray \in Nat /\ MaxFaults \in Nat

Cur  == {"zeny", "points"}
Zero == [c \in Cur |-> 0]
Ids  == 1..MaxDep

VARIABLES
  wallet, gameCool,  \* the game: Zeny and #CASHPOINTS, #CP_CUR_TIMER
  balance, cool,     \* cp_currency: its amounts, what is left of locked_until
  rows, row,         \* cp_deposit: its ids, and each id's account and amounts
  nextId,            \* its AUTO_INCREMENT
  processed,         \* cp_deposit_processed
  wpc, todo,         \* the worker, and the rows it has read and not dealt with
  credited,          \* history: what a row added to the balance
  withdrawn,         \* history: what left the balance
  withdraws, stray, faults

gameVars    == <<wallet, gameCool>>
panelVars   == <<balance, cool, processed, credited, withdrawn>>
depositVars == <<rows, row, nextId>>
workerVars  == <<wpc, todo>>
boundVars   == <<withdraws, stray, faults>>
vars == <<gameVars, panelVars, depositVars, workerVars, boundVars>>

NoAccount == "none"

Init ==
  /\ wallet = [a \in Accounts |-> [c \in Cur |-> InitBalance]]
  /\ gameCool = [a \in Accounts |-> 0]
  /\ balance = [a \in Accounts |-> [c \in Cur |-> InitBalance]]
  /\ cool = [a \in Accounts |-> 0]
  /\ rows = {} /\ nextId = 1
  /\ row = [i \in Ids |-> [account |-> NoAccount, amt |-> Zero]]
  /\ processed = {}
  /\ wpc = "idle" /\ todo = {}
  /\ credited = [i \in Ids |-> Zero]
  /\ withdrawn = [a \in Accounts |-> Zero]
  /\ withdraws = 0 /\ stray = 0 /\ faults = 0

Fault == faults < MaxFaults /\ faults' = faults + 1

-----------------------------------------------------------------------------
(* Time and the other users of the two cooldowns.                          *)

Left(f) == [a \in Accounts |-> IF f[a] > 0 THEN f[a] - 1 ELSE 0]
Tick ==
  /\ \E a \in Accounts : cool[a] > 0 \/ gameCool[a] > 0
  /\ cool' = Left(cool) /\ gameCool' = Left(gameCool)
  /\ UNCHANGED <<wallet, balance, processed, credited, withdrawn, depositVars, workerVars, boundVars>>

\* CurrencyRepository.RequestWithdraw
Withdraw(a, amt) ==
  /\ withdraws < MaxWithdraws /\ withdraws' = withdraws + 1
  /\ amt # Zero
  /\ cool[a] = 0
  /\ \A c \in Cur : amt[c] <= balance[a][c]
  /\ balance' = [balance EXCEPT ![a] = [c \in Cur |-> @[c] - amt[c]]]
  /\ withdrawn' = [withdrawn EXCEPT ![a] = [c \in Cur |-> @[c] + amt[c]]]
  /\ cool' = [cool EXCEPT ![a] = Cooldown]
  /\ UNCHANGED <<gameVars, processed, credited, depositVars, workerVars, stray, faults>>

-----------------------------------------------------------------------------
(* The game.                                                               *)

InsertRow(a, amt) ==
  /\ nextId \in Ids
  /\ rows' = rows \cup {nextId}
  /\ row' = [row EXCEPT ![nextId] = [account |-> a, amt |-> amt]]
  /\ nextId' = nextId + 1

\* The NPC takes the amount, starts its cooldown, and inserts the row.
Take(a, c, n) ==
  /\ gameCool[a] = 0
  /\ n \in 1..MaxDeposit /\ n <= wallet[a][c]
  /\ wallet' = [wallet EXCEPT ![a][c] = @ - n]
  /\ gameCool' = [gameCool EXCEPT ![a] = GameCooldown]

NPCDeposit(a, c, n) ==
  /\ Take(a, c, n)
  /\ InsertRow(a, [Zero EXCEPT ![c] = n])
  /\ UNCHANGED <<panelVars, workerVars, boundVars>>

\* The game server stops, or the INSERT fails, after the amount was taken.
NPCDepositLost(a, c, n) ==
  /\ Take(a, c, n)
  /\ Fault
  /\ UNCHANGED <<panelVars, depositVars, workerVars, withdraws, stray>>

\* A row some other writer left in the table: nothing in it, or a negative.
StrayRow(a, amt) ==
  /\ stray < MaxStray /\ stray' = stray + 1
  /\ InsertRow(a, amt)
  /\ UNCHANGED <<gameVars, panelVars, workerVars, withdraws, faults>>

-----------------------------------------------------------------------------
(* DepositWorker.drainOnce                                                 *)

Least(S) == CHOOSE i \in S : \A j \in S : i <= j
Valid(amt) == amt # Zero /\ \A c \in Cur : amt[c] >= 0

\* ORDER BY id LIMIT Batch; a failed read ends the round.
ReadBatch ==
  /\ wpc = "idle"
  /\ \/ /\ todo' = {i \in rows : Cardinality({j \in rows : j < i}) < Batch}
        /\ wpc' = "apply"
        /\ UNCHANGED faults
     \/ Fault /\ UNCHANGED workerVars
  /\ UNCHANGED <<gameVars, panelVars, depositVars, withdraws, stray>>

AtRow(i) == wpc = "apply" /\ todo # {} /\ i = Least(todo)
GoDelete == wpc' = "delete" /\ UNCHANGED todo
SkipRow(i) == todo' = todo \ {i} /\ UNCHANGED wpc

InvalidRow(i) ==
  /\ AtRow(i) /\ ~Valid(row[i].amt)
  /\ GoDelete
  /\ UNCHANGED <<gameVars, panelVars, depositVars, boundVars>>

SkipLockedDeletes(i) == GoDelete  \* mutant: ErrDepositLocked treated as done
SkipLocked(i) == SkipRow(i)

\* CreditDeposit answers ErrDepositLocked: before it looks at processed.
DepositLocked(i) ==
  /\ AtRow(i) /\ Valid(row[i].amt)
  /\ cool[row[i].account] > 0
  /\ SkipLocked(i)
  /\ UNCHANGED <<gameVars, panelVars, depositVars, boundVars>>

\* AddZenyCapped, AddCashpointCapped
Uncapped(n, d) == n + d  \* mutant
Capped(n, d) == IF n > MaxBalance - d THEN MaxBalance ELSE n + d

NewRow(i) == TRUE  \* mutant: the ON CONFLICT branch credits too
FirstTime(i) == i \notin processed

\* The transaction of CreditDeposit
Credit(i) ==
  LET a   == row[i].account
      new == [c \in Cur |-> Capped(balance[a][c], row[i].amt[c])]
  IN IF FirstTime(i)
     THEN /\ processed' = processed \cup {i}
          /\ balance' = [balance EXCEPT ![a] = new]
          /\ credited' = [credited EXCEPT ![i] = [c \in Cur |-> @[c] + new[c] - balance[a][c]]]
          /\ cool' = [cool EXCEPT ![a] = Cooldown]
          /\ UNCHANGED withdrawn
     ELSE UNCHANGED panelVars

RemoveKnownNever(i) == IF FirstTime(i) THEN GoDelete ELSE SkipRow(i)  \* mutant
RemoveApplied(i) == GoDelete

RolledBackMarked(i) ==  \* mutant: the mark is outside the transaction
  processed' = processed \cup {i} /\ UNCHANGED <<balance, cool, credited, withdrawn>>
RolledBack(i) == UNCHANGED panelVars

CreditDeposit(i) ==
  /\ AtRow(i) /\ Valid(row[i].amt)
  /\ cool[row[i].account] = 0
  /\ \/ Credit(i) /\ RemoveApplied(i) /\ UNCHANGED faults
     \/ Credit(i) /\ SkipRow(i) /\ Fault            \* committed, answer lost
     \/ RolledBack(i) /\ SkipRow(i) /\ Fault
  /\ UNCHANGED <<gameVars, depositVars, withdraws, stray>>

\* deleteDeposit; a failed DELETE is logged and the loop goes on.
DeleteDeposit ==
  /\ wpc = "delete"
  /\ LET i == Least(todo)
     IN /\ todo' = todo \ {i} /\ wpc' = "apply"
        /\ \/ rows' = rows \ {i} /\ UNCHANGED faults
           \/ rows' \in {rows, rows \ {i}} /\ Fault
  /\ UNCHANGED <<gameVars, panelVars, row, nextId, withdraws, stray>>

RoundDone ==
  /\ wpc = "apply" /\ todo = {}
  /\ wpc' = "idle"
  /\ UNCHANGED <<gameVars, panelVars, depositVars, todo, boundVars>>

WorkerCrash ==
  /\ wpc # "idle"
  /\ Fault
  /\ wpc' = "idle" /\ todo' = {}
  /\ UNCHANGED <<gameVars, panelVars, depositVars, withdraws, stray>>

Worker ==
  \/ ReadBatch \/ DeleteDeposit \/ RoundDone
  \/ \E i \in Ids : InvalidRow(i) \/ DepositLocked(i) \/ CreditDeposit(i)

-----------------------------------------------------------------------------
StrayAmounts == {Zero, [Zero EXCEPT !["zeny"] = -1, !["points"] = 1]}

Next ==
  \/ Tick \/ Worker \/ WorkerCrash
  \/ \E a \in Accounts :
       \/ \E amt \in [Cur -> 0..MaxDeposit] : Withdraw(a, amt)
       \/ \E c \in Cur, n \in 1..MaxDeposit : NPCDeposit(a, c, n) \/ NPCDepositLost(a, c, n)
       \/ \E amt \in StrayAmounts : StrayRow(a, amt)

Spec == Init /\ [][Next]_vars

\* runLoop ticks for ever, and time passes.
FairSpec == Spec /\ WF_vars(Worker) /\ WF_vars(Tick)

-----------------------------------------------------------------------------
(* Properties.                                                             *)

\* No balance leaves the range of its column, however many deposits arrive.
TypeOK ==
  /\ wallet \in [Accounts -> [Cur -> Nat]] /\ gameCool \in [Accounts -> 0..GameCooldown]
  /\ balance \in [Accounts -> [Cur -> 0..MaxBalance]] /\ cool \in [Accounts -> 0..Cooldown]
  /\ rows \subseteq Ids /\ nextId \in 1..MaxDep + 1 /\ processed \subseteq Ids
  /\ \A i \in rows : row[i] \in [account : Accounts, amt : [Cur -> Int]]
  /\ wpc \in {"idle", "apply", "delete"} /\ todo \subseteq Ids

\* A row is credited at most once, and for no more than it holds, although it
\* is read again whenever its credit or its deletion was reported as failed.
CreditedOnce ==
  \A i \in Ids : credited[i] = Zero \/ (i < nextId /\ \A c \in Cur : credited[i][c] <= row[i].amt[c])

\* Queue and credits are consistent, whatever was retried.
Consistent == TypeOK /\ CreditedOnce

\* The balance of an account is what it started with, plus its processed deposits,
\* minus what it withdrew, and less than that only where it ran into the cap: no
\* update of one is lost to another, and no row is processed without its credit.
BalanceAccounted ==
  \A a \in Accounts, c \in Cur :
    LET mine == {i \in processed : row[i].account = a}
        due  == InitBalance + SumFunction([i \in mine |-> row[i].amt[c]])
    IN /\ balance[a][c] + withdrawn[a][c] <= due
       /\ due <= MaxBalance => balance[a][c] + withdrawn[a][c] = due

\* A row is only deleted when it has been processed, or can never be.
DeletedMeansProcessed ==
  [][\A i \in rows \ rows' : i \in processed \/ ~Valid(row[i].amt)]_vars

\* Every deposit is processed and its row removed once faults and withdrawals
\* stop: the cooldowns it runs into, its own included, all lapse.
EveryDepositProcessed ==
  \A i \in Ids : i \in rows ~> i \notin rows
=============================================================================
