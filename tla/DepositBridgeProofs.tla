------------------------ MODULE DepositBridgeProofs ------------------------
(***************************************************************************)
(* The deposit pipeline credits a row at most once and deletes none that   *)
(* is still owed, for every number of accounts and rows, every amount and  *)
(* cooldown, and every number of failed calls, crashes and stray rows.     *)
(***************************************************************************)
EXTENDS DepositBridge, Sums

\* The ids that AUTO_INCREMENT has given out
Inserted == {i \in Ids : i < nextId}

Rows ==
  /\ rows \cup processed \cup todo \subseteq Inserted
  /\ row \in [Ids -> [account : Accounts \cup {NoAccount}, amt : [Cur -> Int]]]
  /\ \A i \in Inserted : row[i].account \in Accounts

\* A row that has not been processed has added nothing to a balance, one that
\* has been no more than it holds.
Credits ==
  /\ credited \in [Ids -> [Cur -> Int]]
  /\ \A i \in Ids : i \notin processed => credited[i] = Zero
  /\ \A i \in processed : \A c \in Cur : credited[i][c] <= row[i].amt[c]

\* The worker is about to delete a row that nothing can be credited for.
Deleting ==
  wpc = "delete" =>
    todo # {} /\ (Least(todo) \in processed \/ ~Valid(row[Least(todo)].amt))

DepositInv == TypeOK /\ Rows /\ Credits /\ Deleting

-----------------------------------------------------------------------------
(* Lemmas about the operators.                                             *)

LEMMA LeastIsMember ==
  ASSUME NEW S \in SUBSET Ids, S # {}
  PROVE  Least(S) \in S
<1> DEFINE R == {p \in Nat \X Nat : p[1] < p[2]}
<1>1. IsWellFoundedOn(R, Nat)
  BY NatLessThanWellFounded, Zenon DEF OpToRel
<1>2. S \subseteq Nat
  BY BoundsAssumption DEF Ids
<1>3. \E i \in S : \A j \in S : <<j, i>> \notin R
  <2> HIDE DEF R
  <2> QED
    BY <1>1, <1>2, WFMin, Zenon
<1>4. PICK i \in S : \A j \in S : <<j, i>> \notin R
  BY <1>3
<1>5. \A j \in S : ~(j < i)
  BY <1>2, <1>4
<1>6. \A j \in S : i <= j
  BY <1>2, <1>5
<1> QED
  BY <1>6 DEF Least

LEMMA AmountsTyped ==
  /\ Zero \in [Cur -> Int] /\ Zero \in [Cur -> 0..0]
  /\ StrayAmounts \subseteq [Cur -> Int]
  /\ \A c \in Cur, n \in Nat : [Zero EXCEPT ![c] = n] \in [Cur -> Nat]
BY DEF Zero, Cur, StrayAmounts

\* AddZenyCapped adds no more than it is given, and stops at the cap.
LEMMA CappedBounds ==
  ASSUME NEW n \in 0..MaxBalance, NEW d \in Nat
  PROVE  Capped(n, d) \in 0..MaxBalance /\ Capped(n, d) >= n /\ Capped(n, d) - n <= d
BY BoundsAssumption DEF Capped

LEMMA ValidAmounts ==
  ASSUME NEW amt \in [Cur -> Int], Valid(amt)
  PROVE  \A c \in Cur : amt[c] \in Nat
BY DEF Valid

-----------------------------------------------------------------------------
(* The initial state, and what a step has to leave alone                   *)

LEMMA InitDepositInv == Init => DepositInv
<1> SUFFICES ASSUME Init
             PROVE  DepositInv
  OBVIOUS
<1> USE BoundsAssumption
<1>1. /\ wallet \in [Accounts -> [Cur -> Nat]] /\ gameCool \in [Accounts -> 0..GameCooldown]
      /\ balance \in [Accounts -> [Cur -> 0..MaxBalance]] /\ cool \in [Accounts -> 0..Cooldown]
  BY DEF Init
<1>2. /\ rows = {} /\ processed = {} /\ todo = {} /\ nextId = 1 /\ wpc = "idle"
      /\ nextId \in 1..MaxDep + 1
  BY DEF Init
<1>3. TypeOK
  BY <1>1, <1>2 DEF TypeOK
<1>4. row \in [Ids -> [account : Accounts \cup {NoAccount}, amt : [Cur -> Int]]]
  BY AmountsTyped DEF Init
<1>5. Inserted = {}
  BY <1>2 DEF Inserted, Ids
<1>6. credited \in [Ids -> [Cur -> Int]] /\ \A i \in Ids : credited[i] = Zero
  BY AmountsTyped DEF Init
<1> QED
  BY <1>2, <1>3, <1>4, <1>5, <1>6 DEF DepositInv, Rows, Credits, Deleting

LEMMA CreditsStay ==
  ASSUME Credits, UNCHANGED <<processed, credited, row>>
  PROVE  Credits'
BY DEF Credits

LEMMA InsertedStay == UNCHANGED nextId => Inserted' = Inserted
BY DEF Inserted, Ids

LEMMA RowsStay ==
  ASSUME Rows, UNCHANGED <<processed, row, nextId>>,
         rows' \subseteq rows, todo' \subseteq rows \cup todo
  PROVE  Rows'
BY InsertedStay DEF Rows

LEMMA DeletingStays ==
  ASSUME Deleting, UNCHANGED <<processed, row, wpc, todo>>
  PROVE  Deleting'
BY DEF Deleting

\* The types of what only the worker and the two tables change
LEMMA TablesTyped ==
  ASSUME TypeOK, Rows'
  PROVE  /\ rows' \subseteq Ids /\ processed' \subseteq Ids /\ todo' \subseteq Ids
         /\ \A i \in rows' : row'[i] \in [account : Accounts, amt : [Cur -> Int]]
<1>1. (rows \cup processed \cup todo)' \subseteq Ids
  BY DEF Rows, Inserted, Ids
<1>2. \A i \in rows' : row'[i] \in [account : Accounts \cup {NoAccount}, amt : [Cur -> Int]]
                       /\ row'[i].account \in Accounts
  BY <1>1 DEF Rows, Ids
<1>3. \A i \in rows' : row'[i] \in [account : Accounts, amt : [Cur -> Int]]
  BY <1>2
<1> QED
  BY <1>1, <1>3

-----------------------------------------------------------------------------
(* The steps that leave the worker where it is                             *)

\* Types of the game's and the panel's own columns
Columns ==
  /\ wallet \in [Accounts -> [Cur -> Nat]] /\ gameCool \in [Accounts -> 0..GameCooldown]
  /\ balance \in [Accounts -> [Cur -> 0..MaxBalance]] /\ cool \in [Accounts -> 0..Cooldown]
  /\ nextId \in 1..MaxDep + 1

LEMMA TypeOKFrom ==
  ASSUME TypeOK, Columns', Rows', wpc' \in {"idle", "apply", "delete"}
  PROVE  TypeOK'
BY TablesTyped DEF TypeOK, Columns

LEMMA TypesNow ==
  ASSUME TypeOK
  PROVE  Columns /\ wpc \in {"idle", "apply", "delete"}
BY DEF TypeOK, Columns

LEMMA TickStep ==
  ASSUME DepositInv, Tick
  PROVE  DepositInv'
<1>1. UNCHANGED <<wallet, balance, processed, credited, rows, row, nextId, wpc, todo>>
  BY DEF Tick, depositVars, workerVars
<1>2. cool' = Left(cool) /\ gameCool' = Left(gameCool)
  BY DEF Tick
<1>3. cool' \in [Accounts -> 0..Cooldown] /\ gameCool' \in [Accounts -> 0..GameCooldown]
  BY <1>2, TypesNow, BoundsAssumption DEF DepositInv, Left, Columns
<1>4. Columns' /\ Rows'
  BY <1>1, <1>3, TypesNow, RowsStay DEF DepositInv, Columns
<1>5. TypeOK'
  BY <1>1, <1>4, TypesNow, TypeOKFrom DEF DepositInv
<1> QED
  BY <1>1, <1>4, <1>5, CreditsStay, DeletingStays DEF DepositInv

LEMMA WithdrawStep ==
  ASSUME DepositInv, NEW a \in Accounts, NEW amt \in [Cur -> 0..MaxDeposit], Withdraw(a, amt)
  PROVE  DepositInv'
<1>1. UNCHANGED <<wallet, gameCool, processed, credited, rows, row, nextId, wpc, todo>>
  BY DEF Withdraw, depositVars, workerVars, gameVars
<1>2. /\ cool' = [cool EXCEPT ![a] = Cooldown]
      /\ balance' = [balance EXCEPT ![a] = [c \in Cur |-> balance[a][c] - amt[c]]]
      /\ \A c \in Cur : amt[c] <= balance[a][c]
  BY DEF Withdraw
<1>3. balance \in [Accounts -> [Cur -> 0..MaxBalance]] /\ cool \in [Accounts -> 0..Cooldown]
  BY TypesNow DEF DepositInv, Columns
<1>4. [c \in Cur |-> balance[a][c] - amt[c]] \in [Cur -> 0..MaxBalance]
  BY <1>2, <1>3, BoundsAssumption
<1>5. balance' \in [Accounts -> [Cur -> 0..MaxBalance]] /\ cool' \in [Accounts -> 0..Cooldown]
  BY <1>2, <1>3, <1>4, BoundsAssumption
<1>6. Columns' /\ Rows'
  BY <1>1, <1>5, TypesNow, RowsStay DEF DepositInv, Columns
<1>7. TypeOK'
  BY <1>1, <1>6, TypesNow, TypeOKFrom DEF DepositInv
<1> QED
  BY <1>1, <1>6, <1>7, CreditsStay, DeletingStays DEF DepositInv

LEMMA TakeTyped ==
  ASSUME TypeOK, NEW a \in Accounts, NEW c \in Cur, NEW n \in 1..MaxDeposit, Take(a, c, n)
  PROVE  wallet' \in [Accounts -> [Cur -> Nat]] /\ gameCool' \in [Accounts -> 0..GameCooldown]
<1>1. /\ n <= wallet[a][c] /\ gameCool' = [gameCool EXCEPT ![a] = GameCooldown]
      /\ wallet' = [wallet EXCEPT ![a] = [wallet[a] EXCEPT ![c] = wallet[a][c] - n]]
  BY DEF Take
<1>2. wallet \in [Accounts -> [Cur -> Nat]] /\ gameCool \in [Accounts -> 0..GameCooldown]
  BY TypesNow DEF Columns
<1>3. [wallet[a] EXCEPT ![c] = wallet[a][c] - n] \in [Cur -> Nat]
  BY <1>1, <1>2, BoundsAssumption
<1> QED
  BY <1>1, <1>2, <1>3, BoundsAssumption

\* A row that is inserted has not been processed, nor read by the worker.
LEMMA InsertStep ==
  ASSUME DepositInv, NEW a \in Accounts, NEW amt \in [Cur -> Int], InsertRow(a, amt),
         wallet' \in [Accounts -> [Cur -> Nat]], gameCool' \in [Accounts -> 0..GameCooldown],
         UNCHANGED <<panelVars, workerVars>>
  PROVE  DepositInv'
<1>1. /\ nextId \in Ids /\ rows' = rows \cup {nextId} /\ nextId' = nextId + 1
      /\ row' = [row EXCEPT ![nextId] = [account |-> a, amt |-> amt]]
      /\ UNCHANGED <<balance, cool, processed, credited, wpc, todo>>
  BY DEF InsertRow, panelVars, workerVars
<1>2. Inserted' = Inserted \cup {nextId} /\ nextId \notin Inserted /\ Inserted \subseteq Ids
  <2>1. Ids \subseteq Int /\ nextId \in Int
    BY <1>1, BoundsAssumption DEF Ids
  <2>2. Inserted' = {i \in Ids : i < nextId + 1}
    BY <1>1 DEF Inserted, Ids
  <2>3. \A i \in Ids : i < nextId + 1 <=> i < nextId \/ i = nextId
    BY <2>1
  <2>4. \A i \in Ids : i \in Inserted' <=> i \in Inserted \/ i = nextId
    BY <2>2, <2>3 DEF Inserted
  <2>5. ~(nextId < nextId)
    BY <2>1
  <2>6. Inserted' \subseteq Ids /\ Inserted \subseteq Ids
    BY <2>2 DEF Inserted
  <2> QED
    BY <1>1, <2>4, <2>5, <2>6 DEF Inserted
<1>3. /\ row' \in [Ids -> [account : Accounts \cup {NoAccount}, amt : [Cur -> Int]]]
      /\ row'[nextId].account = a /\ \A i \in Inserted : row'[i] = row[i]
  <2>1. [account |-> a, amt |-> amt] \in [account : Accounts \cup {NoAccount}, amt : [Cur -> Int]]
    OBVIOUS
  <2> QED
    BY <1>1, <1>2, <2>1 DEF DepositInv, Rows
<1>4. Rows'
  BY <1>1, <1>2, <1>3 DEF DepositInv, Rows
<1>5. nextId' \in 1..MaxDep + 1
  BY <1>1, BoundsAssumption DEF Ids
<1>6. Columns'
  BY <1>1, <1>5, TypesNow DEF DepositInv, Columns
<1>7. TypeOK'
  BY <1>1, <1>4, <1>6, TypesNow, TypeOKFrom DEF DepositInv
<1>8. Credits'
  BY <1>1, <1>2, <1>3 DEF DepositInv, Credits, Rows
<1>9. Deleting'
  <2>1. SUFFICES ASSUME wpc = "delete"
                 PROVE  todo # {} /\ (Least(todo) \in processed \/ ~Valid(row'[Least(todo)].amt))
    BY <1>1 DEF Deleting
  <2>2. todo # {} /\ todo \in SUBSET Ids /\ todo \subseteq Inserted
    BY <1>2, <2>1 DEF DepositInv, Deleting, Rows
  <2>3. row'[Least(todo)] = row[Least(todo)]
    BY <1>3, <2>2, LeastIsMember
  <2> QED
    BY <2>1, <2>2, <2>3 DEF DepositInv, Deleting
<1> QED
  BY <1>4, <1>7, <1>8, <1>9 DEF DepositInv

-----------------------------------------------------------------------------
(* The steps of the worker                                                 *)

\* A step that does not touch a table only has to leave the worker in order.
LEMMA WorkerOnly ==
  ASSUME DepositInv, UNCHANGED <<gameVars, panelVars, depositVars>>,
         todo' \subseteq rows \cup todo, wpc' \in {"idle", "apply", "delete"}, Deleting'
  PROVE  DepositInv'
<1>1. UNCHANGED <<wallet, gameCool, balance, cool, processed, credited, rows, row, nextId>>
  BY DEF gameVars, panelVars, depositVars
<1>2. Columns' /\ Rows'
  BY <1>1, TypesNow, RowsStay DEF DepositInv, Columns
<1>3. TypeOK'
  BY <1>2, TypeOKFrom DEF DepositInv
<1> QED
  BY <1>1, <1>2, <1>3, CreditsStay DEF DepositInv

LEMMA AtRowFacts ==
  ASSUME DepositInv, NEW i \in Ids, AtRow(i)
  PROVE  /\ wpc = "apply" /\ todo # {} /\ i = Least(todo) /\ i \in todo /\ i \in Inserted
         /\ row[i].account \in Accounts /\ row[i].amt \in [Cur -> Int]
<1>1. wpc = "apply" /\ todo # {} /\ i = Least(todo)
  BY DEF AtRow
<1>2. todo \subseteq Ids /\ todo \subseteq Inserted
  BY DEF DepositInv, Rows, TypeOK
<1>3. i \in todo
  BY <1>1, <1>2, LeastIsMember
<1> QED
  BY <1>1, <1>2, <1>3 DEF DepositInv, Rows

\* The transaction of CreditDeposit and where the worker goes after it
LEMMA CreditStep ==
  ASSUME DepositInv, NEW i \in Ids, AtRow(i), Valid(row[i].amt), Credit(i),
         GoDelete \/ SkipRow(i), UNCHANGED <<gameVars, depositVars>>
  PROVE  DepositInv'
<1> DEFINE a == row[i].account
           amt == row[i].amt
           new == [c \in Cur |-> Capped(balance[a][c], amt[c])]
<1>1. /\ a \in Accounts /\ i \in todo /\ i = Least(todo) /\ i \in Inserted /\ wpc = "apply"
      /\ \A c \in Cur : amt[c] \in Nat
  BY AtRowFacts, ValidAmounts
<1>2. /\ UNCHANGED <<wallet, gameCool, rows, row, nextId>>
      /\ \/ wpc' = "delete" /\ todo' = todo
         \/ wpc' = "apply" /\ todo' = todo \ {i}
  BY <1>1 DEF gameVars, depositVars, GoDelete, SkipRow
<1>3. CASE ~FirstTime(i)
  <2>1. UNCHANGED panelVars /\ i \in processed
    BY <1>3 DEF Credit, FirstTime
  <2>2. Deleting'
    BY <1>1, <1>2, <2>1 DEF Deleting, panelVars
  <2> QED
    BY <1>2, <2>1, <2>2, WorkerOnly
<1>4. CASE FirstTime(i)
  <2>1. /\ processed' = processed \cup {i} /\ i \notin processed
        /\ balance' = [balance EXCEPT ![a] = new]
        /\ credited' = [credited EXCEPT ![i] = [c \in Cur |-> credited[i][c] + new[c] - balance[a][c]]]
        /\ cool' = [cool EXCEPT ![a] = Cooldown]
    BY <1>4 DEF Credit, FirstTime
  <2>2. /\ balance \in [Accounts -> [Cur -> 0..MaxBalance]] /\ cool \in [Accounts -> 0..Cooldown]
        /\ credited \in [Ids -> [Cur -> Int]]
        /\ credited[i] = Zero
    BY <2>1, TypesNow DEF DepositInv, Columns, Credits
  <2>3. \A c \in Cur : /\ new[c] \in 0..MaxBalance /\ balance[a][c] \in 0..MaxBalance
                       /\ new[c] - balance[a][c] <= amt[c]
    <3>1. \A c \in Cur : balance[a][c] \in 0..MaxBalance
      BY <1>1, <2>2
    <3> QED
      BY <1>1, <3>1, CappedBounds
  <2>4. new \in [Cur -> 0..MaxBalance]
    <3>1. new = [c \in Cur |-> new[c]]
      OBVIOUS
    <3> HIDE DEF new
    <3> QED
      BY <2>3, <3>1
  <2> DEFINE more == [c \in Cur |-> credited[i][c] + new[c] - balance[a][c]]
  <2>5. more \in [Cur -> Int] /\ \A c \in Cur : more[c] <= amt[c]
    <3>1. \A c \in Cur : credited[i][c] = 0
      BY <2>2 DEF Zero
    <3> HIDE DEF new, a, amt
    <3> QED
      BY <1>1, <2>3, <3>1, BoundsAssumption
  <2>6. row[i].amt = amt
    OBVIOUS
  <2> HIDE DEF new, a, amt, more
  <2>7. balance' \in [Accounts -> [Cur -> 0..MaxBalance]] /\ cool' \in [Accounts -> 0..Cooldown]
    BY <1>1, <2>1, <2>2, <2>4, BoundsAssumption
  <2>8. Columns'
    BY <1>2, <2>7, TypesNow DEF DepositInv, Columns
  <2>9. Rows'
    BY <1>1, <1>2, <2>1, InsertedStay DEF DepositInv, Rows
  <2>10. TypeOK'
    BY <1>2, <2>8, <2>9, TypeOKFrom DEF DepositInv
  <2>11. credited' = [credited EXCEPT ![i] = more]
    BY <2>1 DEF more
  <2>12. credited'[i] = more /\ \A j \in Ids \ {i} : credited'[j] = credited[j]
    BY <2>2, <2>11
  <2>13. credited' \in [Ids -> [Cur -> Int]]
    BY <2>2, <2>5, <2>11
  <2>14. \A j \in processed' : \A c \in Cur : credited'[j][c] <= row'[j].amt[c]
    <3>1. \A c \in Cur : credited'[i][c] <= row'[i].amt[c]
      BY <1>2, <2>5, <2>6, <2>12
    <3>2. \A j \in processed : \A c \in Cur : credited[j][c] <= row'[j].amt[c]
      BY <1>2 DEF DepositInv, Credits
    <3>3. \A j \in processed : j \in Ids
      BY DEF DepositInv, TypeOK
    <3> QED
      BY <2>1, <2>12, <3>1, <3>2, <3>3
  <2>15. Credits'
    BY <1>2, <2>1, <2>12, <2>13, <2>14 DEF DepositInv, Credits
  <2>16. Deleting'
    BY <1>1, <1>2, <2>1 DEF Deleting
  <2> QED
    BY <2>9, <2>10, <2>15, <2>16 DEF DepositInv
<1> QED
  BY <1>3, <1>4

LEMMA DeleteStep ==
  ASSUME DepositInv, DeleteDeposit
  PROVE  DepositInv'
<1>1. /\ rows' \subseteq rows /\ todo' \subseteq todo /\ wpc' = "apply"
      /\ UNCHANGED <<gameVars, panelVars, row, nextId>>
  BY DEF DeleteDeposit
<1>2. UNCHANGED <<wallet, gameCool, balance, cool, processed, credited>>
  BY <1>1 DEF gameVars, panelVars
<1>3. Columns' /\ Rows'
  BY <1>1, <1>2, TypesNow, RowsStay DEF DepositInv, Columns
<1>4. TypeOK'
  BY <1>1, <1>3, TypeOKFrom DEF DepositInv
<1>5. Deleting'
  BY <1>1 DEF Deleting
<1> QED
  BY <1>1, <1>2, <1>3, <1>4, <1>5, CreditsStay DEF DepositInv

LEMMA WorkerStep ==
  ASSUME DepositInv, Worker \/ WorkerCrash
  PROVE  DepositInv'
<1>1. CASE ReadBatch
  <2>1. todo' \subseteq rows \cup todo /\ wpc' \in {"idle", "apply"}
    BY <1>1 DEF ReadBatch, workerVars
  <2>2. UNCHANGED <<gameVars, panelVars, depositVars>> /\ Deleting'
    BY <1>1, <2>1 DEF ReadBatch, Deleting
  <2> QED
    BY <2>1, <2>2, WorkerOnly
<1>2. ASSUME NEW i \in Ids, InvalidRow(i)
      PROVE  DepositInv'
  <2>1. AtRow(i) /\ ~Valid(row[i].amt) /\ wpc' = "delete" /\ todo' = todo
        /\ UNCHANGED <<gameVars, panelVars, depositVars>>
    BY <1>2 DEF InvalidRow, GoDelete
  <2>2. Deleting'
    BY <2>1, AtRowFacts DEF Deleting, depositVars
  <2> QED
    BY <2>1, <2>2, WorkerOnly
<1>3. ASSUME NEW i \in Ids, DepositLocked(i)
      PROVE  DepositInv'
  <2>1. AtRow(i) /\ wpc' = "apply" /\ todo' = todo \ {i}
        /\ UNCHANGED <<gameVars, panelVars, depositVars>>
    BY <1>3 DEF DepositLocked, SkipLocked, SkipRow, AtRow
  <2>2. Deleting'
    BY <2>1 DEF Deleting
  <2> QED
    BY <2>1, <2>2, WorkerOnly
<1>4. ASSUME NEW i \in Ids, CreditDeposit(i)
      PROVE  DepositInv'
  <2>1. AtRow(i) /\ Valid(row[i].amt) /\ UNCHANGED <<gameVars, depositVars>>
    BY <1>4 DEF CreditDeposit
  <2>2. CASE Credit(i) /\ (GoDelete \/ SkipRow(i))
    BY <2>1, <2>2, CreditStep
  <2>3. CASE UNCHANGED panelVars /\ SkipRow(i)
    <3>1. Deleting' /\ todo' \subseteq todo /\ wpc' = "apply"
      BY <2>1, <2>3 DEF SkipRow, Deleting, AtRow
    <3> QED
      BY <2>1, <2>3, <3>1, WorkerOnly
  <2> QED
    BY <1>4, <2>2, <2>3 DEF CreditDeposit, RolledBack, RemoveApplied
<1>5. CASE DeleteDeposit
  BY <1>5, DeleteStep
<1>6. CASE RoundDone \/ WorkerCrash
  <2>1. todo' \subseteq todo /\ wpc' = "idle" /\ UNCHANGED <<gameVars, panelVars, depositVars>>
    BY <1>6 DEF RoundDone, WorkerCrash
  <2>2. Deleting'
    BY <2>1 DEF Deleting
  <2> QED
    BY <2>1, <2>2, WorkerOnly
<1> QED
  BY <1>1, <1>2, <1>3, <1>4, <1>5, <1>6 DEF Worker

LEMMA DepositInvStep ==
  ASSUME DepositInv, [Next]_vars
  PROVE  DepositInv'
<1>1. CASE UNCHANGED vars
  <2>1. UNCHANGED <<gameVars, panelVars, depositVars, workerVars>>
    BY <1>1 DEF vars
  <2>2. wpc' \in {"idle", "apply", "delete"} /\ todo' \subseteq todo
    BY <2>1, TypesNow DEF workerVars, DepositInv
  <2>3. Deleting'
    BY <2>1, DeletingStays DEF workerVars, panelVars, depositVars, DepositInv
  <2> QED
    BY <2>1, <2>2, <2>3, WorkerOnly
<1>2. ASSUME NEW a \in Accounts, NEW c \in Cur, NEW n \in 1..MaxDeposit,
             NPCDeposit(a, c, n) \/ NPCDepositLost(a, c, n)
      PROVE  DepositInv'
  <2>1. /\ wallet' \in [Accounts -> [Cur -> Nat]] /\ gameCool' \in [Accounts -> 0..GameCooldown]
        /\ UNCHANGED <<panelVars, workerVars>>
    BY <1>2, TakeTyped DEF NPCDeposit, NPCDepositLost, DepositInv
  <2>2. CASE NPCDeposit(a, c, n)
    <3>1. [Zero EXCEPT ![c] = n] \in [Cur -> Int]
      BY BoundsAssumption DEF Zero
    <3> QED
      BY <2>1, <2>2, <3>1, InsertStep DEF NPCDeposit
  <2>3. CASE NPCDepositLost(a, c, n)
    <3>1. UNCHANGED <<balance, cool, processed, credited, rows, row, nextId, wpc, todo>>
      BY <2>3 DEF NPCDepositLost, panelVars, depositVars, workerVars
    <3>2. Columns' /\ Rows'
      BY <2>1, <3>1, TypesNow, RowsStay DEF DepositInv, Columns
    <3>3. TypeOK'
      BY <3>1, <3>2, TypesNow, TypeOKFrom DEF DepositInv
    <3> QED
      BY <3>1, <3>2, <3>3, CreditsStay, DeletingStays DEF DepositInv
  <2> QED
    BY <1>2, <2>2, <2>3
<1>3. ASSUME NEW a \in Accounts, NEW amt \in StrayAmounts, StrayRow(a, amt)
      PROVE  DepositInv'
  <2>1. /\ InsertRow(a, amt) /\ UNCHANGED <<panelVars, workerVars>>
        /\ wallet' = wallet /\ gameCool' = gameCool
    BY <1>3 DEF StrayRow, gameVars
  <2>2. amt \in [Cur -> Int]
    BY AmountsTyped
  <2>3. wallet' \in [Accounts -> [Cur -> Nat]] /\ gameCool' \in [Accounts -> 0..GameCooldown]
    BY <2>1, TypesNow DEF DepositInv, Columns
  <2> QED
    BY <2>1, <2>2, <2>3, InsertStep
<1> QED
  BY <1>1, <1>2, <1>3, TickStep, WithdrawStep, WorkerStep DEF Next

-----------------------------------------------------------------------------
(* What an account is due                                                  *)

Mine(a) == {i \in processed : row[i].account = a}
Due(a, c) == InitBalance + SumFunction([i \in Mine(a) |-> row[i].amt[c]])

\* The capped sum of AddZenyCapped only stays below what is due because no
\* amount that is credited is negative.
Accounted ==
  /\ withdrawn \in [Accounts -> [Cur -> Nat]]
  /\ \A i \in processed : \A c \in Cur : row[i].amt[c] \in Nat
  /\ BalanceAccounted

LEMMA AccountedAt ==
  BalanceAccounted <=>
    \A a \in Accounts, c \in Cur :
      /\ balance[a][c] + withdrawn[a][c] <= Due(a, c)
      /\ Due(a, c) <= MaxBalance => balance[a][c] + withdrawn[a][c] = Due(a, c)
BY DEF BalanceAccounted, Due, Mine

\* The same of the next state
LEMMA AccountedNext ==
  (\A a \in Accounts, c \in Cur :
     /\ balance'[a][c] + withdrawn'[a][c] <= Due(a, c)'
     /\ Due(a, c)' <= MaxBalance => balance'[a][c] + withdrawn'[a][c] = Due(a, c)')
  => BalanceAccounted'
BY DEF BalanceAccounted, Due, Mine

LEMMA DueSum ==
  ASSUME NEW a, NEW c
  PROVE  Due(a, c) = InitBalance + SumFunctionOnSet([i \in Mine(a) |-> row[i].amt[c]], Mine(a))
<1> DEFINE f == [i \in Mine(a) |-> row[i].amt[c]]
<1>1. DOMAIN f = Mine(a)
  OBVIOUS
<1>2. Due(a, c) = InitBalance + SumFunction(f)
  BY DEF Due
<1> HIDE DEF f
<1>3. SumFunction(f) = SumFunctionOnSet(f, Mine(a))
  BY <1>1 DEF SumFunction, FoldFunction, SumFunctionOnSet
<1> QED
  BY <1>2, <1>3 DEF f

LEMMA MineFinite ==
  ASSUME TypeOK, NEW a
  PROVE  IsFiniteSet(Mine(a))
<1>1. IsFiniteSet(Ids)
  BY FS_Interval, BoundsAssumption DEF Ids
<1>2. Mine(a) \subseteq Ids
  BY DEF TypeOK, Mine
<1> QED
  BY <1>1, <1>2, FS_Subset

LEMMA DueTyped ==
  ASSUME TypeOK, Accounted, NEW a, NEW c \in Cur
  PROVE  Due(a, c) \in Int
<1> DEFINE f == [i \in Mine(a) |-> row[i].amt[c]]
<1>1. \A i \in Mine(a) : f[i] \in Int
  BY DEF Mine, Accounted
<1>2. Due(a, c) = InitBalance + SumFunctionOnSet(f, Mine(a))
  BY DueSum
<1> HIDE DEF f
<1>3. SumFunctionOnSet(f, Mine(a)) \in Int
  BY <1>1, MineFinite, SumInt
<1> QED
  BY <1>2, <1>3, BoundsAssumption

LEMMA InitAccounted == Init => Accounted
<1> SUFFICES ASSUME Init
             PROVE  Accounted
  OBVIOUS
<1>1. processed = {} /\ withdrawn = [a \in Accounts |-> Zero]
      /\ balance = [a \in Accounts |-> [c \in Cur |-> InitBalance]]
  BY DEF Init
<1>2. ASSUME NEW a \in Accounts, NEW c \in Cur
      PROVE  Due(a, c) = InitBalance
  <2> DEFINE f == [i \in Mine(a) |-> row[i].amt[c]]
  <2>1. Mine(a) = {}
    BY <1>1 DEF Mine
  <2>2. Due(a, c) = InitBalance + SumFunctionOnSet(f, Mine(a))
    BY DueSum
  <2> HIDE DEF f
  <2>3. SumFunctionOnSet(f, Mine(a)) = 0
    BY <2>1, SumEmpty
  <2> QED
    BY <2>2, <2>3, BoundsAssumption
<1>3. \A a \in Accounts, c \in Cur : balance[a][c] = InitBalance /\ withdrawn[a][c] = 0
  BY <1>1 DEF Zero
<1>4. BalanceAccounted
  BY <1>2, <1>3, AccountedAt, BoundsAssumption
<1>5. withdrawn \in [Accounts -> [Cur -> Nat]]
  BY <1>1 DEF Zero
<1> QED
  BY <1>1, <1>4, <1>5 DEF Accounted

\* What is due does not change with a row that has not been processed.
LEMMA DueStays ==
  ASSUME NEW a, NEW c, processed' = processed, \A i \in processed : row'[i] = row[i]
  PROVE  Due(a, c)' = Due(a, c)
<1>1. Mine(a)' = Mine(a)
  BY DEF Mine
<1>2. \A i \in Mine(a) : row'[i].amt[c] = row[i].amt[c]
  BY DEF Mine
<1>3. [i \in Mine(a)' |-> row'[i].amt[c]] = [i \in Mine(a) |-> row[i].amt[c]]
  BY <1>1, <1>2
<1> QED
  BY <1>3 DEF Due

LEMMA AccountedStays ==
  ASSUME Accounted, UNCHANGED <<balance, withdrawn, processed>>,
         \A i \in processed : row'[i] = row[i]
  PROVE  Accounted'
<1>1. \A a \in Accounts, c \in Cur : Due(a, c)' = Due(a, c)
  BY DueStays
<1>2. BalanceAccounted'
  BY <1>1, AccountedAt, AccountedNext DEF Accounted
<1> QED
  BY <1>2 DEF Accounted

-----------------------------------------------------------------------------
LEMMA ConsistentFollows == DepositInv => Consistent
<1> SUFFICES ASSUME DepositInv
             PROVE  CreditedOnce
  BY DEF DepositInv, Consistent
<1>1. SUFFICES ASSUME NEW i \in Ids
               PROVE  \/ credited[i] = Zero
                      \/ i < nextId /\ \A c \in Cur : credited[i][c] <= row[i].amt[c]
  BY DEF CreditedOnce
<1>2. CASE i \notin processed
  BY <1>2 DEF DepositInv, Credits
<1>3. CASE i \in processed
  BY <1>3 DEF DepositInv, Credits, Rows, Inserted
<1> QED
  BY <1>2, <1>3

\* CreditDeposit marks a row in the transaction that credits it, so that a row
\* it is given again, after a lost answer, a failed DELETE or a crash, adds
\* nothing: never more arrives than was deposited, and no balance leaves the
\* range of its column, whatever the NPC and other writers insert.
THEOREM CreditedAtMostOnce == Spec => []Consistent
<1>1. Init => DepositInv
  BY InitDepositInv
<1>2. DepositInv /\ [Next]_vars => DepositInv'
  BY DepositInvStep
<1>3. DepositInv => Consistent
  BY ConsistentFollows
<1> QED
  BY <1>1, <1>2, <1>3, PTL DEF Spec

\* drainOnce only deletes what was credited or what never can be: no deposit
\* is dropped, neither by a crash, nor by a failed call, nor by a cooldown.
THEOREM NoDepositDropped == Spec => DeletedMeansProcessed
<1>1. Init => DepositInv
  BY InitDepositInv
<1>2. DepositInv /\ [Next]_vars => DepositInv'
  BY DepositInvStep
<1>3. DepositInv /\ [Next]_vars
        => [\A i \in rows \ rows' : i \in processed \/ ~Valid(row[i].amt)]_vars
  <2> SUFFICES ASSUME DepositInv, Next, NEW i \in rows \ rows'
               PROVE  i \in processed \/ ~Valid(row[i].amt)
    OBVIOUS
  <2>1. DeleteDeposit
    BY DEF Next, Worker, Tick, Withdraw, NPCDeposit, NPCDepositLost, StrayRow, InsertRow, ReadBatch,
       InvalidRow, DepositLocked, CreditDeposit, RoundDone, WorkerCrash, depositVars
  <2>2. wpc = "delete" /\ i = Least(todo)
    BY <2>1 DEF DeleteDeposit
  <2> QED
    BY <2>2 DEF DepositInv, Deleting
<1> QED
  BY <1>1, <1>2, <1>3, PTL DEF Spec, DeletedMeansProcessed

LEMMA WithdrawAccounted ==
  ASSUME DepositInv, Accounted, NEW a \in Accounts, NEW amt \in [Cur -> 0..MaxDeposit],
         Withdraw(a, amt)
  PROVE  Accounted'
<1>1. /\ balance' = [balance EXCEPT ![a] = [c \in Cur |-> balance[a][c] - amt[c]]]
      /\ withdrawn' = [withdrawn EXCEPT ![a] = [c \in Cur |-> withdrawn[a][c] + amt[c]]]
      /\ UNCHANGED <<processed, row>>
  BY DEF Withdraw, depositVars
<1>2. /\ balance \in [Accounts -> [Cur -> 0..MaxBalance]]
      /\ withdrawn \in [Accounts -> [Cur -> Nat]]
      /\ \A c \in Cur : amt[c] \in Nat
  BY BoundsAssumption DEF DepositInv, TypeOK, Accounted
<1>3. [c \in Cur |-> withdrawn[a][c] + amt[c]] \in [Cur -> Nat]
  BY <1>2
<1>4. withdrawn' \in [Accounts -> [Cur -> Nat]]
  BY <1>1, <1>2, <1>3
<1>5. \A b \in Accounts, c \in Cur : Due(b, c)' = Due(b, c)
  BY <1>1, DueStays
<1>6. ASSUME NEW b \in Accounts, NEW c \in Cur
      PROVE  balance'[b][c] + withdrawn'[b][c] = balance[b][c] + withdrawn[b][c]
  <2>1. CASE b = a
    <3>1. balance'[a][c] = balance[a][c] - amt[c] /\ withdrawn'[a][c] = withdrawn[a][c] + amt[c]
      BY <1>1, <1>2
    <3>2. balance[a][c] \in Int /\ withdrawn[a][c] \in Int /\ amt[c] \in Int
      BY <1>2, BoundsAssumption
    <3> QED
      BY <2>1, <3>1, <3>2
  <2>2. CASE b # a
    BY <1>1, <1>2, <2>2
  <2> QED
    BY <2>1, <2>2
<1>7. BalanceAccounted'
  BY <1>5, <1>6, AccountedAt, AccountedNext DEF Accounted
<1> QED
  BY <1>1, <1>4, <1>7 DEF Accounted

\* A row that is marked adds what it holds to what its account is due.
LEMMA DueGrows ==
  ASSUME TypeOK, Accounted, NEW i \in Ids, i \notin processed,
         processed' = processed \cup {i}, UNCHANGED row,
         \A c \in Cur : row[i].amt[c] \in Nat,
         NEW a, NEW c \in Cur
  PROVE  Due(a, c)' = IF a = row[i].account THEN Due(a, c) + row[i].amt[c] ELSE Due(a, c)
<1>1. CASE a # row[i].account
  <2>1. Mine(a)' = Mine(a)
    BY <1>1 DEF Mine
  <2>2. [j \in Mine(a)' |-> row'[j].amt[c]] = [j \in Mine(a) |-> row[j].amt[c]]
    BY <2>1
  <2> QED
    BY <1>1, <2>2 DEF Due
<1>2. CASE a = row[i].account
  <2> DEFINE S == Mine(a)
             f == [j \in S |-> row[j].amt[c]]
             T == S \cup {i}
             g == [j \in T |-> row[j].amt[c]]
  <2>1. Mine(a)' = T /\ i \notin S
    BY <1>2 DEF Mine
  <2>2. Due(a, c) = InitBalance + SumFunctionOnSet(f, S)
    BY DueSum
  <2>3. Due(a, c)' = InitBalance + SumFunction(g)
    BY <2>1 DEF Due
  <2>4. IsFiniteSet(S)
    BY MineFinite
  <2>5. (\A j \in T : g[j] \in Int) /\ (\A j \in S : f[j] = g[j]) /\ g[i] = row[i].amt[c]
    BY DEF Mine, Accounted
  <2>6. DOMAIN g = T
    OBVIOUS
  <2> HIDE DEF S, f, g
  <2>7. SumFunction(g) = SumFunctionOnSet(g, T)
    BY <2>6 DEF SumFunction, FoldFunction, SumFunctionOnSet
  <2>8. SumFunctionOnSet(f, S) = SumFunctionOnSet(g, S)
    BY <2>4, <2>5, SumSame
  <2>9. SumFunctionOnSet(g, T) = SumFunctionOnSet(g, S) + g[i]
    BY <2>1, <2>4, <2>5, SumAdd
  <2>10. SumFunctionOnSet(g, S) \in Int
    BY <2>4, <2>5, SumInt
  <2> QED
    BY <1>2, <2>2, <2>3, <2>5, <2>7, <2>8, <2>9, <2>10, BoundsAssumption
<1> QED
  BY <1>1, <1>2

\* AddZenyCapped keeps what is due to the amount, until it runs into the cap.
LEMMA CappedAccounts ==
  ASSUME NEW n \in 0..MaxBalance, NEW d \in Nat, NEW w \in Nat, NEW due \in Int,
         n + w <= due, due <= MaxBalance => n + w = due
  PROVE  /\ Capped(n, d) + w <= due + d
         /\ due + d <= MaxBalance => Capped(n, d) + w = due + d
BY BoundsAssumption DEF Capped

LEMMA CreditAccounted ==
  ASSUME DepositInv, Accounted, NEW i \in Ids, AtRow(i), Valid(row[i].amt), Credit(i),
         UNCHANGED row
  PROVE  Accounted'
<1> DEFINE a == row[i].account
           amt == row[i].amt
           new == [c \in Cur |-> Capped(balance[a][c], amt[c])]
<1>1. a \in Accounts /\ \A c \in Cur : amt[c] \in Nat
  BY AtRowFacts, ValidAmounts
<1>2. CASE ~FirstTime(i)
  <2>1. UNCHANGED <<balance, withdrawn, processed, row>>
    BY <1>2 DEF Credit, panelVars
  <2> QED
    BY <2>1, AccountedStays
<1>3. CASE FirstTime(i)
  <2>1. /\ processed' = processed \cup {i} /\ i \notin processed
        /\ balance' = [balance EXCEPT ![a] = new]
        /\ withdrawn' = withdrawn
    BY <1>3 DEF Credit, FirstTime
  <2>2. /\ balance \in [Accounts -> [Cur -> 0..MaxBalance]]
        /\ withdrawn \in [Accounts -> [Cur -> Nat]] /\ TypeOK
    BY DEF DepositInv, TypeOK, Accounted
  <2>3. \A b \in Accounts, c \in Cur :
          Due(b, c)' = IF b = a THEN Due(b, c) + amt[c] ELSE Due(b, c)
    BY <1>1, <2>1, <2>2, DueGrows
  <2>4. ASSUME NEW b \in Accounts, NEW c \in Cur
        PROVE  /\ balance'[b][c] + withdrawn'[b][c] <= Due(b, c)'
               /\ Due(b, c)' <= MaxBalance => balance'[b][c] + withdrawn'[b][c] = Due(b, c)'
    <3>1. /\ balance[b][c] + withdrawn[b][c] <= Due(b, c)
          /\ Due(b, c) <= MaxBalance => balance[b][c] + withdrawn[b][c] = Due(b, c)
      BY AccountedAt DEF Accounted
    <3>2. CASE b # a
      <4>1. balance'[b] = balance[b] /\ Due(b, c)' = Due(b, c)
        BY <2>1, <2>2, <2>3, <3>2
      <4> QED
        BY <2>1, <3>1, <4>1
    <3>3. CASE b = a
      <4>1. balance'[b][c] = Capped(balance[b][c], amt[c]) /\ Due(b, c)' = Due(b, c) + amt[c]
        BY <2>1, <2>2, <2>3, <3>3
      <4>2. /\ balance[b][c] \in 0..MaxBalance /\ withdrawn[b][c] \in Nat /\ amt[c] \in Nat
            /\ Due(b, c) \in Int
        BY <1>1, <2>2, DueTyped
      <4> DEFINE n == balance[b][c]
                 d == amt[c]
                 w == withdrawn[b][c]
                 due == Due(b, c)
      <4>3. /\ n \in 0..MaxBalance /\ d \in Nat /\ w \in Nat /\ due \in Int
            /\ n + w <= due /\ (due <= MaxBalance => n + w = due)
        BY <3>1, <4>2
      <4>4. balance'[b][c] = Capped(n, d) /\ Due(b, c)' = due + d /\ withdrawn'[b][c] = w
        BY <2>1, <4>1
      <4> HIDE DEF n, d, w, due
      <4>5. /\ Capped(n, d) + w <= due + d
            /\ due + d <= MaxBalance => Capped(n, d) + w = due + d
        BY <4>3, CappedAccounts
      <4> QED
        BY <4>4, <4>5
    <3> QED
      BY <3>2, <3>3
  <2>5. BalanceAccounted'
    BY <2>4, AccountedNext
  <2>6. \A j \in processed' : \A c \in Cur : row'[j].amt[c] \in Nat
    BY <1>1, <2>1 DEF Accounted
  <2> QED
    BY <2>1, <2>2, <2>5, <2>6 DEF Accounted
<1> QED
  BY <1>2, <1>3

LEMMA AccountedStep ==
  ASSUME DepositInv, Accounted, [Next]_vars
  PROVE  Accounted'
<1>1. CASE UNCHANGED <<balance, withdrawn, processed, row>>
  BY <1>1, AccountedStays
<1>2. ASSUME NEW a \in Accounts, NEW amt \in [Cur -> Int], InsertRow(a, amt), UNCHANGED panelVars
      PROVE  Accounted'
  <2>1. /\ nextId \in Ids /\ row' = [row EXCEPT ![nextId] = [account |-> a, amt |-> amt]]
        /\ UNCHANGED <<balance, withdrawn, processed>>
    BY <1>2 DEF InsertRow, panelVars
  <2>2. nextId \notin processed
    <3>1. processed \subseteq Inserted /\ nextId \in Int
      BY BoundsAssumption DEF DepositInv, Rows, TypeOK
    <3> QED
      BY <3>1 DEF Inserted
  <2>3. \A i \in processed : row'[i] = row[i]
    BY <2>1, <2>2 DEF DepositInv, Rows, TypeOK
  <2> QED
    BY <2>1, <2>3, AccountedStays
<1>3. ASSUME NEW i \in Ids, CreditDeposit(i)
      PROVE  Accounted'
  <2>1. CASE Credit(i)
    BY <1>3, <2>1, CreditAccounted DEF CreditDeposit, depositVars
  <2>2. CASE ~Credit(i)
    BY <1>3, <2>2, <1>1 DEF CreditDeposit, RolledBack, panelVars, depositVars
  <2> QED
    BY <2>1, <2>2
<1>4. ASSUME NEW a \in Accounts, NEW c \in Cur, NEW n \in 1..MaxDeposit, NPCDeposit(a, c, n)
      PROVE  Accounted'
  <2>1. [Zero EXCEPT ![c] = n] \in [Cur -> Int]
    BY AmountsTyped, BoundsAssumption
  <2> QED
    BY <1>2, <1>4, <2>1 DEF NPCDeposit
<1>5. ASSUME NEW a \in Accounts, NEW amt \in StrayAmounts, StrayRow(a, amt)
      PROVE  Accounted'
  BY <1>2, <1>5, AmountsTyped DEF StrayRow
<1>6. ASSUME NEW a \in Accounts, NEW c \in Cur, NEW n \in 1..MaxDeposit, NPCDepositLost(a, c, n)
      PROVE  Accounted'
  BY <1>1, <1>6 DEF NPCDepositLost, panelVars, depositVars
<1>7. CASE Tick \/ WorkerCrash \/ ReadBatch \/ DeleteDeposit \/ RoundDone \/ UNCHANGED vars
  BY <1>1, <1>7 DEF Tick, WorkerCrash, ReadBatch, DeleteDeposit, RoundDone, vars, panelVars, depositVars
<1>8. ASSUME NEW i \in Ids, InvalidRow(i) \/ DepositLocked(i)
      PROVE  Accounted'
  BY <1>1, <1>8 DEF InvalidRow, DepositLocked, panelVars, depositVars
<1> QED
  BY <1>3, <1>4, <1>5, <1>6, <1>7, <1>8, WithdrawAccounted DEF Next, Worker

\* The transaction of CreditDeposit reads the balance under the lock of its row,
\* adds the deposit up to the cap and marks it: an account owns what it started
\* with, every deposit of its own that was processed, less what it withdrew.
THEOREM DepositsAccounted == Spec => []BalanceAccounted
<1>1. Init => DepositInv /\ Accounted
  BY InitDepositInv, InitAccounted
<1>2. DepositInv /\ Accounted /\ [Next]_vars => (DepositInv /\ Accounted)'
  BY DepositInvStep, AccountedStep
<1>3. Accounted => BalanceAccounted
  BY DEF Accounted
<1> QED
  BY <1>1, <1>2, <1>3, PTL DEF Spec
=============================================================================
