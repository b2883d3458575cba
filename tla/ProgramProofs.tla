---------------------------- MODULE ProgramProofs ----------------------------
(***************************************************************************)
(* Proofs about the programs that stand alone, for the specification of    *)
(* MCPrograms in which one of them runs.                                   *)
(***************************************************************************)
EXTENDS MCPrograms, QueueLemmas, FiniteSetTheorems

-----------------------------------------------------------------------------
(* The dining philosophers                                                 *)

Ph == Table!Philosophers
PhState == {"Thinking", "Hungry", "Eating"}
PhAt == {"thinking", "waiting", "signalled", "eating"}

(* What a call of the monitor may leave behind.                            *)
MonitorStates == [state : [Ph -> PhState], isBusy : [Ph -> BOOLEAN], pc : [Ph -> PhAt]]

(* The philosopher could eat.                                              *)
CanEat(m, i) ==
  /\ m.state[Table!Left(i)] # "Eating"
  /\ m.state[i] = "Hungry"
  /\ m.state[Table!Right(i)] # "Eating"

(* The philosophers sit in a ring of five.                                 *)
LEMMA Ring ==
  ASSUME NEW i \in Ph
  PROVE  /\ Table!Left(i) \in Ph /\ Table!Right(i) \in Ph
         /\ Table!Left(i) # i /\ Table!Right(i) # i /\ Table!Left(i) # Table!Right(i)
         /\ Table!Left(Table!Right(i)) = i /\ Table!Right(Table!Left(i)) = i
  <1>1. i \in {0, 1, 2, 3, 4}
    BY DEF Ph, Table!Philosophers
  <1>2. CASE i = 0
    BY <1>2 DEF Ph, Table!Philosophers, Table!Left, Table!Right
  <1>3. CASE i = 1
    BY <1>3 DEF Ph, Table!Philosophers, Table!Left, Table!Right
  <1>4. CASE i = 2
    BY <1>4 DEF Ph, Table!Philosophers, Table!Left, Table!Right
  <1>5. CASE i = 3
    BY <1>5 DEF Ph, Table!Philosophers, Table!Left, Table!Right
  <1>6. CASE i = 4
    BY <1>6 DEF Ph, Table!Philosophers, Table!Left, Table!Right
  <1>7. QED BY <1>1, <1>2, <1>3, <1>4, <1>5, <1>6

(* Of five, two are not neighbours of a philosopher, and these two are     *)
(* neighbours of each other.                                               *)
LEMMA RingOfFive ==
  ASSUME NEW i \in Ph
  PROVE  LET l == Table!Left(i)  r == Table!Right(i)
             l2 == Table!Left(l)  r2 == Table!Right(r)
         IN  /\ Ph = {i, l, r, l2, r2}
             /\ l2 \notin {i, l, r, r2} /\ r2 \notin {i, l, r}
             /\ Table!Right(r2) = l2 /\ Table!Left(l2) = r2
  <1>1. i \in {0, 1, 2, 3, 4}
    BY DEF Ph, Table!Philosophers
  <1>2. CASE i = 0
    BY <1>2 DEF Ph, Table!Philosophers, Table!Left, Table!Right
  <1>3. CASE i = 1
    BY <1>3 DEF Ph, Table!Philosophers, Table!Left, Table!Right
  <1>4. CASE i = 2
    BY <1>4 DEF Ph, Table!Philosophers, Table!Left, Table!Right
  <1>5. CASE i = 3
    BY <1>5 DEF Ph, Table!Philosophers, Table!Left, Table!Right
  <1>6. CASE i = 4
    BY <1>6 DEF Ph, Table!Philosophers, Table!Left, Table!Right
  <1>7. QED BY <1>1, <1>2, <1>3, <1>4, <1>5, <1>6

(* What test(i) does: a Hungry philosopher between neighbours that do not  *)
(* eat becomes Eating and, if it waits, is signalled.                      *)
LEMMA TestEffect ==
  ASSUME NEW m \in MonitorStates, NEW i \in Ph
  PROVE  /\ Table!Test(m, i) \in MonitorStates
         /\ Table!Test(m, i).state =
              IF CanEat(m, i) THEN [m.state EXCEPT ![i] = "Eating"] ELSE m.state
         /\ Table!Test(m, i).isBusy =
              IF CanEat(m, i) /\ m.pc[i] = "waiting" THEN [m.isBusy EXCEPT ![i] = FALSE]
              ELSE m.isBusy
         /\ Table!Test(m, i).pc =
              IF CanEat(m, i) /\ m.pc[i] = "waiting" THEN [m.pc EXCEPT ![i] = "signalled"]
              ELSE m.pc
  <1> DEFINE eats == [m EXCEPT !.state[i] = "Eating"]
  <1>1. /\ m.state \in [Ph -> PhState] /\ m.isBusy \in [Ph -> BOOLEAN] /\ m.pc \in [Ph -> PhAt]
    BY DEF MonitorStates
  <1>2. /\ eats.state = [m.state EXCEPT ![i] = "Eating"]
        /\ eats.isBusy = m.isBusy /\ eats.pc = m.pc /\ eats \in MonitorStates
    BY DEF MonitorStates, PhState
  <1>3. CASE ~CanEat(m, i)
    BY <1>1, <1>3 DEF Table!Test, CanEat
  <1>4. CASE CanEat(m, i)
    <2>1. Table!Test(m, i) = Table!Signal(eats, i)
      BY <1>4 DEF Table!Test, CanEat
    <2> HIDE DEF eats
    <2>2. CASE m.pc[i] # "waiting"
      BY <1>2, <1>4, <2>1, <2>2 DEF Table!Signal
    <2>3. CASE m.pc[i] = "waiting"
      <3>1. Table!Test(m, i) = [eats EXCEPT !.pc[i] = "signalled", !.isBusy[i] = FALSE]
        BY <1>2, <2>1, <2>3 DEF Table!Signal
      <3>2. Table!Test(m, i) =
              [state |-> eats.state, isBusy |-> [eats.isBusy EXCEPT ![i] = FALSE],
               pc |-> [eats.pc EXCEPT ![i] = "signalled"]]
        BY <1>2, <3>1 DEF MonitorStates
      <3>3. /\ Table!Test(m, i).state = eats.state
            /\ Table!Test(m, i).isBusy = [eats.isBusy EXCEPT ![i] = FALSE]
            /\ Table!Test(m, i).pc = [eats.pc EXCEPT ![i] = "signalled"]
        BY <3>2
      <3>4. Table!Test(m, i) \in MonitorStates
        <4>1. /\ eats.state \in [Ph -> PhState]
              /\ [eats.isBusy EXCEPT ![i] = FALSE] \in [Ph -> BOOLEAN]
              /\ [eats.pc EXCEPT ![i] = "signalled"] \in [Ph -> PhAt]
          BY <1>2 DEF MonitorStates, PhAt
        <4>2. QED BY <3>2, <4>1 DEF MonitorStates
      <3>5. QED BY <1>2, <1>4, <2>3, <3>3, <3>4
    <2>4. QED BY <2>2, <2>3
  <1>5. QED BY <1>3, <1>4

(* Where a philosopher is in the monitor agrees with its state and with    *)
(* its condition; neighbours do not eat together; and who is Hungry has a  *)
(* neighbour that eats.                                                    *)
TableInv ==
  /\ state \in [Ph -> PhState] /\ isBusy \in [Ph -> BOOLEAN] /\ pc \in [Ph -> PhAt]
  /\ \A i \in Ph :
       /\ pc[i] = "thinking" <=> state[i] = "Thinking"
       /\ pc[i] = "waiting" <=> state[i] = "Hungry"
       /\ isBusy[i] = (pc[i] # "signalled")
       /\ state[i] = "Eating" => state[Table!Right(i)] # "Eating"
       /\ state[i] = "Hungry" => "Eating" \in {state[Table!Left(i)], state[Table!Right(i)]}

(* The monitor as it stands is one of its states.                          *)
LEMMA MonitorNow ==
  ASSUME TableInv
  PROVE  /\ Table!Monitor \in MonitorStates
         /\ Table!Monitor.state = state /\ Table!Monitor.isBusy = isBusy
         /\ Table!Monitor.pc = pc
  BY DEF TableInv, MonitorStates, Table!Monitor

(* pickup(i): the philosopher eats at once, or waits for a neighbour.      *)
LEMMA PickUpStep ==
  ASSUME TableInv, NEW i \in Ph, Table!PickUp(i)
  PROVE  TableInv'
  <1> DEFINE l == Table!Left(i)
             r == Table!Right(i)
             hungry == [Table!Monitor EXCEPT !.state[i] = "Hungry"]
             m == Table!Test(hungry, i)
             can == state[l] # "Eating" /\ state[r] # "Eating"
  <1>1. /\ l \in Ph /\ r \in Ph /\ l # i /\ r # i /\ Table!Right(l) = i /\ Table!Left(r) = i
    BY Ring
  <1>2. pc[i] = "thinking" /\ state[i] = "Thinking" /\ isBusy[i] = TRUE
    BY DEF Table!PickUp, TableInv
  <1>3. /\ hungry \in MonitorStates /\ hungry.isBusy = isBusy /\ hungry.pc = pc
        /\ hungry.state = [state EXCEPT ![i] = "Hungry"]
    BY MonitorNow DEF MonitorStates, PhState
  <1> HIDE DEF hungry
  <1>4. CanEat(hungry, i) <=> can
    <2>1. hungry.state[i] = "Hungry" /\ hungry.state[l] = state[l] /\ hungry.state[r] = state[r]
      BY <1>1, <1>3 DEF TableInv
    <2>2. QED BY <2>1 DEF CanEat
  <1>5. /\ m.isBusy = isBusy /\ m.pc = pc /\ m \in MonitorStates
        /\ m.state = [state EXCEPT ![i] = IF can THEN "Eating" ELSE "Hungry"]
    <2>1. hungry.pc[i] # "waiting"
      BY <1>2, <1>3
    <2>2. /\ m \in MonitorStates /\ m.isBusy = hungry.isBusy /\ m.pc = hungry.pc
          /\ m.state = IF can THEN [hungry.state EXCEPT ![i] = "Eating"] ELSE hungry.state
      BY <1>3, <1>4, <2>1, TestEffect
    <2>3. QED BY <1>3, <2>2 DEF TableInv
  <1>6. /\ state' = m.state
        /\ isBusy' = [m.isBusy EXCEPT ![i] = IF m.state[i] = "Hungry" THEN TRUE ELSE @]
        /\ pc' = [m.pc EXCEPT ![i] = IF m.state[i] = "Hungry" /\ isBusy[i]
                                     THEN "waiting" ELSE "eating"]
    <2> HIDE DEF m
    <2>1. m.state \in [Ph -> PhState] /\ m.isBusy \in [Ph -> BOOLEAN] /\ m.pc \in [Ph -> PhAt]
      BY <1>5 DEF MonitorStates
    <2> USE DEF m, hungry
    <2>2. QED BY <1>5, <2>1 DEF Table!PickUp, Table!Becomes, MonitorStates
  <1> HIDE DEF m, hungry, l, r, can
  <1>7. m.state[i] = (IF can THEN "Eating" ELSE "Hungry")
    BY <1>5 DEF TableInv
  <1>8. /\ state' = [state EXCEPT ![i] = IF can THEN "Eating" ELSE "Hungry"]
        /\ pc' = [pc EXCEPT ![i] = IF can THEN "eating" ELSE "waiting"]
        /\ isBusy' = isBusy
    BY <1>2, <1>5, <1>6, <1>7 DEF TableInv
  <1>9. /\ state' \in [Ph -> PhState] /\ isBusy' \in [Ph -> BOOLEAN] /\ pc' \in [Ph -> PhAt]
    BY <1>8 DEF TableInv, PhState, PhAt
  <1>10. ASSUME NEW j \in Ph
         PROVE  /\ pc'[j] = "thinking" <=> state'[j] = "Thinking"
                /\ pc'[j] = "waiting" <=> state'[j] = "Hungry"
                /\ isBusy'[j] = (pc'[j] # "signalled")
                /\ state'[j] = "Eating" => state'[Table!Right(j)] # "Eating"
                /\ state'[j] = "Hungry" =>
                     "Eating" \in {state'[Table!Left(j)], state'[Table!Right(j)]}
    <2>1. /\ Table!Left(j) \in Ph /\ Table!Right(j) \in Ph
          /\ Table!Left(j) # j /\ Table!Right(j) # j
          /\ Table!Left(Table!Right(j)) = j /\ Table!Right(Table!Left(j)) = j
      BY Ring
    <2>2. /\ pc'[j] = "thinking" <=> state'[j] = "Thinking"
          /\ pc'[j] = "waiting" <=> state'[j] = "Hungry"
          /\ isBusy'[j] = (pc'[j] # "signalled")
      BY <1>2, <1>8 DEF TableInv
    <2>3. state'[j] = "Eating" => state'[Table!Right(j)] # "Eating"
      BY <1>1, <1>8, <2>1 DEF TableInv, l, r, can
    <2>4. state'[j] = "Hungry" =>
            "Eating" \in {state'[Table!Left(j)], state'[Table!Right(j)]}
      BY <1>1, <1>2, <1>8, <2>1 DEF TableInv, l, r, can
    <2>5. QED BY <2>2, <2>3, <2>4
  <1>11. QED BY <1>9, <1>10 DEF TableInv

(* The rest of Wait: whoever is signalled has been made Eating.            *)
LEMMA WaitReturnsStep ==
  ASSUME TableInv, NEW i \in Ph, Table!WaitReturns(i)
  PROVE  TableInv'
  <1>1. pc[i] = "signalled" /\ isBusy[i] = FALSE /\ state[i] = "Eating"
    BY DEF Table!WaitReturns, TableInv, PhState
  <1>2. /\ state' = state /\ isBusy' = [isBusy EXCEPT ![i] = TRUE]
        /\ pc' = [pc EXCEPT ![i] = "eating"]
    BY <1>1, MonitorNow DEF Table!WaitReturns, Table!Becomes, Table!Monitor
  <1>3. isBusy' \in [Ph -> BOOLEAN] /\ pc' \in [Ph -> PhAt]
    BY <1>2 DEF TableInv, PhAt
  <1>4. \A j \in Ph : /\ pc'[j] = "thinking" <=> state'[j] = "Thinking"
                      /\ pc'[j] = "waiting" <=> state'[j] = "Hungry"
                      /\ isBusy'[j] = (pc'[j] # "signalled")
    BY <1>1, <1>2 DEF TableInv
  <1>5. QED BY <1>2, <1>3, <1>4 DEF TableInv

(* putdown(i): each neighbour that can eat now is made to.                 *)
LEMMA PutDownStep ==
  ASSUME TableInv, NEW i \in Ph, Table!PutDown(i)
  PROVE  TableInv'
  <1> DEFINE l == Table!Left(i)
             r == Table!Right(i)
             l2 == Table!Left(l)
             r2 == Table!Right(r)
             thinking == [Table!Monitor EXCEPT !.state[i] = "Thinking"]
             left == Table!Test(thinking, l)
             tested == Table!Test(left, r)
             canL == state[l] = "Hungry" /\ state[l2] # "Eating"
             canR == state[r] = "Hungry" /\ state[r2] # "Eating"
  <1>1. /\ l \in Ph /\ r \in Ph /\ l2 \in Ph /\ r2 \in Ph
        /\ i # l /\ i # r /\ l # r /\ l2 # i /\ l2 # l /\ l2 # r /\ l2 # r2
        /\ r2 # i /\ r2 # l /\ r2 # r /\ Ph = {i, l, r, l2, r2}
    BY Ring, RingOfFive
  <1>2. /\ Table!Right(l) = i /\ Table!Left(r) = i /\ Table!Right(l2) = l
        /\ Table!Left(r2) = r /\ Table!Right(r2) = l2 /\ Table!Left(l2) = r2
    BY Ring, RingOfFive
  <1>3. pc[i] = "eating" /\ state[i] = "Eating" /\ state[l] # "Eating" /\ state[r] # "Eating"
    <2>1. pc[i] = "eating" /\ state[i] = "Eating"
      BY DEF Table!PutDown, TableInv, PhState
    <2>2. QED BY <1>1, <1>2, <2>1 DEF TableInv
  <1>4. /\ thinking \in MonitorStates /\ thinking.isBusy = isBusy /\ thinking.pc = pc
        /\ thinking.state = [state EXCEPT ![i] = "Thinking"]
    BY MonitorNow DEF MonitorStates, PhState
  <1>t. state \in [Ph -> PhState] /\ isBusy \in [Ph -> BOOLEAN] /\ pc \in [Ph -> PhAt]
    BY DEF TableInv
  <1>p. (pc[l] = "waiting" <=> state[l] = "Hungry") /\ (pc[r] = "waiting" <=> state[r] = "Hungry")
    BY <1>1 DEF TableInv
  <1>5. /\ state' = tested.state /\ isBusy' = tested.isBusy
        /\ pc' = [tested.pc EXCEPT ![i] = "thinking"]
    <2> HIDE DEF tested
    <2>1. Table!Becomes([tested EXCEPT !.pc[i] = "thinking"])
      BY DEF Table!PutDown, tested
    <2>2. tested \in MonitorStates
      BY <1>1, <1>4, TestEffect DEF tested
    <2>3. QED BY <2>1, <2>2 DEF Table!Becomes, MonitorStates
  <1> HIDE DEF thinking
  <1>6. /\ left \in MonitorStates
        /\ left.state = [state EXCEPT ![i] = "Thinking", ![l] = IF canL THEN "Eating" ELSE @]
        /\ left.isBusy = [isBusy EXCEPT ![l] = IF canL THEN FALSE ELSE @]
        /\ left.pc = [pc EXCEPT ![l] = IF canL THEN "signalled" ELSE @]
    <2>1. CanEat(thinking, l) <=> canL
      <3>1. /\ thinking.state[l] = state[l] /\ thinking.state[l2] = state[l2]
            /\ thinking.state[i] = "Thinking"
        BY <1>1, <1>4, <1>t
      <3>2. QED BY <1>2, <3>1 DEF CanEat
    <2>2. canL => thinking.pc[l] = "waiting"
      BY <1>4, <1>p
    <2>3. /\ left \in MonitorStates
          /\ left.state = IF canL THEN [thinking.state EXCEPT ![l] = "Eating"]
                          ELSE thinking.state
          /\ left.isBusy = IF canL THEN [thinking.isBusy EXCEPT ![l] = FALSE]
                           ELSE thinking.isBusy
          /\ left.pc = IF canL THEN [thinking.pc EXCEPT ![l] = "signalled"] ELSE thinking.pc
      BY <1>1, <1>4, <2>1, <2>2, TestEffect
    <2> HIDE DEF left, l, canL
    <2>4. QED BY <1>1, <1>4, <1>t, <2>3
  <1> HIDE DEF left
  <1>7. /\ tested \in MonitorStates
        /\ tested.state = [left.state EXCEPT ![r] = IF canR THEN "Eating" ELSE @]
        /\ tested.isBusy = [left.isBusy EXCEPT ![r] = IF canR THEN FALSE ELSE @]
        /\ tested.pc = [left.pc EXCEPT ![r] = IF canR THEN "signalled" ELSE @]
    <2>1. CanEat(left, r) <=> canR
      <3>1. /\ left.state[r] = state[r] /\ left.state[r2] = state[r2]
            /\ left.state[i] = "Thinking"
        BY <1>1, <1>6, <1>t
      <3>2. QED BY <1>2, <3>1 DEF CanEat
    <2>2. canR => left.pc[r] = "waiting"
      BY <1>1, <1>6, <1>t, <1>p
    <2>3. /\ tested \in MonitorStates
          /\ tested.state = IF canR THEN [left.state EXCEPT ![r] = "Eating"] ELSE left.state
          /\ tested.isBusy = IF canR THEN [left.isBusy EXCEPT ![r] = FALSE] ELSE left.isBusy
          /\ tested.pc = IF canR THEN [left.pc EXCEPT ![r] = "signalled"] ELSE left.pc
      BY <1>1, <1>6, <2>1, <2>2, TestEffect
    <2>4. left.state \in [Ph -> PhState] /\ left.isBusy \in [Ph -> BOOLEAN]
          /\ left.pc \in [Ph -> PhAt]
      BY <1>6 DEF MonitorStates
    <2> HIDE DEF tested, r, canR
    <2>5. QED BY <1>1, <2>3, <2>4
  <1> HIDE DEF tested, l, r, l2, r2, canL, canR
  <1>8. /\ state'[i] = "Thinking" /\ state'[l2] = state[l2] /\ state'[r2] = state[r2]
        /\ state'[l] = (IF canL THEN "Eating" ELSE state[l])
        /\ state'[r] = (IF canR THEN "Eating" ELSE state[r])
    BY <1>1, <1>5, <1>6, <1>7, <1>t
  <1>9. /\ pc'[i] = "thinking" /\ pc'[l2] = pc[l2] /\ pc'[r2] = pc[r2]
        /\ pc'[l] = (IF canL THEN "signalled" ELSE pc[l])
        /\ pc'[r] = (IF canR THEN "signalled" ELSE pc[r])
    BY <1>1, <1>5, <1>6, <1>7, <1>t
  <1>10. /\ isBusy'[i] = isBusy[i] /\ isBusy'[l2] = isBusy[l2] /\ isBusy'[r2] = isBusy[r2]
         /\ isBusy'[l] = (IF canL THEN FALSE ELSE isBusy[l])
         /\ isBusy'[r] = (IF canR THEN FALSE ELSE isBusy[r])
    <2>1. isBusy' = tested.isBusy /\ isBusy \in [Ph -> BOOLEAN]
      BY <1>5, <1>t
    <2>2. /\ left.isBusy \in [Ph -> BOOLEAN]
          /\ left.isBusy[l] = (IF canL THEN FALSE ELSE isBusy[l])
          /\ \A j \in Ph : j # l => left.isBusy[j] = isBusy[j]
      BY <1>1, <1>6, <2>1
    <2>3. /\ tested.isBusy[r] = (IF canR THEN FALSE ELSE left.isBusy[r])
          /\ \A j \in Ph : j # r => tested.isBusy[j] = left.isBusy[j]
      BY <1>1, <1>7, <2>2
    <2>4. QED BY <1>1, <2>1, <2>2, <2>3
  <1>11. state' \in [Ph -> PhState] /\ isBusy' \in [Ph -> BOOLEAN] /\ pc' \in [Ph -> PhAt]
    <2>1. /\ tested.state \in [Ph -> PhState] /\ tested.isBusy \in [Ph -> BOOLEAN]
          /\ tested.pc \in [Ph -> PhAt]
      BY <1>7 DEF MonitorStates
    <2>2. QED BY <1>5, <2>1 DEF PhAt
  <1>12. \A j \in Ph : /\ pc'[j] = "thinking" <=> state'[j] = "Thinking"
                       /\ pc'[j] = "waiting" <=> state'[j] = "Hungry"
    BY <1>1, <1>8, <1>9 DEF TableInv, canL, canR
  <1>13. \A j \in Ph : isBusy'[j] = (pc'[j] # "signalled")
    <2>1. \A j \in Ph : isBusy[j] = (pc[j] # "signalled")
      BY DEF TableInv
    <2>2. isBusy'[i] = (pc'[i] # "signalled")
      <3>1. isBusy[i] = TRUE
        BY <1>3, <2>1
      <3>2. QED BY <1>9, <1>10, <3>1
    <2>3. isBusy'[l] = (pc'[l] # "signalled")
      <3>1. CASE canL
        BY <1>9, <1>10, <3>1
      <3>2. CASE ~ canL
        BY <1>1, <1>9, <1>10, <2>1, <3>2
      <3>3. QED BY <3>1, <3>2
    <2>4. isBusy'[r] = (pc'[r] # "signalled")
      <3>1. CASE canR
        BY <1>9, <1>10, <3>1
      <3>2. CASE ~ canR
        BY <1>1, <1>9, <1>10, <2>1, <3>2
      <3>3. QED BY <3>1, <3>2
    <2>5. isBusy'[l2] = (pc'[l2] # "signalled") /\ isBusy'[r2] = (pc'[r2] # "signalled")
      BY <1>1, <1>9, <1>10, <2>1
    <2>6. QED BY <1>1, <2>2, <2>3, <2>4, <2>5
  <1>14. \A j \in Ph : state'[j] = "Eating" => state'[Table!Right(j)] # "Eating"
    <2>1. Table!Right(i) = r /\ Table!Right(r) = r2
      BY DEF r, r2
    <2>2. /\ state[r2] = "Eating" => state[l2] # "Eating"
          /\ state[l2] = "Eating" => state[l] # "Eating"
          /\ state[r] = "Eating" => state[r2] # "Eating"
      BY <1>1, <1>2, <2>1 DEF TableInv
    <2>3. QED BY <1>1, <1>2, <1>3, <1>8, <2>1, <2>2 DEF canL, canR
  <1>15. \A j \in Ph : state'[j] = "Hungry" =>
           "Eating" \in {state'[Table!Left(j)], state'[Table!Right(j)]}
    <2>1. Table!Right(i) = r /\ Table!Right(r) = r2 /\ Table!Left(i) = l /\ Table!Left(l) = l2
      BY DEF r, r2, l, l2
    <2>2. /\ state[r2] = "Hungry" => "Eating" \in {state[r], state[l2]}
          /\ state[l2] = "Hungry" => "Eating" \in {state[r2], state[l]}
      BY <1>1, <1>2 DEF TableInv
    <2>3. QED BY <1>1, <1>2, <1>3, <1>8, <2>1, <2>2 DEF canL, canR
  <1>16. QED BY <1>11, <1>12, <1>13, <1>14, <1>15 DEF TableInv

(* The table of the program that runs stays as it must be.                 *)
LEMMA TableInvariant == Spec => [](program = "dining" => TableInv)
  <1> DEFINE Inv == program = "dining" => TableInv
  <1>1. Init => Inv
    <2> SUFFICES ASSUME Init, program = "dining" PROVE TableInv
      OBVIOUS
    <2>1. Table!Init
      BY DEF Init
    <2>2. /\ state = [i \in Ph |-> "Thinking"] /\ isBusy = [i \in Ph |-> TRUE]
          /\ pc = [i \in Ph |-> "thinking"]
      BY <2>1 DEF Table!Init, Ph
    <2>3. \A i \in Ph : Table!Right(i) \in Ph
      BY Ring
    <2>4. QED BY <2>2, <2>3 DEF TableInv, PhState, PhAt
  <1>2. Inv /\ [Next]_vars => Inv'
    <2> SUFFICES ASSUME Inv, [Next]_vars, program' = "dining" PROVE TableInv'
      OBVIOUS
    <2>1. CASE UNCHANGED vars
      BY <2>1 DEF vars, dining, TableInv
    <2>2. CASE Run
      <3>1. program = "dining" /\ TableInv
        BY <2>2 DEF Run
      <3>2. Philosophers
        BY <2>2, <3>1 DEF Run, Potato, Monkeys, Keyboard
      <3>3. \/ \E i \in Ph : Table!PickUp(i) \/ Table!WaitReturns(i) \/ Table!PutDown(i)
            \/ UNCHANGED <<state, isBusy, pc>>
        BY <3>2 DEF Philosophers, Table!Next, Table!MainFinish, Table!Finish, Ph
      <3>4. CASE UNCHANGED <<state, isBusy, pc>>
        BY <3>1, <3>4 DEF TableInv
      <3>5. QED BY <3>1, <3>3, <3>4, PickUpStep, WaitReturnsStep, PutDownStep
    <2>3. CASE Over
      BY <2>1, <2>3 DEF Over
    <2>4. QED BY <2>1, <2>2, <2>3 DEF Next
  <1>3. QED BY <1>1, <1>2, PTL DEF Spec

(***************************************************************************)
(* Dining.ForksRight, for any number of rounds: whoever returns from       *)
(* pickup is Eating, neighbours never eat together, and whoever is Hungry  *)
(* waits and has a neighbour that eats (diningph.cc, with its single Wait).*)
(***************************************************************************)
THEOREM ProgramsPhilosophersSafe == Spec => []PhilosophersSafe
  <1>1. TableInv => Table!ForksRight
    BY DEF TableInv, Table!ForksRight, Ph, PhState
  <1>2. (program = "dining" => TableInv) => PhilosophersSafe
    BY <1>1 DEF PhilosophersSafe
  <1>3. QED BY <1>2, TableInvariant, PTL

-----------------------------------------------------------------------------
(* The console                                                             *)

Chars == {Typed[i] : i \in DOMAIN Typed}

(* The character that ConsoleTest has in hand.                             *)
Hand == IF pc = "put" THEN <<ch>> ELSE << >>

(* The input, from where its characters are.                               *)
Whole(shown, hand, buffered, coming) == shown \o hand \o buffered \o coming

(* A buffered character is counted by readAvail or was just waited for; a  *)
(* write that is not waited for yet is under way or counted by writeDone.  *)
EchoInv ==
  /\ keyboard \in Seq(Chars) /\ incoming \in Seq(Chars) /\ display \in Seq(Chars)
  /\ ch \in Chars /\ putBusy \in BOOLEAN /\ readAvail \in Nat /\ writeDone \in Nat
  /\ pc \in {"read", "get", "put", "write", "gone"}
  /\ Len(incoming) = readAvail + (IF pc = "get" THEN 1 ELSE 0) /\ Len(incoming) <= 1
  /\ pc # "write" => ~ putBusy /\ writeDone = 0
  /\ pc = "write" /\ putBusy => writeDone = 0
  /\ pc = "write" /\ ~ putBusy => writeDone = 1
  /\ Whole(display, Hand, incoming, keyboard) = Typed

(* A character that moves on stays in its place in the input: into the     *)
(* buffer, or from the buffer in hand.                                     *)
LEMMA HeadMoves ==
  ASSUME NEW S, NEW d \in Seq(S), NEW h \in Seq(S), NEW k \in Seq(S), k # << >>
  PROVE  Whole(d, h, <<Head(k)>>, Tail(k)) = Whole(d, h, << >>, k)
  <1>1. d \o h \in Seq(S) /\ (d \o h) \o << >> = d \o h
    BY ConcatProperties, ConcatEmptySeq
  <1>2. /\ <<Head(k)>> \in Seq(S) /\ Tail(k) \in Seq(S)
        /\ <<Head(k)>> \o Tail(k) = k
    BY HeadThenTail
  <1>3. ((d \o h) \o <<Head(k)>>) \o Tail(k) = (d \o h) \o (<<Head(k)>> \o Tail(k))
    BY <1>1, <1>2, ConcatAssociative
  <1>4. QED BY <1>1, <1>2, <1>3, Zenon DEF Whole

(* Taking what is in the buffer keeps the whole input.                     *)
LEMMA BufferTaken ==
  ASSUME NEW S, NEW d \in Seq(S), NEW h \in Seq(S), NEW k
  PROVE  Whole(d, h, << >>, k) = Whole(d, << >>, h, k)
  <1>1. d \o h \in Seq(S) /\ d \o << >> = d /\ (d \o h) \o << >> = d \o h
    BY ConcatProperties, ConcatEmptySeq
  <1>2. QED BY <1>1, Zenon DEF Whole

(* At first the whole input is still to come.                              *)
LEMMA AllToCome ==
  ASSUME NEW S, NEW k \in Seq(S)
  PROVE  Whole(<< >>, << >>, << >>, k) = k
  <1>1. << >> \o << >> = << >> /\ << >> \o k = k /\ << >> \in Seq(S)
    BY ConcatEmptySeq
  <1>2. QED BY <1>1, Zenon DEF Whole

(* Console::CheckCharAvail moves a character to the buffer.                *)
LEMMA CheckCharAvailStep ==
  ASSUME EchoInv, Echo!CheckCharAvail
  PROVE  EchoInv'
  <1>1. /\ incoming = << >> /\ keyboard # << >> /\ keyboard \in Seq(Chars)
        /\ incoming' = <<Head(keyboard)>> /\ keyboard' = Tail(keyboard)
        /\ readAvail' = readAvail + 1
        /\ UNCHANGED <<putBusy, writeDone, display, ch, pc>>
    BY DEF EchoInv, Echo!CheckCharAvail
  <1>2. keyboard' \in Seq(Chars) /\ incoming' \in Seq(Chars)
    BY <1>1, HeadThenTail
  <1>3. readAvail = 0 /\ pc # "get" /\ Len(incoming') = 1
    BY <1>1 DEF EchoInv
  <1>4. Hand' = Hand /\ Hand \in Seq(Chars) /\ display \in Seq(Chars)
    BY <1>1 DEF Hand, EchoInv
  <1>5. Whole(display', Hand', incoming', keyboard') = Typed
    BY <1>1, <1>4, HeadMoves DEF EchoInv
  <1>6. QED BY <1>1, <1>2, <1>3, <1>5 DEF EchoInv

(* GetChar takes the buffered character in hand.                           *)
LEMMA GetCharStep ==
  ASSUME EchoInv, Echo!GetChar
  PROVE  EchoInv'
  <1>1. /\ pc = "get" /\ pc' = "put" /\ incoming' = << >>
        /\ UNCHANGED <<keyboard, putBusy, readAvail, writeDone, display>>
        /\ ch' = IF incoming = << >> THEN Echo!EOF ELSE Head(incoming)
    BY DEF Echo!GetChar
  <1>2. Len(incoming) = 1 /\ readAvail = 0 /\ incoming \in Seq(Chars)
    BY <1>1 DEF EchoInv
  <1>3. incoming # << >> /\ ch' = Head(incoming) /\ ch' \in Chars /\ incoming = <<ch'>>
    BY <1>1, <1>2
  <1>4. Hand' = incoming /\ Hand = << >>
    BY <1>1, <1>3 DEF Hand
  <1>5. Whole(display', Hand', incoming', keyboard') = Typed
    <2>1. display \in Seq(Chars) /\ keyboard \in Seq(Chars)
      BY DEF EchoInv
    <2>2. Whole(display, incoming, << >>, keyboard) = Whole(display, << >>, incoming, keyboard)
      BY <1>2, <2>1, BufferTaken
    <2>3. QED BY <1>1, <1>4, <2>2 DEF EchoInv
  <1>6. QED BY <1>1, <1>2, <1>3, <1>5 DEF EchoInv

(* PutChar displays it.                                                    *)
LEMMA PutCharStep ==
  ASSUME EchoInv, Echo!PutChar
  PROVE  EchoInv'
  <1>1. /\ pc = "put" /\ pc' = "write" /\ ~ putBusy /\ putBusy' = TRUE
        /\ display' = Append(display, ch)
        /\ UNCHANGED <<keyboard, incoming, readAvail, writeDone, ch>>
    BY DEF Echo!PutChar
  <1>2. display \in Seq(Chars) /\ <<ch>> \in Seq(Chars) /\ keyboard \in Seq(Chars)
        /\ incoming \in Seq(Chars)
    BY DEF EchoInv
  <1>3. display' \in Seq(Chars) /\ display' = display \o <<ch>>
    BY <1>1, <1>2, AppendIsConcat DEF EchoInv
  <1>4. Hand = <<ch>> /\ Hand' = << >>
    BY <1>1 DEF Hand
  <1>5. Whole(display', Hand', incoming', keyboard') = Typed
    <2>1. display \o <<ch>> \in Seq(Chars)
      BY <1>1, <1>3
    <2>2. (display \o <<ch>>) \o << >> = display \o <<ch>>
      BY <2>1, ConcatEmptySeq
    <2>3. Whole(display \o <<ch>>, << >>, incoming, keyboard)
            = Whole(display, <<ch>>, incoming, keyboard)
      BY <2>2, Zenon DEF Whole
    <2>4. QED BY <1>1, <1>3, <1>4, <2>3 DEF EchoInv
  <1>6. QED BY <1>1, <1>3, <1>5 DEF EchoInv

(* The other steps leave the characters where they are.                    *)
LEMMA ConsoleWaits ==
  ASSUME EchoInv, Echo!WriteDone \/ Echo!WaitRead \/ Echo!WaitWrite
  PROVE  EchoInv'
  <1>1. CASE Echo!WriteDone
    <2>1. /\ putBusy /\ putBusy' = FALSE /\ writeDone' = writeDone + 1
          /\ UNCHANGED <<keyboard, incoming, readAvail, display, ch, pc>>
      BY <1>1 DEF EchoInv, Echo!WriteDone
    <2>2. pc = "write"
      BY <2>1 DEF EchoInv
    <2>3. writeDone = 0
      BY <2>1, <2>2 DEF EchoInv
    <2>4. Hand' = Hand
      BY <2>1 DEF Hand
    <2>5. ~ putBusy' /\ putBusy' \in BOOLEAN
      BY <2>1
    <2>6. /\ writeDone' = 1 /\ UNCHANGED <<keyboard, incoming, readAvail, display, ch, pc>>
      BY <2>1, <2>3
    <2>7. QED BY <2>2, <2>4, <2>5, <2>6 DEF EchoInv
  <1>2. CASE Echo!WaitRead
    BY <1>2 DEF EchoInv, Hand, Echo!WaitRead
  <1>3. CASE Echo!WaitWrite
    BY <1>3 DEF EchoInv, Hand, Echo!WaitWrite
  <1>4. QED BY <1>1, <1>2, <1>3

(* The console of the program that runs stays as it must be.               *)
LEMMA EchoInvariant == Spec => [](program = "console" => EchoInv)
  <1> DEFINE Inv == program = "console" => EchoInv
  <1>1. Init => Inv
    <2> SUFFICES ASSUME Init, program = "console" PROVE EchoInv
      OBVIOUS
    <2>1. Echo!Init
      BY DEF Init
    <2>2. Typed \in Seq(Chars) /\ Quit \in Chars
      BY ProgramConstants DEF Chars
    <2>3. Whole(<< >>, << >>, << >>, Typed) = Typed
      BY <2>2, AllToCome
    <2>4. Hand = << >>
      BY <2>1 DEF Echo!Init, Hand
    <2>5. Whole(display, Hand, incoming, keyboard) = Typed
      BY <2>1, <2>3, <2>4 DEF Echo!Init
    <2>6. ~ putBusy /\ putBusy \in BOOLEAN
      BY <2>1 DEF Echo!Init
    <2>7. /\ keyboard = Typed /\ incoming = << >> /\ display = << >>
          /\ readAvail = 0 /\ writeDone = 0 /\ ch = Quit /\ pc = "read"
      BY <2>1 DEF Echo!Init
    <2>8. QED BY <2>2, <2>5, <2>6, <2>7 DEF EchoInv
  <1>2. Inv /\ [Next]_vars => Inv'
    <2> SUFFICES ASSUME Inv, [Next]_vars, program' = "console" PROVE EchoInv'
      OBVIOUS
    <2>1. CASE UNCHANGED vars
      BY <2>1 DEF vars, console, EchoInv, Hand
    <2>2. CASE Run
      <3>1. program = "console" /\ EchoInv
        BY <2>2 DEF Run
      <3>2. Echo!Next
        BY <2>2, <3>1 DEF Run, Potato, Philosophers, Monkeys, Keyboard
      <3>3. QED BY <3>1, <3>2, CheckCharAvailStep, GetCharStep, PutCharStep, ConsoleWaits
                DEF Echo!Next, Echo!ConsoleTest
    <2>3. CASE Over
      BY <2>1, <2>3 DEF Over
    <2>4. QED BY <2>1, <2>2, <2>3 DEF Next
  <1>3. QED BY <1>1, <1>2, PTL DEF Spec

(***************************************************************************)
(* Console.EchoesInput, for everything that can be typed: what is          *)
(* displayed, in hand, buffered and still to come is the input in order,   *)
(* the assertion of PutChar holds and GetChar finds a character            *)
(* (console.cc under ConsoleTest).                                         *)
(***************************************************************************)
THEOREM ProgramsConsoleEchoes == Spec => []ConsoleEchoes
  <1>1. EchoInv => Echo!EchoesInput
    BY DEF EchoInv, Echo!EchoesInput, Hand, Whole
  <1>2. (program = "console" => EchoInv) => ConsoleEchoes
    BY <1>1 DEF ConsoleEchoes
  <1>3. QED BY <1>2, EchoInvariant, PTL

-----------------------------------------------------------------------------
(* The baboons                                                             *)

AllCounted == {b \in Babuinos : pc[b] \in {"waiting", "early"}}
BaboonAt == {"coming", "waiting", "notified", "early", "gone"}

(* The types, and RopeCounts with a name for all that are counted.         *)
ForestInv ==
  /\ count \in [Forest!Ropes -> Nat] /\ countBabuinos \in Nat
  /\ rope \in [Babuinos -> Forest!Ropes]
  /\ pc \in [Babuinos -> BaboonAt]
  /\ \A r \in Forest!Ropes : count[r] = Cardinality(Forest!Counted(r))
  /\ countBabuinos = Cardinality(AllCounted) /\ countBabuinos < B

(* Baboons counts as this module does.                                     *)
LEMMA SameCardinality == \A S : Forest!Cardinality(S) = Cardinality(S)
  BY DEF Forest!Cardinality, Cardinality

(* What is left when a part goes.                                          *)
LEMMA PartLeaves ==
  ASSUME NEW S, IsFiniteSet(S), NEW T \in SUBSET S
  PROVE  /\ Cardinality(S) \in Nat /\ Cardinality(T) \in Nat
         /\ Cardinality(S \ T) = Cardinality(S) - Cardinality(T)
  <1>1. IsFiniteSet(T)
    BY FS_Subset
  <1>2. Cardinality(S) \in Nat /\ Cardinality(T) \in Nat
    BY <1>1, FS_CardinalityType
  <1>3. Cardinality(S \ T) = Cardinality(S) - Cardinality(S \cap T)
    BY FS_Difference
  <1>4. S \cap T = T
    OBVIOUS
  <1>5. QED BY <1>2, <1>3, <1>4, Zenon

(* Whoever is counted is a baboon, so there are finitely many.             *)
LEMMA WaitersFinite ==
  /\ IsFiniteSet(AllCounted) /\ Cardinality(AllCounted) \in Nat
  /\ \A r : /\ IsFiniteSet(Forest!Counted(r)) /\ Forest!Counted(r) \in SUBSET AllCounted
           /\ Cardinality(Forest!Counted(r)) \in Nat
  <1>1. IsFiniteSet(Babuinos)
    BY ProgramConstants
  <1>2. AllCounted \in SUBSET Babuinos
    BY DEF AllCounted
  <1>3. IsFiniteSet(AllCounted) /\ Cardinality(AllCounted) \in Nat
    BY <1>1, <1>2, FS_Subset, FS_CardinalityType
  <1>4. \A r : Forest!Counted(r) \in SUBSET AllCounted
    BY DEF AllCounted, Forest!Counted
  <1>5. \A r : IsFiniteSet(Forest!Counted(r))
    BY <1>3, <1>4, FS_Subset
  <1>6. \A r : Cardinality(Forest!Counted(r)) \in Nat
    BY <1>5, FS_CardinalityType
  <1>7. QED BY <1>3, <1>4, <1>5, <1>6

(* The search of Babuino::run for the fullest rope finds one.              *)
LEMMA MayorFound ==
  ASSUME NEW c \in [Forest!Ropes -> Nat], NEW M \in Nat, \A r \in Forest!Ropes : c[r] <= M
  PROVE  /\ Forest!Mayor(c) \in Forest!Ropes
         /\ \A s \in Forest!Ropes : c[s] <= c[Forest!Mayor(c)]
  <1> DEFINE R == Forest!Ropes
             room == {M - c[r] : r \in R}
             fullest == {r \in R : \A s \in R : c[s] <= c[r]}
  <1>1. R \subseteq Nat /\ 0 \in R
    BY ProgramConstants DEF Forest!Ropes
  <1> HIDE DEF R
  <1>2. c \in [R -> Nat] /\ \A r \in R : c[r] <= M
    BY DEF R
  <1>3. room \subseteq Nat /\ room # {}
    BY <1>1, <1>2
  <1>4. PICK x \in room : \A y \in room : x <= y
    BY <1>3, LeastNatural
  <1>5. PICK r \in R : x = M - c[r]
    BY <1>4
  <1>6. \A s \in R : M - c[r] <= M - c[s]
    BY <1>4, <1>5
  <1>7. \A s \in R : c[s] <= c[r]
    BY <1>2, <1>6
  <1>8. fullest \subseteq Nat /\ fullest # {}
    BY <1>1, <1>7
  <1>9. PICK m \in fullest : \A y \in fullest : m <= y
    BY <1>8, LeastNatural
  <1>10. \A s \in R : s < m => c[s] < c[m]
    <2> SUFFICES ASSUME NEW s \in R, s < m PROVE c[s] < c[m]
      OBVIOUS
    <2>1. s \notin fullest
      BY <1>1, <1>8, <1>9
    <2>2. PICK u \in R : ~(c[u] <= c[s])
      BY <2>1
    <2>3. c[u] <= c[m]
      BY <1>9
    <2>4. QED BY <1>2, <2>2, <2>3
  <1>11. \E k \in R : (\A s \in R : c[s] <= c[k]) /\ (\A s \in R : s < k => c[s] < c[k])
    BY <1>9, <1>10
  <1>12. QED BY <1>11 DEF R, Forest!Mayor

(* Cross(b): a notified baboon was not counted any more, and one whose     *)
(* wait returned by itself still is.                                       *)
LEMMA CrossStep ==
  ASSUME ForestInv, NEW b \in Babuinos, Forest!Cross(b)
  PROVE  ForestInv'
  <1>1. /\ \/ pc[b] = "notified" /\ pc' = [pc EXCEPT ![b] = "gone"]
           \/ pc[b] = "waiting" /\ pc' = [pc EXCEPT ![b] = "early"]
        /\ UNCHANGED <<count, countBabuinos, rope>>
    BY DEF Forest!Cross
  <1>2. /\ pc' \in [Babuinos -> BaboonAt]
        /\ \A a \in Babuinos : pc'[a] \in {"waiting", "early"} <=> pc[a] \in {"waiting", "early"}
    BY <1>1 DEF BaboonAt, ForestInv
  <1>3. AllCounted' = AllCounted
    BY <1>2 DEF AllCounted
  <1>4. \A r : Forest!Counted(r)' = Forest!Counted(r)
    BY <1>1, <1>2 DEF Forest!Counted
  <1>5. QED BY <1>1, <1>2, <1>3, <1>4 DEF ForestInv

(* Babuino::run: one that is not the B-th waits and is counted, and the    *)
(* B-th empties the fullest rope.                                          *)
LEMMA RunStep ==
  ASSUME ForestInv, NEW b \in Babuinos, NEW cuerda \in Forest!Ropes, Forest!Run(b, cuerda)
  PROVE  ForestInv'
  <1> DEFINE R == Forest!Ropes
             c == [count EXCEPT ![cuerda] = @ + 1]
             Here(r) == Forest!Counted(r) \cup (IF r = cuerda THEN {b} ELSE {})
             All == AllCounted \cup {b}
             mayor == Forest!Mayor(c)
  <1>1. /\ pc[b] = "coming" /\ rope' = [rope EXCEPT ![b] = cuerda]
        /\ \/ countBabuinos + 1 = B /\ Forest!Release(b, c, mayor)
           \/ /\ countBabuinos + 1 # B
              /\ count' = c /\ countBabuinos' = countBabuinos + 1
              /\ pc' = [pc EXCEPT ![b] = "waiting"]
    BY DEF Forest!Run
  <1>2. /\ count \in [R -> Nat] /\ countBabuinos \in Nat /\ rope \in [Babuinos -> R]
        /\ pc \in [Babuinos -> BaboonAt]
        /\ \A r \in R : count[r] = Cardinality(Forest!Counted(r))
        /\ countBabuinos = Cardinality(AllCounted) /\ countBabuinos < B
    BY DEF ForestInv
  <1>3. c \in [R -> Nat] /\ rope' \in [Babuinos -> R] /\ B \in Nat
    BY <1>1, <1>2, ProgramConstants
  <1>4. /\ IsFiniteSet(All) /\ Cardinality(All) \in Nat
        /\ Cardinality(All) = countBabuinos + 1
    <2>1. b \notin AllCounted /\ IsFiniteSet(AllCounted)
      BY <1>1, WaitersFinite DEF AllCounted
    <2>2. IsFiniteSet(All) /\ Cardinality(All) = Cardinality(AllCounted) + 1
      BY <2>1, FS_AddElement
    <2> HIDE DEF All
    <2>3. QED BY <1>2, <2>2
  <1>5. \A r \in R : /\ Here(r) \in SUBSET All /\ c[r] = Cardinality(Here(r))
                    /\ c[r] <= countBabuinos + 1
    <2> SUFFICES ASSUME NEW r \in R
                 PROVE  /\ Here(r) \in SUBSET All /\ c[r] = Cardinality(Here(r))
                        /\ c[r] <= countBabuinos + 1
      OBVIOUS
    <2>1. Here(r) \in SUBSET All
      BY WaitersFinite
    <2>2. c[r] = Cardinality(Here(r))
      <3>1. CASE r = cuerda
        <4>1. b \notin Forest!Counted(r) /\ IsFiniteSet(Forest!Counted(r))
          BY <1>1, WaitersFinite DEF Forest!Counted
        <4>2. Cardinality(Forest!Counted(r) \cup {b}) = count[r] + 1
          <5>1. Cardinality(Forest!Counted(r) \cup {b}) = Cardinality(Forest!Counted(r)) + 1
            BY <4>1, FS_AddElement
          <5>2. QED BY <1>2, <5>1
        <4>3. QED BY <1>2, <3>1, <4>2
      <3>2. CASE r # cuerda
        <4>1. Here(r) = Forest!Counted(r)
          BY <3>2
        <4>2. QED BY <1>2, <3>2, <4>1
      <3>3. QED BY <3>1, <3>2
    <2> HIDE DEF Here, All, c
    <2>3. Cardinality(Here(r)) <= Cardinality(All)
      BY <1>4, <2>1, FS_Subset
    <2>4. QED BY <1>4, <2>1, <2>2, <2>3
  <1>6. CASE countBabuinos + 1 # B
    <2>1. /\ count' = c /\ countBabuinos' = countBabuinos + 1
          /\ pc' = [pc EXCEPT ![b] = "waiting"]
      BY <1>1, <1>6
    <2>2. \A r \in R : Forest!Counted(r)' = Here(r)
      BY <1>1, <1>2, <2>1 DEF Forest!Counted
    <2>3. AllCounted' = All
      BY <1>1, <1>2, <2>1 DEF AllCounted
    <2>4. pc' \in [Babuinos -> BaboonAt]
      <3>1. "waiting" \in BaboonAt
        BY DEF BaboonAt
      <3>2. QED BY <1>2, <2>1, <3>1
    <2>5. countBabuinos' < B /\ countBabuinos' \in Nat
      <3>1. countBabuinos \in Nat /\ B \in Nat /\ countBabuinos < B
        BY <1>2, <1>3, Zenon
      <3>2. countBabuinos' = countBabuinos + 1
        BY <2>1
      <3>3. QED BY <1>6, <3>1, <3>2
    <2> HIDE DEF c, Here, All
    <2>6. /\ \A r \in R : count'[r] = Cardinality(Forest!Counted(r)')
          /\ countBabuinos' = Cardinality(AllCounted')
      BY <1>4, <1>5, <2>1, <2>2, <2>3
    <2>7. QED BY <1>3, <2>1, <2>4, <2>5, <2>6 DEF ForestInv
  <1>7. CASE countBabuinos + 1 = B
    <2>1. /\ count' = [c EXCEPT ![mayor] = 0]
          /\ countBabuinos' = countBabuinos + 1 - c[mayor]
          /\ pc' = [a \in Babuinos |->
                      CASE a = b -> IF mayor = rope'[b] THEN "gone" ELSE "waiting"
                        [] a # b /\ a \in Forest!Counted(mayor) -> Forest!Notified(a)
                        [] OTHER -> pc[a]]
      BY <1>1, <1>7 DEF Forest!Release
    <2>2. mayor \in R /\ c[cuerda] <= c[mayor]
      <3> HIDE DEF c
      <3>1. countBabuinos + 1 \in Nat
        BY <1>2
      <3>2. QED BY <1>3, <1>5, <3>1, MayorFound
    <2>3. c[mayor] >= 1 /\ c[mayor] \in Nat
      <3>1. c[cuerda] >= 1
        BY <1>2
      <3> HIDE DEF c, mayor
      <3>2. QED BY <1>3, <2>2, <3>1
    <2> HIDE DEF mayor, c
    <2>4. rope'[b] = cuerda /\ \A a \in Babuinos : a # b => rope'[a] = rope[a]
      BY <1>1, <1>2
    <2>5. /\ pc'[b] = (IF mayor = cuerda THEN "gone" ELSE "waiting")
          /\ \A a \in Babuinos : a # b =>
               IF a \in Forest!Counted(mayor) THEN pc'[a] \in {"notified", "gone"}
               ELSE pc'[a] = pc[a]
      BY <2>1, <2>4 DEF Forest!Notified
    <2>6. pc' \in [Babuinos -> BaboonAt]
      <3>1. \A a \in Babuinos : pc'[a] \in BaboonAt
        BY <1>2, <2>5 DEF BaboonAt
      <3>2. QED BY <2>1, <3>1
    <2>7. AllCounted' = All \ Here(mayor)
      BY <1>1, <2>4, <2>5 DEF AllCounted, Forest!Counted
    <2>8. \A r \in R : Forest!Counted(r)' = IF r = mayor THEN {} ELSE Here(r)
      BY <1>1, <2>4, <2>5 DEF Forest!Counted
    <2> HIDE DEF Here, All
    <2>9. Cardinality(AllCounted') = countBabuinos + 1 - c[mayor]
      <3>1. IsFiniteSet(All) /\ Here(mayor) \in SUBSET All
        BY <1>4, <1>5, <2>2
      <3>2. Cardinality(All \ Here(mayor)) = Cardinality(All) - Cardinality(Here(mayor))
        BY <3>1, PartLeaves
      <3>3. Cardinality(AllCounted') = Cardinality(All \ Here(mayor))
        BY <2>7, Zenon
      <3>4. Cardinality(Here(mayor)) = c[mayor]
        BY <1>5, <2>2
      <3>5. Cardinality(All) = countBabuinos + 1
        BY <1>4
      <3>6. Cardinality(All \ Here(mayor)) = countBabuinos + 1 - c[mayor]
        BY <1>2, <2>3, <3>2, <3>4, <3>5
      <3>7. QED BY <3>3, <3>6, Zenon
    <2>10. countBabuinos' \in Nat /\ countBabuinos' < B
      BY <1>2, <1>3, <1>5, <1>7, <2>1, <2>2, <2>3
    <2>11. \A r \in R : count'[r] = Cardinality(Forest!Counted(r)')
      <3>1. Cardinality({}) = 0
        BY FS_EmptySet
      <3>2. QED BY <1>3, <1>5, <2>1, <2>2, <2>8, <3>1
    <2>12. count' \in [R -> Nat]
      BY <1>3, <2>1
    <2>13. QED BY <1>3, <2>1, <2>6, <2>9, <2>10, <2>11, <2>12 DEF ForestInv
  <1>8. QED BY <1>6, <1>7

(* The ropes of the program that runs stay as they must be.                *)
LEMMA ForestInvariant == Spec => [](program = "baboons" => ForestInv)
  <1> DEFINE Inv == program = "baboons" => ForestInv
  <1>1. Init => Inv
    <2> SUFFICES ASSUME Init, program = "baboons" PROVE ForestInv
      OBVIOUS
    <2>1. /\ count = [r \in Forest!Ropes |-> 0] /\ countBabuinos = 0
          /\ rope = [b \in Babuinos |-> 0] /\ pc = [b \in Babuinos |-> "coming"]
      BY DEF Init, Forest!Init
    <2>2. 0 \in Forest!Ropes /\ 0 < B
      BY ProgramConstants DEF Forest!Ropes
    <2>3. AllCounted = {} /\ \A r : Forest!Counted(r) = {}
      BY <2>1 DEF AllCounted, Forest!Counted
    <2>4. Cardinality({}) = 0
      BY FS_EmptySet
    <2>5. QED BY <2>1, <2>2, <2>3, <2>4 DEF ForestInv, BaboonAt
  <1>2. Inv /\ [Next]_vars => Inv'
    <2> SUFFICES ASSUME Inv, [Next]_vars, program' = "baboons" PROVE ForestInv'
      OBVIOUS
    <2>1. CASE UNCHANGED vars
      <3>1. UNCHANGED <<count, countBabuinos, rope, pc>> /\ ForestInv
        BY <2>1 DEF vars, baboons
      <3>2. QED BY <3>1 DEF ForestInv, AllCounted, Forest!Counted
    <2>2. CASE Run
      <3>1. program = "baboons" /\ ForestInv
        BY <2>2 DEF Run
      <3>2. Forest!Next
        BY <2>2, <3>1 DEF Run, Potato, Philosophers, Monkeys, Keyboard
      <3>3. QED BY <3>1, <3>2, CrossStep, RunStep DEF Forest!Next
    <2>3. CASE Over
      BY <2>1, <2>3 DEF Over
    <2>4. QED BY <2>1, <2>2, <2>3 DEF Next
  <1>3. QED BY <1>1, <1>2, PTL DEF Spec

(***************************************************************************)
(* Baboons.RopeCounts, for every number of ropes and of baboons: the       *)
(* counters of Babuino::run are those of the baboons that came since their *)
(* rope was let go, on each rope and in all, and are fewer than B, also    *)
(* when waits return that nobody notified.                                 *)
(***************************************************************************)
THEOREM ProgramsBaboonsCounted == Spec => []BaboonsCounted
  <1>1. ForestInv => Forest!RopeCounts
    <2> SUFFICES ASSUME ForestInv PROVE Forest!RopeCounts
      OBVIOUS
    <2>1. countBabuinos = Cardinality(UNION {Forest!Counted(r) : r \in Forest!Ropes})
      <3>1. \A b \in Babuinos : rope[b] \in Forest!Ropes
        BY DEF ForestInv
      <3>2. AllCounted = UNION {Forest!Counted(r) : r \in Forest!Ropes}
        BY <3>1 DEF AllCounted, Forest!Counted
      <3>3. QED BY <3>2, Zenon DEF ForestInv
    <2>2. \A r \in Forest!Ropes : count[r] = Cardinality(Forest!Counted(r))
      BY DEF ForestInv
    <2>3. countBabuinos < B
      BY DEF ForestInv
    <2>4. QED BY <2>1, <2>2, <2>3, SameCardinality, Zenon DEF Forest!RopeCounts
  <1>2. (program = "baboons" => ForestInv) => BaboonsCounted
    BY <1>1 DEF BaboonsCounted
  <1>3. QED BY <1>2, ForestInvariant, PTL

-----------------------------------------------------------------------------
(* The hot potatoes                                                        *)

Potatoes == [players : Nat, value : Int]
Processes == 0 .. NumPlayers

Live == {p \in Players : live[p]}
NotGone == {p \in Players : pc[p] # "gone"}

(* One player goes out while another is left, or the last one is           *)
(* announced, or nothing of that.                                          *)
GameStep(in, inNext) ==
  \/ inNext = in /\ winners' = winners
  \/ /\ \E p \in in : Cardinality(in) > 1 /\ inNext = in \ {p}
     /\ winners' = winners
  \/ Cardinality(in) = 1 /\ winners = {} /\ winners' = in /\ inNext = in

(* The players and the process after them.                                 *)
LEMMA PlayersFinite ==
  /\ IsFiniteSet(Players) /\ Cardinality(Players) = NumPlayers
  /\ Players \subseteq Processes /\ NumPlayers \in Processes \ Players
  <1>1. NumPlayers \in Nat \ {0}
    BY RingConstants
  <1>2. IsFiniteSet(Players) /\ Cardinality(Players) = NumPlayers
    BY <1>1, FS_Interval DEF Players
  <1>3. QED BY <1>1, <1>2 DEF Players, Processes

(* A player of several that leaves, and the last one.                      *)
LEMMA PlayerLeaves ==
  ASSUME NEW S \in SUBSET Players, NEW p \in S
  PROVE  /\ Cardinality(S) \in Nat \ {0} /\ Cardinality(S \ {p}) = Cardinality(S) - 1
         /\ Cardinality(S) = 1 => S = {p}
  <1>1. IsFiniteSet(S)
    BY PlayersFinite, FS_Subset
  <1>2. Cardinality(S) \in Nat /\ Cardinality(S) # 0
    BY <1>1, FS_CardinalityType, FS_EmptySet
  <1>3. Cardinality(S \ {p}) = Cardinality(S) - 1
    BY <1>1, FS_RemoveElement
  <1>4. ASSUME Cardinality(S) = 1 PROVE S = {p}
    BY <1>1, <1>4, FS_Singleton
  <1>5. QED BY <1>2, <1>3, <1>4

(* The potato stays a potato.                                              *)
LEMMA CollatzType ==
  ASSUME NEW v \in Int
  PROVE  Collatz(v) \in Int
  BY DEF Collatz

(* The programs share the ring of PotatoRing.                              *)
LEMMA SameRing ==
  /\ ShM!Players = Players /\ Threads!Players = Players /\ Mail!Players = Players
  /\ \A v : /\ ShM!Collatz(v) = Collatz(v) /\ Threads!Collatz(v) = Collatz(v)
           /\ Mail!Collatz(v) = Collatz(v)
  /\ \A n, v : /\ ShM!Papa(n, v) = Papa(n, v) /\ Threads!Papa(n, v) = Papa(n, v)
              /\ Mail!Papa(n, v) = Papa(n, v)
  BY DEF Players, ShM!Players, Threads!Players, Mail!Players, Collatz, ShM!Collatz,
         Threads!Collatz, Mail!Collatz, Papa, ShM!Papa, Threads!Papa, Mail!Papa

(* ShM: the potato counts the live players, and who is announced is the    *)
(* only one and takes no more turns.                                       *)
ShMInv ==
  /\ papa \in Potatoes /\ live \in [Players -> BOOLEAN]
  /\ pc \in [Processes -> {"start", "wait", "turn", "end", "exit", "gone"}]
  /\ papa.players = Cardinality(Live)
  /\ winners # {} => \E w \in Players : /\ winners = {w} /\ Live = {w}
                                        /\ pc[w] \in {"end", "gone"}

(* A step of the program with shared memory is a step of the game.         *)
LEMMA ShMStep ==
  ASSUME ShMInv, ShM!Next
  PROVE  ShMInv' /\ GameStep(Live, Live')
  <1> DEFINE At == {"start", "wait", "turn", "end", "exit", "gone"}
  <1>1. /\ papa \in Potatoes /\ live \in [Players -> BOOLEAN] /\ pc \in [Processes -> At]
        /\ papa.players = Cardinality(Live) /\ Live \subseteq Players
    BY DEF ShMInv, Live
  <1>2. Players \subseteq Processes /\ ShM!Main \in Processes \ Players
    BY PlayersFinite DEF ShM!Main
  <1>3. ASSUME NEW q \in Processes, pc[q] \in {"start", "wait", "turn", "end", "exit"},
               NEW v \in At, pc' = [pc EXCEPT ![q] = v], pc[q] = "end" => v = "gone",
               UNCHANGED <<papa, live, winners>>
        PROVE  ShMInv' /\ GameStep(Live, Live')
    <2>1. Live' = Live
      BY <1>3 DEF Live
    <2>2. pc' \in [Processes -> At]
      BY <1>1, <1>3
    <2>3. \A w \in Players : pc[w] \in {"end", "gone"} => pc'[w] \in {"end", "gone"}
      BY <1>1, <1>2, <1>3
    <2>4. QED BY <1>1, <1>3, <2>1, <2>2, <2>3 DEF ShMInv, GameStep
  <1>4. CASE ShM!Start \/ ShM!Destroy \/ ShM!Wait(ShM!Main)
    BY <1>2, <1>3, <1>4 DEF ShM!Start, ShM!Destroy, ShM!Wait
  <1>5. ASSUME NEW p \in Players, ShM!Wait(p) \/ ShM!TurnOut(p) \/ ShM!End(p)
        PROVE  ShMInv' /\ GameStep(Live, Live')
    <2>1. CASE ShM!Wait(p)
      BY <1>2, <1>3, <2>1 DEF ShM!Wait
    <2>2. CASE ShM!TurnOut(p)
      <3>1. pc[p] = "turn" /\ UNCHANGED <<papa, live, winners>>
        BY <2>2 DEF ShM!TurnOut
      <3>2. \E v \in {"end", "wait"} : pc' = [pc EXCEPT ![p] = v]
        BY <2>2 DEF ShM!TurnOut
      <3>3. QED BY <1>2, <1>3, <3>1, <3>2
    <2>3. CASE ShM!End(p)
      BY <1>2, <1>3, <2>3 DEF ShM!End
    <2>4. QED BY <1>5, <2>1, <2>2, <2>3
  <1>6. ASSUME NEW p \in Players, pc[p] = "turn", live[p]
        PROVE  p \in Live /\ winners = {}
    BY <1>6 DEF ShMInv, Live
  <1>7. ASSUME NEW p \in Players, ShM!TurnWins(p)
        PROVE  ShMInv' /\ GameStep(Live, Live')
    <2>1. /\ pc[p] = "turn" /\ live[p] /\ papa.players = 1 /\ winners' = winners \cup {p}
          /\ papa' = [papa EXCEPT !.value = -1] /\ pc' = [pc EXCEPT ![p] = "end"]
          /\ live' = live
      BY <1>7 DEF ShM!TurnWins
    <2>2. p \in Live /\ winners = {} /\ Live = {p} /\ winners' = {p}
      BY <1>1, <1>6, <2>1, PlayerLeaves
    <2>3. papa' \in Potatoes /\ papa'.players = papa.players
      BY <1>1, <2>1 DEF Potatoes
    <2>4. Live' = Live
      BY <2>1 DEF Live
    <2>5. pc' \in [Processes -> At] /\ pc'[p] = "end"
      BY <1>1, <1>2, <2>1
    <2>6. QED BY <1>1, <2>1, <2>2, <2>3, <2>4, <2>5 DEF ShMInv, GameStep
  <1>8. ASSUME NEW p \in Players, ShM!TurnPlays(p)
        PROVE  ShMInv' /\ GameStep(Live, Live')
    <2>1. /\ pc[p] = "turn" /\ live[p] /\ papa.players # 1 /\ winners' = winners
          /\ pc' = [pc EXCEPT ![p] = "wait"]
      BY <1>8 DEF ShM!TurnPlays
    <2>2. p \in Live /\ winners = {}
      BY <1>6, <2>1
    <2>3. pc' \in [Processes -> At]
      BY <1>1, <2>1
    <2>4. CASE Collatz(papa.value) # 1
      <3>1. papa' = [papa EXCEPT !.value = Collatz(papa.value)] /\ live' = live
        BY <1>8, <2>4, SameRing DEF ShM!TurnPlays
      <3>2. papa.value \in Int
        BY <1>1 DEF Potatoes
      <3>3. papa' \in Potatoes /\ papa'.players = papa.players
        BY <1>1, <3>1, <3>2, CollatzType DEF Potatoes
      <3>4. Live' = Live
        BY <3>1 DEF Live
      <3>5. QED BY <1>1, <2>1, <2>2, <2>3, <3>1, <3>3, <3>4 DEF ShMInv, GameStep
    <2>5. CASE Collatz(papa.value) = 1
      <3>1. PICK v \in ResetValues : papa' = Papa(papa.players - 1, v)
        BY <1>8, <2>5, SameRing DEF ShM!TurnPlays
      <3>2. live' = [live EXCEPT ![p] = FALSE]
        BY <1>8, <2>5, SameRing DEF ShM!TurnPlays
      <3>3. Live' = Live \ {p} /\ live' \in [Players -> BOOLEAN]
        BY <1>1, <3>2 DEF Live
      <3>4. /\ Cardinality(Live) \in Nat \ {0} /\ Cardinality(Live \ {p}) = Cardinality(Live) - 1
        BY <1>1, <2>2, PlayerLeaves
      <3>5. Cardinality(Live) > 1
        BY <1>1, <2>1, <3>4
      <3>6. papa' \in Potatoes /\ papa'.players = Cardinality(Live')
        BY <1>1, <3>1, <3>3, <3>4, RingConstants DEF Papa, Potatoes
      <3>7. QED BY <2>1, <2>2, <2>3, <3>3, <3>5, <3>6 DEF ShMInv, GameStep
    <2>6. QED BY <2>4, <2>5
  <1>9. QED BY <1>4, <1>5, <1>7, <1>8, SameRing DEF ShM!Next, ShM!Process

(* PThreads: the potato counts the threads that have not ended, and a      *)
(* winner has ended as the last one.                                       *)
ThreadsInv ==
  /\ papa \in Potatoes
  /\ pc \in [Processes -> {"start", "wait", "turn", "join", "gone"}]
  /\ papa.players = Cardinality(NotGone)
  /\ winners # {} => papa.players = 0

(* A step of the program with threads is a step of the game.               *)
LEMMA ThreadsStep ==
  ASSUME ThreadsInv, Threads!Next
  PROVE  ThreadsInv' /\ GameStep(NotGone \cup winners, (NotGone \cup winners)')
  <1> DEFINE At == {"start", "wait", "turn", "join", "gone"}
  <1>1. /\ papa \in Potatoes /\ pc \in [Processes -> At]
        /\ papa.players = Cardinality(NotGone) /\ NotGone \subseteq Players
    BY DEF ThreadsInv, NotGone
  <1>2. Players \subseteq Processes /\ Threads!Main \in Processes \ Players
    BY PlayersFinite DEF Threads!Main
  <1>3. ASSUME pc' \in [Processes -> At], NotGone' = NotGone, winners' = winners,
               papa' \in Potatoes, papa'.players = papa.players
        PROVE  ThreadsInv' /\ GameStep(NotGone \cup winners, (NotGone \cup winners)')
    BY <1>1, <1>3 DEF ThreadsInv, GameStep
  <1>4. CASE Threads!Start \/ Threads!Join
    <2>1. UNCHANGED <<papa, winners>>
      BY <1>4 DEF Threads!Start, Threads!Join
    <2>2. pc' = pc \/ \E v \in At : pc' = [pc EXCEPT ![Threads!Main] = v]
      BY <1>4 DEF Threads!Start, Threads!Join
    <2>3. pc' \in [Processes -> At] /\ NotGone' = NotGone
      BY <1>1, <1>2, <2>2 DEF NotGone
    <2>4. QED BY <1>1, <1>3, <2>1, <2>3
  <1>5. ASSUME NEW p \in Players, Threads!Wait(p) \/ Threads!Pass(p)
        PROVE  ThreadsInv' /\ GameStep(NotGone \cup winners, (NotGone \cup winners)')
    <2>1. /\ pc[p] # "gone" /\ winners' = winners
          /\ \E v \in {"turn", "wait"} : pc' = [pc EXCEPT ![p] = v]
      BY <1>5 DEF Threads!Wait, Threads!Pass
    <2>2. pc' \in [Processes -> At] /\ NotGone' = NotGone
      BY <1>1, <1>2, <2>1 DEF NotGone
    <2>3. papa' = papa \/ papa' = [papa EXCEPT !.value = Collatz(papa.value)]
      BY <1>1, <1>5, SameRing DEF Threads!Wait, Threads!Pass, Threads!CambiarPapa
    <2>4. papa.value \in Int
      BY <1>1 DEF Potatoes
    <2>5. papa' \in Potatoes /\ papa'.players = papa.players
      BY <1>1, <2>3, <2>4, CollatzType DEF Potatoes
    <2>6. QED BY <1>3, <2>1, <2>2, <2>5
  <1>6. ASSUME NEW p \in Players, Threads!Leave(p)
        PROVE  ThreadsInv' /\ GameStep(NotGone \cup winners, (NotGone \cup winners)')
    <2>1. pc[p] = "turn" /\ pc' = [pc EXCEPT ![p] = "gone"]
      BY <1>6 DEF Threads!Leave
    <2>2. pc' \in [Processes -> At] /\ NotGone' = NotGone \ {p} /\ p \in NotGone
      BY <1>1, <1>2, <2>1 DEF NotGone
    <2>3. /\ Cardinality(NotGone) \in Nat \ {0}
          /\ Cardinality(NotGone \ {p}) = Cardinality(NotGone) - 1
          /\ Cardinality(NotGone) = 1 => NotGone = {p}
      BY <1>1, <2>2, PlayerLeaves
    <2>4. winners = {} /\ NotGone \cup winners = NotGone
      BY <1>1, <2>3 DEF ThreadsInv
    <2>5. /\ \E v \in Int : papa' = Papa(papa.players - 1, v)
          /\ \/ papa.players - 1 >= 1 /\ winners' = winners
             \/ papa.players - 1 = 0 /\ winners' = winners \cup {p}
      <3>1. papa.value \in Int /\ 1 \in Int /\ papa.players - 1 \in Nat
        BY <1>1, <2>3 DEF Potatoes
      <3>2. ResetValues \subseteq Int
        BY RingConstants
      <3>3. QED BY <1>6, <3>1, <3>2, SameRing DEF Threads!Leave
    <2>6. papa' \in Potatoes /\ papa'.players = Cardinality(NotGone')
      BY <1>1, <2>2, <2>3, <2>5 DEF Papa, Potatoes
    <2>7. CASE papa.players - 1 >= 1
      <3>1. winners' = winners /\ Cardinality(NotGone) > 1
        BY <1>1, <2>3, <2>5, <2>7
      <3>2. (NotGone \cup winners)' = NotGone \ {p}
        BY <2>2, <2>4, <3>1
      <3>3. QED BY <2>2, <2>4, <2>6, <3>1, <3>2 DEF ThreadsInv, GameStep
    <2>8. CASE papa.players - 1 = 0
      <3>1. winners' = winners \cup {p} /\ Cardinality(NotGone) = 1
        BY <1>1, <2>3, <2>5, <2>8
      <3>2. winners' = {p} /\ NotGone = {p} /\ (NotGone \cup winners)' = {p}
        BY <2>2, <2>3, <2>4, <3>1
      <3>3. papa'.players = 0
        BY <1>1, <2>2, <2>3, <2>6, <3>1
      <3>4. QED BY <2>2, <2>4, <2>6, <3>1, <3>2, <3>3 DEF ThreadsInv, GameStep
    <2>9. QED BY <2>5, <2>7, <2>8
  <1>7. QED BY <1>4, <1>5, <1>6, SameRing DEF Threads!Next, Threads!Process

(* MailBox: the potato is in one place, a message or the hands of a        *)
(* player, and counts the live players.  Nobody stops and the queue is not *)
(* removed until a winner is announced, which takes no more turns.         *)
MailTypes ==
  /\ queue \in [Processes -> Seq(Potatoes)] /\ removed \in BOOLEAN
  /\ papa \in [Players -> Potatoes] /\ live \in [Players -> BOOLEAN]
  /\ pc \in [Processes -> {"start", "wait", "recv", "turn", "end", "exit", "gone"}]

Holds(p) == pc[p] = "turn" \/ queue[p] # << >>

OnePotato ==
  /\ ~ removed /\ queue[Mail!Main] = << >> /\ pc[Mail!Main] \in {"start", "wait"}
  /\ pc[Mail!Main] = "start" => Live = Players
  /\ \A p \in Players :
       /\ pc[p] \in {"recv", "turn"}
       /\ pc[p] = "turn" => queue[p] = << >> /\ papa[p].players = Cardinality(Live)
       /\ queue[p] # << >> => Len(queue[p]) = 1 /\ Head(queue[p]).players = Cardinality(Live)
       /\ Holds(p) => pc[Mail!Main] # "start" /\ \A q \in Players : Holds(q) => q = p

MailInv ==
  /\ MailTypes
  /\ winners = {} => OnePotato
  /\ winners # {} => \E w \in Players : /\ winners = {w} /\ Live = {w}
                                        /\ pc[w] \in {"end", "exit", "gone"}

(* The potato goes to a player.                                            *)
LEMMA NextIsPlayer ==
  ASSUME NEW p \in Players
  PROVE  NextProcess(p) \in Players /\ Mail!NextProcess(p) = NextProcess(p)
  <1>1. NumPlayers \in Nat \ {0} /\ Rotation \in {-1, 1} /\ p \in Nat /\ p < NumPlayers
    BY RingConstants DEF Players
  <1>2. \A x \in Nat : x % NumPlayers \in 0 .. NumPlayers - 1
    BY <1>1
  <1>3. p + Rotation = -1 \/ p + Rotation \in Nat
    BY <1>1
  <1>4. NextProcess(p) \in Players
    BY <1>1, <1>2, <1>3 DEF NextProcess, Step, Players
  <1>5. Mail!NextProcess(p) = NextProcess(p)
    BY DEF NextProcess, Step, Mail!NextProcess, Mail!Step
  <1>6. QED BY <1>4, <1>5

(* MailBox::send puts one message into one queue, or none.                 *)
LEMMA SentType ==
  ASSUME queue \in [Processes -> Seq(Potatoes)], NEW q \in Processes, NEW m \in Potatoes
  PROVE  /\ Mail!Sent(q, m) \in [Processes -> Seq(Potatoes)]
         /\ ~ removed => Mail!Sent(q, m)[q] = Append(queue[q], m)
         /\ \A r \in Processes : r # q => Mail!Sent(q, m)[r] = queue[r]
  <1>1. Append(queue[q], m) \in Seq(Potatoes)
    OBVIOUS
  <1>2. QED BY <1>1 DEF Mail!Sent

(* A burst potato is counted down, and any other is passed on.             *)
LEMMA MailPlays ==
  ASSUME MailTypes, NEW p \in Players, Mail!TurnPlays(p), papa[p].players \in Nat \ {0}
  PROVE  /\ papa' \in [Players -> Potatoes] /\ live' \in [Players -> BOOLEAN]
         /\ \/ Live' = Live /\ papa'[p].players = papa[p].players
            \/ Live' = Live \ {p} /\ papa'[p].players = papa[p].players - 1
  <1>1. papa[p] \in Potatoes /\ papa[p].value \in Int /\ papa \in [Players -> Potatoes]
        /\ live \in [Players -> BOOLEAN]
    BY DEF MailTypes, Potatoes
  <1>2. CASE Collatz(papa[p].value) # 1
    <2>1. papa' = [papa EXCEPT ![p].value = Collatz(papa[p].value)] /\ live' = live
      BY <1>2, SameRing DEF Mail!TurnPlays
    <2>2. Collatz(papa[p].value) \in Int
      BY <1>1, CollatzType
    <2>3. papa'[p] = [papa[p] EXCEPT !.value = Collatz(papa[p].value)]
      BY <1>1, <2>1
    <2>4. papa'[p] \in Potatoes /\ papa'[p].players = papa[p].players
      BY <1>1, <2>2, <2>3 DEF Potatoes
    <2>5. papa' \in [Players -> Potatoes]
      BY <1>1, <2>1, <2>4
    <2>6. Live' = Live
      BY <2>1 DEF Live
    <2>7. QED BY <1>1, <2>1, <2>4, <2>5, <2>6
  <1>3. CASE Collatz(papa[p].value) = 1
    <2>1. PICK v \in ResetValues : papa' = [papa EXCEPT ![p] = Papa(papa[p].players - 1, v)]
      BY <1>3, SameRing DEF Mail!TurnPlays
    <2>2. live' = [live EXCEPT ![p] = FALSE]
      BY <1>3, SameRing DEF Mail!TurnPlays
    <2>3. v \in Int /\ papa[p].players - 1 \in Nat
      BY RingConstants
    <2>4. Papa(papa[p].players - 1, v) \in Potatoes
          /\ Papa(papa[p].players - 1, v).players = papa[p].players - 1
      BY <2>3 DEF Papa, Potatoes
    <2>5. papa' \in [Players -> Potatoes] /\ papa'[p].players = papa[p].players - 1
      BY <1>1, <2>1, <2>4
    <2>6. Live' = Live \ {p} /\ live' \in [Players -> BOOLEAN]
      BY <1>1, <2>2 DEF Live
    <2>7. QED BY <2>5, <2>6
  <1>4. QED BY <1>2, <1>3

(* Whoever has the potato passes it on, with the right count.              *)
LEMMA PotatoPassed ==
  ASSUME MailTypes, OnePotato, NEW p \in Players, pc[p] = "turn",
         NEW m \in Potatoes, m.players = Cardinality(Live'),
         queue' = Mail!Sent(Mail!NextProcess(p), m), pc' = [pc EXCEPT ![p] = "recv"],
         removed' = removed
  PROVE  OnePotato'
  <1> DEFINE n == NextProcess(p)
  <1>1. n \in Players /\ queue' = Mail!Sent(n, m)
    BY NextIsPlayer
  <1> HIDE DEF n
  <1>2. Players \subseteq Processes /\ Mail!Main \in Processes \ Players /\ n # Mail!Main
    BY <1>1, PlayersFinite DEF Mail!Main
  <1>3. /\ ~ removed /\ queue[Mail!Main] = << >> /\ pc[Mail!Main] = "wait"
        /\ \A q \in Players : queue[q] = << >> /\ (q # p => pc[q] = "recv")
    BY DEF OnePotato, Holds
  <1>4. /\ queue'[n] = Append(queue[n], m)
        /\ \A r \in Processes : r # n => queue'[r] = queue[r]
    <2>1. queue \in [Processes -> Seq(Potatoes)] /\ n \in Processes /\ ~ removed
      BY <1>1, <1>2, <1>3 DEF MailTypes
    <2>2. /\ Mail!Sent(n, m)[n] = Append(queue[n], m)
          /\ \A r \in Processes : r # n => Mail!Sent(n, m)[r] = queue[r]
      BY <2>1, SentType, Zenon
    <2>3. QED BY <1>1, <2>2, Zenon
  <1>5. queue[n] = << >>
    BY <1>1, <1>3
  <1>6. queue'[n] = <<m>> /\ Len(queue'[n]) = 1 /\ Head(queue'[n]) = m
    BY <1>4, <1>5
  <1>7. queue'[Mail!Main] = << >> /\ \A q \in Players : q # n => queue'[q] = << >>
    BY <1>2, <1>3, <1>4
  <1>8. pc'[Mail!Main] = "wait" /\ \A q \in Players : pc'[q] = "recv"
    BY <1>2, <1>3 DEF MailTypes
  <1>9. \A q \in Players : Holds(q)' => q = n
    BY <1>7, <1>8 DEF Holds
  <1>10. Head(queue'[n]).players = Cardinality(Live')
    BY <1>6
  <1>11. QED BY <1>3, <1>6, <1>7, <1>8, <1>9, <1>10 DEF OnePotato

(* While nobody has won.                                                   *)
LEMMA MailBefore ==
  ASSUME MailInv, winners = {}, Mail!Next
  PROVE  MailInv' /\ GameStep(Live, Live')
  <1> DEFINE At == {"start", "wait", "recv", "turn", "end", "exit", "gone"}
             main == Mail!Main
  <1>1. /\ queue \in [Processes -> Seq(Potatoes)] /\ removed = FALSE
        /\ papa \in [Players -> Potatoes] /\ live \in [Players -> BOOLEAN]
        /\ pc \in [Processes -> At] /\ MailTypes /\ OnePotato
    BY DEF MailInv, MailTypes, OnePotato
  <1>2. Players \subseteq Processes /\ main \in Processes \ Players
    BY PlayersFinite DEF Mail!Main
  <1>3. CASE Mail!Start
    <2>1. PICK first \in Players : queue' = Mail!Sent(first, Papa(NumPlayers, FirstValue))
      BY <1>3, SameRing DEF Mail!Start
    <2>2. /\ pc[main] = "start" /\ pc' = [pc EXCEPT ![main] = "wait"]
          /\ UNCHANGED <<removed, papa, live, winners>>
      BY <1>3 DEF Mail!Start
    <2>3. /\ Papa(NumPlayers, FirstValue) \in Potatoes
          /\ Papa(NumPlayers, FirstValue).players = NumPlayers
      BY RingConstants DEF Papa, Potatoes
    <2>4. Live' = Live /\ Live = Players /\ Cardinality(Live') = NumPlayers
      BY <1>1, <2>2, PlayersFinite DEF Live, OnePotato
    <2>5. /\ queue[main] = << >> /\ \A q \in Players : pc[q] = "recv" /\ queue[q] = << >>
      BY <1>1, <2>2 DEF OnePotato, Holds
    <2>6. /\ queue' \in [Processes -> Seq(Potatoes)]
          /\ queue'[first] = Append(queue[first], Papa(NumPlayers, FirstValue))
          /\ \A r \in Processes : r # first => queue'[r] = queue[r]
      <3> DEFINE m == Papa(NumPlayers, FirstValue)
      <3>1. m \in Potatoes /\ queue' = Mail!Sent(first, m) /\ ~ removed /\ first \in Processes
        BY <1>1, <1>2, <2>1, <2>3
      <3> HIDE DEF m
      <3>2. /\ queue' \in [Processes -> Seq(Potatoes)] /\ queue'[first] = Append(queue[first], m)
            /\ \A r \in Processes : r # first => queue'[r] = queue[r]
        BY <1>1, <3>1, SentType
      <3>3. QED BY <3>2 DEF m
    <2>7. /\ Len(queue'[first]) = 1 /\ Head(queue'[first]) = Papa(NumPlayers, FirstValue)
      BY <2>5, <2>6
    <2>8. Head(queue'[first]).players = Cardinality(Live')
      BY <2>3, <2>4, <2>7
    <2>9. queue'[main] = << >> /\ \A q \in Players : q # first => queue'[q] = << >>
      BY <1>2, <2>5, <2>6
    <2>10. pc' \in [Processes -> At] /\ pc'[main] = "wait" /\ \A q \in Players : pc'[q] = "recv"
      BY <1>1, <1>2, <2>2, <2>5
    <2>11. \A q \in Players : Holds(q)' => q = first
      BY <2>9, <2>10 DEF Holds
    <2>12. OnePotato'
      BY <1>1, <2>2, <2>7, <2>8, <2>9, <2>10, <2>11 DEF OnePotato
    <2>13. MailTypes'
      BY <1>1, <2>2, <2>6, <2>10 DEF MailTypes
    <2>14. QED BY <2>2, <2>4, <2>12, <2>13 DEF MailInv, GameStep
  <1>4. ASSUME NEW p \in Players, Mail!Recv(p)
        PROVE  MailInv' /\ GameStep(Live, Live')
    <2>1. /\ pc[p] = "recv" /\ queue[p] # << >> /\ papa' = [papa EXCEPT ![p] = Head(queue[p])]
          /\ queue' = [queue EXCEPT ![p] = Tail(@)] /\ pc' = [pc EXCEPT ![p] = "turn"]
          /\ UNCHANGED <<removed, live, winners>>
      BY <1>1, <1>4 DEF Mail!Recv
    <2>2. /\ queue[p] \in Seq(Potatoes) /\ Len(queue[p]) = 1
          /\ Head(queue[p]).players = Cardinality(Live)
          /\ pc[main] = "wait" /\ queue[main] = << >>
          /\ \A q \in Players : q # p => pc[q] = "recv" /\ queue[q] = << >>
      BY <1>1, <1>2, <2>1 DEF OnePotato, Holds
    <2>3. Head(queue[p]) \in Potatoes /\ Tail(queue[p]) = << >>
      <3>1. /\ Head(queue[p]) \in Potatoes /\ Tail(queue[p]) \in Seq(Potatoes)
            /\ Len(Tail(queue[p])) = 0
        BY <2>1, <2>2, HeadTailProperties
      <3>2. QED BY <3>1, EmptySeq
    <2>4. Live' = Live
      BY <2>1 DEF Live
    <2>5. /\ papa' \in [Players -> Potatoes] /\ papa'[p].players = Cardinality(Live')
      BY <1>1, <2>1, <2>2, <2>3, <2>4
    <2>6. /\ queue' \in [Processes -> Seq(Potatoes)] /\ queue'[main] = << >>
          /\ \A q \in Players : queue'[q] = << >>
      BY <1>1, <1>2, <2>1, <2>2, <2>3
    <2>7. /\ pc' \in [Processes -> At] /\ pc'[main] = "wait" /\ pc'[p] = "turn"
          /\ \A q \in Players : q # p => pc'[q] = "recv"
      BY <1>1, <1>2, <2>1, <2>2
    <2>8. OnePotato'
      BY <1>1, <2>1, <2>5, <2>6, <2>7 DEF OnePotato, Holds
    <2>9. MailTypes'
      BY <1>1, <2>1, <2>5, <2>6, <2>7 DEF MailTypes
    <2>10. QED BY <2>1, <2>4, <2>8, <2>9 DEF MailInv, GameStep
  <1>5. ASSUME NEW p \in Players, pc[p] = "turn"
        PROVE  papa[p] \in Potatoes /\ papa[p].players = Cardinality(Live)
    BY <1>1, <1>5 DEF OnePotato
  <1>6. ASSUME NEW p \in Players, NEW m \in Potatoes,
               queue' = Mail!Sent(Mail!NextProcess(p), m)
        PROVE  queue' \in [Processes -> Seq(Potatoes)]
    BY <1>1, <1>2, <1>6, NextIsPlayer, SentType
  <1>7. ASSUME NEW p \in Players, Mail!TurnWins(p)
        PROVE  MailInv' /\ GameStep(Live, Live')
    <2>1. /\ pc[p] = "turn" /\ live[p] /\ papa[p].players = 1 /\ winners' = {p}
          /\ papa' = [papa EXCEPT ![p].value = -1] /\ pc' = [pc EXCEPT ![p] = "end"]
          /\ queue' = Mail!Sent(Mail!NextProcess(p), papa'[p])
          /\ UNCHANGED <<removed, live>>
      BY <1>7 DEF Mail!TurnWins
    <2>2. p \in Live /\ Live \subseteq Players /\ Live' = Live
      BY <2>1 DEF Live
    <2>3. Cardinality(Live) = 1
      BY <1>5, <2>1
    <2>4. Live = {p}
      BY <2>2, <2>3, PlayerLeaves
    <2>5. papa'[p] \in Potatoes /\ papa' \in [Players -> Potatoes]
      <3>1. papa'[p] = [papa[p] EXCEPT !.value = -1]
        BY <1>1, <2>1
      <3>2. papa'[p] \in Potatoes
        <4>1. papa[p] \in Potatoes /\ -1 \in Int
          BY <1>1
        <4>2. QED BY <3>1, <4>1 DEF Potatoes
      <3>3. QED BY <1>1, <2>1, <3>2
    <2>6. queue' \in [Processes -> Seq(Potatoes)]
      BY <1>6, <2>1, <2>5
    <2>7. pc' \in [Processes -> At] /\ pc'[p] = "end"
      BY <1>1, <1>2, <2>1
    <2>8. MailTypes'
      BY <1>1, <2>1, <2>5, <2>6, <2>7 DEF MailTypes
    <2>9. QED BY <2>1, <2>2, <2>3, <2>4, <2>7, <2>8 DEF MailInv, GameStep
  <1>8. ASSUME NEW p \in Players, Mail!TurnPlays(p)
        PROVE  MailInv' /\ GameStep(Live, Live')
    <2>1. /\ pc[p] = "turn" /\ live[p] /\ papa[p].players # 1 /\ UNCHANGED <<removed, winners>>
          /\ queue' = Mail!Sent(Mail!NextProcess(p), papa'[p]) /\ pc' = [pc EXCEPT ![p] = "recv"]
      BY <1>8 DEF Mail!TurnPlays
    <2>2. p \in Live /\ Live \subseteq Players
      BY <2>1 DEF Live
    <2>3. /\ Cardinality(Live) \in Nat \ {0} /\ Cardinality(Live \ {p}) = Cardinality(Live) - 1
      BY <2>2, PlayerLeaves
    <2>4. papa[p].players = Cardinality(Live) /\ Cardinality(Live) > 1
      BY <1>5, <2>1, <2>3
    <2>5. /\ papa' \in [Players -> Potatoes] /\ live' \in [Players -> BOOLEAN]
          /\ \/ Live' = Live /\ papa'[p].players = papa[p].players
             \/ Live' = Live \ {p} /\ papa'[p].players = papa[p].players - 1
      BY <1>1, <1>8, <2>3, <2>4, MailPlays
    <2>6. papa'[p].players = Cardinality(Live') /\ papa'[p] \in Potatoes
      BY <2>3, <2>4, <2>5
    <2>7. OnePotato'
      BY <1>1, <2>1, <2>6, PotatoPassed
    <2>8. queue' \in [Processes -> Seq(Potatoes)] /\ pc' \in [Processes -> At]
      BY <1>1, <1>6, <2>1, <2>6
    <2>9. MailTypes'
      BY <1>1, <2>1, <2>5, <2>8 DEF MailTypes
    <2>10. QED BY <2>1, <2>2, <2>4, <2>5, <2>7, <2>9 DEF MailInv, GameStep
  <1>9. ASSUME NEW p \in Players, Mail!TurnOut(p)
        PROVE  MailInv' /\ GameStep(Live, Live')
    <2>1. /\ pc[p] = "turn" /\ UNCHANGED <<removed, papa, live, winners>>
          /\ queue' = Mail!Sent(Mail!NextProcess(p), papa[p]) /\ pc' = [pc EXCEPT ![p] = "recv"]
      BY <1>1, <1>9 DEF Mail!TurnOut
    <2>2. Live' = Live
      BY <2>1 DEF Live
    <2>3. papa[p] \in Potatoes /\ papa[p].players = Cardinality(Live')
      BY <1>5, <2>1, <2>2
    <2>4. OnePotato'
      BY <1>1, <2>1, <2>3, PotatoPassed
    <2>5. queue' \in [Processes -> Seq(Potatoes)] /\ pc' \in [Processes -> At]
      BY <1>1, <1>6, <2>1, <2>3
    <2>6. MailTypes'
      BY <1>1, <2>1, <2>5 DEF MailTypes
    <2>7. QED BY <2>1, <2>2, <2>4, <2>6 DEF MailInv, GameStep
  <1>10. /\ ~ Mail!MainRecv
         /\ \A p \in Players : ~ Mail!End(p)
         /\ \A p \in Processes : ~ Mail!Exit(p)
    <2>1. \A p \in Processes : p \in Players \/ p = main
      BY RingConstants DEF Processes, Players, Mail!Main
    <2>2. QED BY <1>1, <2>1 DEF OnePotato, Mail!MainRecv, Mail!End, Mail!Exit
  <1>11. QED BY <1>3, <1>4, <1>7, <1>8, <1>9, <1>10, SameRing
             DEF Mail!Next, Mail!Process, Mail!Main, Processes

(* After somebody has won nobody plays: the others are out.                *)
LEMMA MailAfter ==
  ASSUME MailInv, winners # {}, Mail!Next
  PROVE  MailInv' /\ GameStep(Live, Live')
  <1> DEFINE At == {"start", "wait", "recv", "turn", "end", "exit", "gone"}
  <1>1. /\ queue \in [Processes -> Seq(Potatoes)] /\ removed \in BOOLEAN
        /\ papa \in [Players -> Potatoes] /\ live \in [Players -> BOOLEAN]
        /\ pc \in [Processes -> At]
    BY DEF MailInv, MailTypes
  <1>2. Players \subseteq Processes /\ Mail!Main \in Processes \ Players
    BY PlayersFinite DEF Mail!Main
  <1>3. PICK w \in Players : winners = {w} /\ Live = {w} /\ pc[w] \in {"end", "exit", "gone"}
    BY DEF MailInv
  <1>4. ASSUME NEW q \in Processes, NEW v \in At, pc' = [pc EXCEPT ![q] = v],
               pc[q] \in {"end", "exit"} => v \in {"exit", "gone"}, pc[q] # "gone",
               queue' \in [Processes -> Seq(Potatoes)], removed' \in BOOLEAN,
               papa' \in [Players -> Potatoes], live' = live, winners' = winners
        PROVE  MailInv' /\ GameStep(Live, Live')
    <2>1. Live' = Live
      BY <1>4 DEF Live
    <2>2. pc' \in [Processes -> At] /\ pc'[w] \in {"end", "exit", "gone"}
      BY <1>1, <1>2, <1>3, <1>4
    <2>3. MailTypes'
      BY <1>1, <1>4, <2>2 DEF MailTypes
    <2>4. QED BY <1>3, <1>4, <2>1, <2>2, <2>3 DEF MailInv, GameStep
  <1>5. ASSUME NEW p \in Players, pc[p] = "turn" PROVE ~ live[p]
    BY <1>3, <1>5 DEF Live
  <1>6. CASE Mail!Start
    <2>1. PICK first \in Players : queue' = Mail!Sent(first, Papa(NumPlayers, FirstValue))
      BY <1>6, SameRing DEF Mail!Start
    <2>2. Papa(NumPlayers, FirstValue) \in Potatoes
      BY RingConstants DEF Papa, Potatoes
    <2>3. queue' \in [Processes -> Seq(Potatoes)]
      BY <1>1, <1>2, <2>1, <2>2, SentType
    <2>4. /\ pc[Mail!Main] = "start" /\ pc' = [pc EXCEPT ![Mail!Main] = "wait"]
          /\ UNCHANGED <<removed, papa, live, winners>>
      BY <1>6 DEF Mail!Start
    <2>5. QED BY <1>1, <1>2, <1>4, <2>3, <2>4
  <1>7. CASE Mail!MainRecv
    <2>1. /\ pc[Mail!Main] = "wait" /\ pc' = [pc EXCEPT ![Mail!Main] = "exit"]
          /\ UNCHANGED <<queue, removed, papa, live, winners>>
      BY <1>7 DEF Mail!MainRecv
    <2>2. QED BY <1>1, <1>2, <1>4, <2>1
  <1>8. ASSUME NEW p \in Players, Mail!Recv(p)
        PROVE  MailInv' /\ GameStep(Live, Live')
    <2>1. /\ pc[p] = "recv" /\ pc' = [pc EXCEPT ![p] = "turn"]
          /\ UNCHANGED <<removed, live, winners>>
      BY <1>8 DEF Mail!Recv
    <2>2. CASE removed
      <3>1. queue' = queue /\ papa' = [papa EXCEPT ![p] = Papa(0, 0)]
        BY <1>8, <2>2, SameRing DEF Mail!Recv
      <3>2. Papa(0, 0) \in Potatoes
        BY DEF Papa, Potatoes
      <3>3. QED BY <1>1, <1>2, <1>4, <2>1, <3>1, <3>2
    <2>3. CASE ~ removed
      <3>1. /\ queue[p] # << >> /\ queue' = [queue EXCEPT ![p] = Tail(@)]
            /\ papa' = [papa EXCEPT ![p] = Head(queue[p])]
        BY <1>8, <2>3 DEF Mail!Recv
      <3>2. Head(queue[p]) \in Potatoes /\ Tail(queue[p]) \in Seq(Potatoes)
        BY <1>1, <1>2, <3>1, HeadTailProperties
      <3>3. queue' \in [Processes -> Seq(Potatoes)] /\ papa' \in [Players -> Potatoes]
        BY <1>1, <3>1, <3>2
      <3>4. QED BY <1>1, <1>2, <1>4, <2>1, <3>3
    <2>4. QED BY <2>2, <2>3
  <1>9. ASSUME NEW p \in Players, Mail!TurnOut(p)
        PROVE  MailInv' /\ GameStep(Live, Live')
    <2>1. /\ pc[p] = "turn" /\ UNCHANGED <<removed, papa, live, winners>>
          /\ queue' = Mail!Sent(Mail!NextProcess(p), papa[p])
      BY <1>9 DEF Mail!TurnOut
    <2>2. PICK v \in {"end", "recv"} : pc' = [pc EXCEPT ![p] = v]
      BY <1>9 DEF Mail!TurnOut
    <2>3. papa[p] \in Potatoes /\ Mail!NextProcess(p) \in Processes
      BY <1>1, <1>2, NextIsPlayer
    <2>4. queue' \in [Processes -> Seq(Potatoes)]
      BY <1>1, <2>1, <2>3, SentType, Zenon
    <2>5. QED BY <1>1, <1>2, <1>4, <2>1, <2>2, <2>4
  <1>10. ASSUME NEW p \in Players, Mail!End(p)
         PROVE  MailInv' /\ GameStep(Live, Live')
    <2>1. /\ pc[p] = "end" /\ pc' = [pc EXCEPT ![p] = "exit"]
          /\ UNCHANGED <<removed, papa, live, winners>>
          /\ queue' = queue \/ queue' = Mail!Sent(Mail!Main, papa[p])
      BY <1>10 DEF Mail!End
    <2>2. papa[p] \in Potatoes
      BY <1>1
    <2>3. queue' \in [Processes -> Seq(Potatoes)]
      <3>1. queue \in [Processes -> Seq(Potatoes)] /\ Mail!Main \in Processes
        BY <1>1, <1>2
      <3>2. Mail!Sent(Mail!Main, papa[p]) \in [Processes -> Seq(Potatoes)]
        BY <2>2, <3>1, SentType, Zenon
      <3>3. QED BY <2>1, <3>1, <3>2, Zenon
    <2>4. QED BY <1>1, <1>2, <1>4, <2>1, <2>3
  <1>11. ASSUME NEW p \in Processes, Mail!Exit(p)
         PROVE  MailInv' /\ GameStep(Live, Live')
    <2>1. /\ pc[p] = "exit" /\ pc' = [pc EXCEPT ![p] = "gone"] /\ removed' \in BOOLEAN
          /\ UNCHANGED <<queue, papa, live, winners>>
      BY <1>11 DEF Mail!Exit
    <2>2. QED BY <1>1, <1>4, <2>1
  <1>12. \A p \in Players : ~ Mail!TurnWins(p) /\ ~ Mail!TurnPlays(p)
    BY <1>5 DEF Mail!TurnWins, Mail!TurnPlays
  <1>13. QED BY <1>6, <1>7, <1>8, <1>9, <1>10, <1>11, <1>12, SameRing
             DEF Mail!Next, Mail!Process, Mail!Main, Processes

(* What each program of the hot potato keeps.                              *)
PotatoInv ==
  /\ program = "mail" => MailInv
  /\ program = "shm" => ShMInv
  /\ program = "threads" => ThreadsInv

(* The programs start with every player in the game.                       *)
LEMMA PotatoInit ==
  ASSUME Init
  PROVE  PotatoInv /\ Playing = Players /\ winners = {}
  <1>1. /\ NumPlayers \in Nat /\ FirstValue \in Int /\ Papa(NumPlayers, FirstValue) \in Potatoes
        /\ Papa(NumPlayers, FirstValue).players = NumPlayers
    BY RingConstants DEF Papa, Potatoes
  <1>2. winners = {}
    BY DEF Init, Mail!Init, ShM!Init, Threads!Init
  <1>3. CASE program = "mail"
    <2>1. /\ queue = [p \in Processes |-> << >>] /\ removed = FALSE
          /\ papa = [p \in Players |-> Papa(NumPlayers, FirstValue)]
          /\ live = [p \in Players |-> TRUE]
          /\ pc = [p \in Processes |-> IF p = Mail!Main THEN "start" ELSE "recv"]
      BY <1>3, SameRing DEF Init, Mail!Init, Mail!Main, Processes
    <2>2. Live = Players
      BY <2>1 DEF Live
    <2>3. MailTypes
      <3>1. queue \in [Processes -> Seq(Potatoes)]
        BY <2>1
      <3>2. papa \in [Players -> Potatoes]
        BY <1>1, <2>1
      <3>3. removed \in BOOLEAN /\ live \in [Players -> BOOLEAN]
        BY <2>1
      <3>4. pc \in [Processes -> {"start", "wait", "recv", "turn", "end", "exit", "gone"}]
        BY <2>1
      <3>5. QED BY <3>1, <3>2, <3>3, <3>4 DEF MailTypes
    <2>4. Players \subseteq Processes /\ Mail!Main \in Processes \ Players
      BY PlayersFinite DEF Mail!Main
    <2>5. /\ pc[Mail!Main] = "start" /\ queue[Mail!Main] = << >> /\ ~ removed
          /\ \A p \in Players : pc[p] = "recv" /\ queue[p] = << >>
      BY <2>1, <2>4
    <2>6. OnePotato
      BY <2>2, <2>5 DEF OnePotato, Holds
    <2>7. Playing = Live
      BY <1>3 DEF Playing, Live
    <2>8. QED BY <1>2, <1>3, <2>2, <2>3, <2>6, <2>7 DEF PotatoInv, MailInv
  <1>4. CASE program = "shm"
    <2>1. /\ papa = Papa(NumPlayers, FirstValue) /\ live = [p \in Players |-> TRUE]
          /\ pc = [p \in Processes |-> IF p = NumPlayers THEN "start" ELSE "wait"]
      BY <1>4, SameRing DEF Init, ShM!Init, ShM!Main, Processes
    <2>2. Live = Players /\ Playing = Live
      BY <1>4, <2>1 DEF Live, Playing
    <2>3. QED BY <1>1, <1>2, <1>4, <2>1, <2>2, PlayersFinite DEF PotatoInv, ShMInv
  <1>5. CASE program = "threads"
    <2>1. /\ papa = Papa(NumPlayers, FirstValue)
          /\ pc = [p \in Processes |-> IF p = NumPlayers THEN "start" ELSE "wait"]
      BY <1>5, SameRing DEF Init, Threads!Init, Threads!Main, Processes
    <2>2. NotGone = Players
      BY <2>1, PlayersFinite DEF NotGone
    <2>3. Playing = NotGone \cup winners
      BY <1>5 DEF Playing, NotGone
    <2>4. QED BY <1>1, <1>2, <1>5, <2>1, <2>2, <2>3, PlayersFinite DEF PotatoInv, ThreadsInv
  <1>6. CASE program \notin {"mail", "shm", "threads"}
    BY <1>2, <1>6 DEF PotatoInv, Playing
  <1>7. QED BY <1>3, <1>4, <1>5, <1>6

(* A step of any of the programs is a step of the game.                    *)
LEMMA PotatoStep ==
  ASSUME PotatoInv, [Next]_vars
  PROVE  PotatoInv' /\ GameStep(Playing, Playing')
  <1>1. CASE UNCHANGED vars
    <2>1. UNCHANGED <<program, pc, queue, removed, papa, live, winners>>
      BY <1>1 DEF vars, potato
    <2>2. Playing' = Playing
      BY <2>1 DEF Playing
    <2>3. UNCHANGED <<Live, NotGone>>
      BY <2>1 DEF Live, NotGone
    <2>4. MailInv => MailInv'
      BY <2>1, <2>3 DEF MailInv, MailTypes, OnePotato, Holds
    <2>5. (ShMInv => ShMInv') /\ (ThreadsInv => ThreadsInv')
      BY <2>1, <2>3 DEF ShMInv, ThreadsInv
    <2>6. QED BY <2>1, <2>2, <2>4, <2>5 DEF PotatoInv, GameStep
  <1>2. CASE Run
    <2>1. program' = program
      BY <1>2 DEF Run
    <2>2. CASE program = "mail"
      <3>1. Mail!Next /\ MailInv
        BY <1>2, <2>2 DEF Run, Potato, Philosophers, Monkeys, Keyboard, PotatoInv
      <3>2. MailInv' /\ GameStep(Live, Live')
        BY <3>1, MailBefore, MailAfter
      <3>3. Playing = Live /\ Playing' = Live'
        BY <2>1, <2>2 DEF Playing, Live
      <3>4. QED BY <2>1, <2>2, <3>2, <3>3 DEF PotatoInv
    <2>3. CASE program = "shm"
      <3>1. ShM!Next /\ ShMInv
        BY <1>2, <2>3 DEF Run, Potato, Philosophers, Monkeys, Keyboard, PotatoInv
      <3>2. ShMInv' /\ GameStep(Live, Live')
        BY <3>1, ShMStep
      <3>3. Playing = Live /\ Playing' = Live'
        BY <2>1, <2>3 DEF Playing, Live
      <3>4. QED BY <2>1, <2>3, <3>2, <3>3 DEF PotatoInv
    <2>4. CASE program = "threads"
      <3>1. Threads!Next /\ ThreadsInv
        BY <1>2, <2>4 DEF Run, Potato, Philosophers, Monkeys, Keyboard, PotatoInv
      <3>2. ThreadsInv' /\ GameStep(NotGone \cup winners, (NotGone \cup winners)')
        BY <3>1, ThreadsStep
      <3>3. Playing = NotGone \cup winners /\ Playing' = (NotGone \cup winners)'
        BY <2>1, <2>4 DEF Playing, NotGone
      <3>4. QED BY <2>1, <2>4, <3>2, <3>3 DEF PotatoInv
    <2>5. CASE program \notin {"mail", "shm", "threads"}
      <3>1. winners' = winners
        BY <1>2, <2>5 DEF Run, Potato, Philosophers, Monkeys, Keyboard
      <3>2. Playing = Players /\ Playing' = Players
        BY <2>1, <2>5 DEF Playing
      <3>3. QED BY <2>1, <2>5, <3>1, <3>2 DEF PotatoInv, GameStep
    <2>6. QED BY <2>2, <2>3, <2>4, <2>5
  <1>3. CASE Over
    BY <1>1, <1>3 DEF Over
  <1>4. QED BY <1>1, <1>2, <1>3 DEF Next

(***************************************************************************)
(* Each program of the hot potato implements HotPotato for any number of   *)
(* players, either rotation and any values of the potato: the players go   *)
(* out one at a time, never the last, and the last one is announced, once  *)
(* (TP1/MailBox, TP1/ShM, also with a leftover in semaphore 0, and         *)
(* TP1/PThreads).                                                          *)
(***************************************************************************)
THEOREM ProgramsImplementHotPotato == Spec => ImplementsHotPotato
  <1>1. Init => PotatoInv /\ Game!Init
    BY PotatoInit DEF Game!Init
  <1>2. PotatoInv /\ [Next]_vars => PotatoInv'
    BY PotatoStep
  <1>3. ASSUME PotatoInv, [Next]_vars
        PROVE  [Game!GoOut \/ Game!Win]_<<Playing, winners>>
    <2>1. GameStep(Playing, Playing')
      BY <1>3, PotatoStep
    <2>2. \A S : Game!Cardinality(S) = Cardinality(S)
      BY DEF Game!Cardinality, Cardinality
    <2>3. QED BY <2>1, <2>2 DEF GameStep, Game!GoOut, Game!Win
  <1>4. QED BY <1>1, <1>2, <1>3, PTL DEF Spec, ImplementsHotPotato, Game!Spec
=============================================================================
