--------------------------- MODULE PingPongProofs ---------------------------
(***************************************************************************)
(* Proofs about the programs in which two players print in turn, for any   *)
(* number of messages and of killed runs.                                  *)
(***************************************************************************)
EXTENDS PingPong, TLAPS

allVars == <<program, pingPongVars>>
PingPongSpec == PingPongInit /\ [][PingPongNext]_allVars

(* Whose turn it is in a program whose first player is f, by where the one *)
(* token is: at a player's own semaphore or flag or, at the step holding,  *)
(* in a player's hands.                                                    *)
Turn(f, token, holding) ==
  LET g == Other(f)
  IN \/ /\ token[f] = 1 /\ token[g] = 0 /\ pc[f] # holding /\ pc[g] # holding
        /\ printed[f] = printed[g]
     \/ /\ token[f] = 0 /\ token[g] = 0 /\ pc[f] = holding /\ pc[g] # holding
        /\ printed[f] = printed[g] + 1
     \/ /\ token[f] = 0 /\ token[g] = 1 /\ pc[f] # holding /\ pc[g] # holding
        /\ printed[f] = printed[g] + 1
     \/ /\ token[f] = 0 /\ token[g] = 0 /\ pc[f] # holding /\ pc[g] = holding
        /\ printed[f] = printed[g]

-----------------------------------------------------------------------------
(* task14.c and task16a.c. The invariant says where each process can be,   *)
(* what is left of the names, where the token is, and what a run that is   *)
(* killed now leaves to the next.                                          *)
SemTyped ==
  /\ named \in BOOLEAN /\ kills \in Nat
  /\ pc \in [Player -> {"open_1", "open_2", "not_created", "wait", "post",
                        "unlink_1", "unlink_2", "done"}]
  /\ pc[1] \in {"open_1", "open_2", "wait", "post", "done"}
  /\ pc[2] \in {"not_created", "wait", "post", "unlink_1", "unlink_2", "done"}
  /\ pc[1] \in {"open_1", "open_2"} <=> pc[2] = "not_created"
  /\ pc[2] \in {"unlink_1", "unlink_2"} => named
  /\ exists \subseteq Player
  /\ sem \in [Player -> Nat] /\ found \in [Player -> Nat]
  /\ printed \in [Player -> 0 .. Loops]

SemCounts ==
  /\ ~ Sem!Running => printed = [t \in Player |-> 0]
  /\ \A t \in Player : pc[t] = "wait" => printed[t] < Loops
  /\ \A t \in Player : pc[t] \in {"unlink_1", "unlink_2", "done"} => printed[t] = Loops

SemNames ==
  /\ pc[1] = "open_2" => 1 \in exists /\ found[1] = sem[1]
  /\ Sem!Running => exists = IF pc[2] = "unlink_2" THEN {2}
                             ELSE IF pc[2] = "done" /\ named THEN {} ELSE Player

SemTurn ==
  Sem!Running /\ found[1] + found[2] = 1 =>
    Turn(IF found[1] = 1 THEN 1 ELSE 2, sem, "post")

SemFirstRun ==
  /\ ~ named => kills = 0
  /\ kills = 0 /\ pc[1] = "open_1" => exists = {}
  /\ kills = 0 /\ pc[1] = "open_2" => exists = {1} /\ found[1] = 1
  /\ kills = 0 /\ Sem!Running => found[1] = 1 /\ found[2] = 0

SemTokens ==
  kills <= 1 =>
    /\ pc[1] = "open_1" => Sem!ValueOpened(1) + Sem!ValueOpened(2) <= 1
    /\ pc[1] = "open_2" => sem[1] + Sem!ValueOpened(2) <= 1
    /\ Sem!Running => Sem!Tokens <= 1

SemInv ==
  program = "task14, task16a" =>
    SemTyped /\ SemCounts /\ SemNames /\ SemTurn /\ SemFirstRun /\ SemTokens

-----------------------------------------------------------------------------
OneTyped ==
  /\ pc \in [One!Thread -> {"not_created", "start", "in_wait", "in_wait_1", "in_wait_2",
                            "join", "done"}]
  /\ \A t \in Player : pc[t] \in {"not_created", "start", "in_wait", "done"}
  /\ pc[One!Main] \in {"start", "in_wait_1", "in_wait_2", "join", "done"}
  /\ waiting \subseteq {t \in One!Thread : One!InWait(t)}
  /\ value \in One!Thread \cup {One!NoValue}
  /\ printed \in [Player -> 0 .. Loops]

(* What main has seen of the players.                                      *)
OneMet ==
  /\ pc[One!Main] = "start" =>
       value = One!NoValue /\ \A t \in Player : pc[t] = "not_created"
  /\ pc[One!Main] = "in_wait_1" =>
       /\ pc[2] = "not_created"
       /\ \/ pc[1] = "start" /\ value = One!NoValue
          \/ pc[1] = "in_wait" /\ value = One!Main
  /\ pc[One!Main] = "in_wait_2" =>
       /\ pc[1] = "in_wait"
       /\ \/ pc[2] = "start" /\ value = One!NoValue
          \/ pc[2] = "in_wait" /\ value = One!Main
  /\ pc[One!Main] \in {"join", "done"} =>
       value \in Player /\ \A t \in Player : pc[t] \in {"in_wait", "done"}

OneTurn ==
  /\ value \notin Player => printed = [t \in Player |-> 0]
  /\ value = 1 => printed[1] = printed[2]
  /\ value = 2 => printed[1] = printed[2] + 1
  /\ \A t \in Player : pc[t] = "in_wait" => printed[t] < Loops

OneInv ==
  program = "task12_" => OneTyped /\ OneMet /\ OneTurn /\ One!SignalUnderWay

-----------------------------------------------------------------------------
TwoTyped ==
  /\ pc \in [Two!Thread -> {"wait_1", "in_wait_1", "wait_2", "in_wait_2", "signal",
                            "join", "start", "in_wait", "signal_other", "wait",
                            "unlock", "done"}]
  /\ pc[Two!Main] \in {"wait_1", "in_wait_1", "wait_2", "in_wait_2", "signal", "join", "done"}
  /\ \A t \in Player : pc[t] \in {"start", "in_wait", "signal_other", "wait", "unlock", "done"}
  /\ mutex \in [Player -> Two!Thread \cup {Two!Nobody}]
  /\ flag \in [Player -> {0, 1}]
  /\ printed \in [Player -> 0 .. Loops]

NonePrinted == printed = [t \in Player |-> 0]
NoFlag == flag = [t \in Player |-> 0]

(* main waits on monitor k for its player; before that it holds both.      *)
MainHolds == mutex = [k \in Player |-> Two!Main] /\ NoFlag /\ NonePrinted
MainMeets(k) ==
  /\ mutex[Other(k)] = Two!Main /\ flag[Other(k)] = 0 /\ printed[Other(k)] = 0
  /\ \/ pc[k] = "start" /\ mutex[k] = Two!Nobody /\ flag[k] = 0 /\ printed[k] = 0
     \/ pc[k] = "in_wait" /\ mutex[k] = Two!Nobody /\ flag[k] = 1 /\ printed[k] = 0
     \/ pc[k] = "signal_other" /\ mutex[k] = k /\ flag[k] = 0 /\ printed[k] = 1

TwoMet ==
  /\ pc[Two!Main] = "wait_1" => MainHolds /\ pc[1] = "start" /\ pc[2] = "start"
  /\ pc[Two!Main] = "in_wait_1" => MainMeets(1) /\ pc[2] = "start"
  /\ pc[Two!Main] = "wait_2" => MainHolds /\ pc[1] = "in_wait" /\ pc[2] = "start"
  /\ pc[Two!Main] = "in_wait_2" => pc[1] = "in_wait" /\ MainMeets(2)
  /\ pc[Two!Main] = "signal" => MainHolds /\ pc[1] = "in_wait" /\ pc[2] = "in_wait"

TwoTurn ==
  pc[Two!Main] \in {"join", "done"} =>
    /\ \A t \in Player : /\ pc[t] # "start"
                         /\ pc[t] \in {"in_wait", "wait"} => printed[t] < Loops
    /\ Turn(1, flag, "signal_other")

TwoInv == program = "task12" => TwoTyped /\ TwoMet /\ TwoTurn

-----------------------------------------------------------------------------
LEMMA Players ==
  /\ Player = {1, 2} /\ Sem!Player = Player /\ Two!Player = Player /\ One!Player = Player
  /\ Other(1) = 2 /\ Other(2) = 1
  /\ \A t : Sem!Other(t) = Other(t) /\ Two!Other(t) = Other(t) /\ One!Other(t) = Other(t)
  /\ Loops \in Nat /\ Loops > 0
  BY LoopsAssumption DEF Player, Other, Sem!Player, Two!Player, One!Player,
                         Sem!Other, Two!Other, One!Other

(* What the steps of the semaphores' programs preserve.                    *)
SemParts == SemTyped /\ SemCounts /\ SemNames /\ SemTurn /\ SemFirstRun /\ SemTokens

LEMMA SemInitInv == Sem!Init => SemParts
<1> SUFFICES ASSUME Sem!Init PROVE SemParts
  OBVIOUS
<1> USE Players DEF Sem!Init, Sem!Running
<1>1. SemTyped
  BY DEF SemTyped, Sem!Initially
<1>2. SemCounts /\ SemNames /\ SemTurn /\ SemFirstRun
  BY DEF SemCounts, SemNames, SemTurn, SemFirstRun
<1>3. SemTokens
  BY DEF SemTokens, Sem!ValueOpened, Sem!Initially
<1>4. QED
  BY <1>1, <1>2, <1>3 DEF SemParts

LEMMA SemOpensInv == SemParts /\ Sem!Opens => SemParts'
<1> SUFFICES ASSUME SemParts, Sem!Opens PROVE SemParts'
  OBVIOUS
<1> USE Players DEF SemParts, Sem!Running
<1>1. CASE Sem!Open(1, "open_1", "open_2")
  <2>1. /\ pc[1] = "open_1" /\ pc' = [pc EXCEPT ![1] = "open_2"]
        /\ exists' = exists \cup {1} /\ sem' = [sem EXCEPT ![1] = Sem!ValueOpened(1)]
        /\ found' = [found EXCEPT ![1] = Sem!ValueOpened(1)]
        /\ UNCHANGED <<named, printed, kills>>
    BY <1>1 DEF Sem!Open, SemTyped
  <2>2. Sem!ValueOpened(1) \in Nat /\ Sem!ValueOpened(2) \in Nat
        /\ Sem!ValueOpened(2)' = Sem!ValueOpened(2)
    BY <2>1 DEF SemTyped, Sem!ValueOpened, Sem!Initially
  <2>3. SemTyped'
    BY <2>1, <2>2 DEF SemTyped
  <2>4. pc'[2] = "not_created"
    BY <2>1 DEF SemTyped
  <2>5. SemCounts' /\ SemNames' /\ SemTurn'
    BY <2>1, <2>2, <2>4 DEF SemTyped, SemCounts, SemNames, SemTurn
  <2>6. SemFirstRun'
    BY <2>1, <2>2, <2>4 DEF SemTyped, SemFirstRun, Sem!ValueOpened, Sem!Initially
  <2>7. SemTokens'
    BY <2>1, <2>2, <2>4 DEF SemTyped, SemTokens
  <2>8. QED
    BY <2>3, <2>5, <2>6, <2>7
<1>2. CASE Sem!Open(2, "open_2", "wait")
  <2>1. /\ pc[1] = "open_2" /\ pc' = [t \in Player |-> "wait"]
        /\ exists' = exists \cup {2} /\ sem' = [sem EXCEPT ![2] = Sem!ValueOpened(2)]
        /\ found' = [found EXCEPT ![2] = Sem!ValueOpened(2)]
        /\ UNCHANGED <<named, printed, kills>>
    BY <1>2 DEF Sem!Open, SemTyped
  <2>2. Sem!ValueOpened(2) \in Nat
    BY DEF SemTyped, Sem!ValueOpened, Sem!Initially
  <2>3. SemTyped'
    BY <2>1, <2>2 DEF SemTyped
  <2>4. /\ pc[2] = "not_created" /\ printed = [t \in Player |-> 0]
        /\ 1 \in exists /\ found[1] = sem[1] /\ sem[1] \in Nat
    BY <2>1 DEF SemTyped, SemCounts, SemNames
  <2>5. SemCounts' /\ SemNames'
    <3>1. pc'[1] = "wait" /\ pc'[2] = "wait" /\ printed'[1] = 0 /\ printed'[2] = 0
      BY <2>1, <2>4
    <3>2. SemCounts'
      BY <3>1 DEF SemCounts
    <3>3. exists' = Player
      BY <2>1, <2>4 DEF SemTyped
    <3>4. QED
      BY <3>1, <3>2, <3>3 DEF SemNames
  <2>6. SemTurn'
    <3>1. sem'[1] = found'[1] /\ sem'[2] = found'[2] /\ sem'[1] \in Nat /\ sem'[2] \in Nat
          /\ pc'[1] = "wait" /\ pc'[2] = "wait" /\ printed'[1] = 0 /\ printed'[2] = 0
      BY <2>1, <2>2, <2>4 DEF SemTyped
    <3>2. QED
      BY <3>1 DEF SemTurn, Turn
  <2>7. SemFirstRun'
    BY <2>1, <2>4 DEF SemTyped, SemFirstRun, Sem!ValueOpened, Sem!Initially
  <2>8. SemTokens'
    BY <2>1, <2>2, <2>4 DEF SemTyped, SemTokens, Sem!Tokens
  <2>9. QED
    BY <2>3, <2>5, <2>6, <2>7, <2>8
<1>3. QED
  BY <1>1, <1>2 DEF Sem!Opens

LEMMA SemPrintInv ==
  ASSUME SemParts, NEW t \in Player, Sem!WaitAndPrint(t) PROVE SemParts'
<1> USE Players DEF SemParts, Sem!Running
<1>1. /\ pc[t] = "wait" /\ sem[t] > 0 /\ sem' = [sem EXCEPT ![t] = @ - 1]
      /\ printed' = [printed EXCEPT ![t] = @ + 1] /\ pc' = [pc EXCEPT ![t] = "post"]
      /\ UNCHANGED <<named, exists, found, kills>>
  BY DEF Sem!WaitAndPrint, Sem!CountsDown, Sem!Goto
<1>2. SemTyped' /\ SemCounts' /\ SemNames'
  BY <1>1 DEF SemTyped, SemCounts, SemNames
<1>3. SemTurn'
  BY <1>1 DEF SemTyped, SemTurn, Turn
<1>4. SemFirstRun' /\ SemTokens'
  BY <1>1 DEF SemTyped, SemFirstRun, SemTokens, Sem!Tokens
<1>5. QED
  BY <1>2, <1>3, <1>4

LEMMA SemPostInv ==
  ASSUME SemParts, NEW t \in Player, Sem!Post(t) PROVE SemParts'
<1> USE Players DEF SemParts, Sem!Running
<1>1. PICK next \in {"wait", "unlink_1", "done"} :
      /\ pc[t] = "post" /\ sem' = [sem EXCEPT ![Other(t)] = @ + 1]
      /\ pc' = [pc EXCEPT ![t] = next]
      /\ next = "wait" <=> printed[t] < Loops
      /\ next = "unlink_1" => named /\ t = 2
      /\ next = "done" => ~ (named /\ t = 2)
      /\ UNCHANGED <<named, exists, printed, found, kills>>
  BY DEF Sem!Post, Sem!Posted, Sem!Goto
<1>2. SemTyped' /\ SemCounts' /\ SemNames'
  BY <1>1 DEF SemTyped, SemCounts, SemNames
<1>3. SemTurn'
  BY <1>1 DEF SemTyped, SemTurn, Turn
<1>4. SemFirstRun' /\ SemTokens'
  BY <1>1 DEF SemTyped, SemFirstRun, SemTokens, Sem!Tokens
<1>5. QED
  BY <1>2, <1>3, <1>4

LEMMA SemUnlinksInv == SemParts /\ Sem!ChildUnlinks => SemParts'
<1> SUFFICES ASSUME SemParts, Sem!ChildUnlinks PROVE SemParts'
  OBVIOUS
<1> USE Players DEF SemParts, Sem!Running
<1>1. PICK k \in Player :
        /\ pc[2] = (IF k = 1 THEN "unlink_1" ELSE "unlink_2") /\ exists' = exists \ {k}
        /\ pc' = [pc EXCEPT ![2] = IF k = 1 THEN "unlink_2" ELSE "done"]
        /\ UNCHANGED <<named, sem, printed, found, kills>>
  BY DEF Sem!ChildUnlinks, Sem!Unlink, Sem!Goto
<1>2. SemTyped'
  BY <1>1 DEF SemTyped
<1>3. SemCounts'
  BY <1>1 DEF SemTyped, SemCounts
<1>4. SemNames'
  <2>1. CASE k = 1
    BY <1>1, <2>1 DEF SemTyped, SemNames
  <2>2. CASE k = 2
    BY <1>1, <2>2 DEF SemTyped, SemNames
  <2>3. QED
    BY <2>1, <2>2
<1>5. SemTurn'
  BY <1>1 DEF SemTyped, SemTurn, Turn
<1>6. SemFirstRun' /\ SemTokens'
  BY <1>1 DEF SemTyped, SemFirstRun, SemTokens, Sem!Tokens
<1>7. QED
  BY <1>2, <1>3, <1>4, <1>5, <1>6

(* What a killed run leaves to the next one: when the child of the first   *)
(* run has begun to remove the names, the token is on the parent's         *)
(* semaphore, so that the one found and the one created have one together. *)
LEMMA SemKillInv == SemParts /\ Sem!KillAndRestart => SemParts'
<1> SUFFICES ASSUME SemParts, Sem!KillAndRestart PROVE SemParts'
  OBVIOUS
<1> USE Players DEF SemParts, Sem!Running
<1>1. /\ named /\ kills' = kills + 1
      /\ pc' = [t \in Player |-> IF t = 1 THEN "open_1" ELSE "not_created"]
      /\ printed' = [t \in Player |-> 0]
      /\ UNCHANGED <<named, exists, sem, found>>
  BY DEF Sem!KillAndRestart
<1>2. SemTyped' /\ SemCounts' /\ SemNames' /\ SemTurn' /\ SemFirstRun'
  BY <1>1 DEF SemTyped, SemCounts, SemNames, SemTurn, SemFirstRun
<1>3. kills = 0 => Sem!ValueOpened(1) + Sem!ValueOpened(2) <= 1
  <2> SUFFICES ASSUME kills = 0 PROVE Sem!ValueOpened(1) + Sem!ValueOpened(2) <= 1
    OBVIOUS
  <2> USE DEF SemTyped, SemTokens, Sem!ValueOpened, Sem!Initially
  <2>1. CASE pc[1] = "open_1"
    BY <2>1
  <2>2. CASE pc[1] = "open_2"
    BY <2>2 DEF SemFirstRun, SemNames
  <2>3. CASE Sem!Running /\ pc[2] \notin {"unlink_2", "done"}
    BY <2>3 DEF SemNames, Sem!Tokens
  <2>4. CASE pc[2] = "unlink_2"
    <3>1. sem[2] = 0
      BY <2>4 DEF SemFirstRun, SemTurn, Turn, SemCounts
    <3>2. exists = {2}
      BY <2>4 DEF SemNames
    <3>3. QED
      BY <3>1, <3>2
  <2>5. CASE pc[2] = "done"
    BY <1>1, <2>5 DEF SemNames
  <2>6. QED
    BY <2>1, <2>2, <2>3, <2>4, <2>5
<1>4. SemTokens'
  BY <1>1, <1>3 DEF SemTyped, SemTokens, Sem!ValueOpened
<1>5. QED
  BY <1>2, <1>4

(* Every step of the program with semaphores.                              *)
LEMMA SemStepInv == SemParts /\ [Sem!Next]_(Sem!vars) => SemParts'
<1>1. ASSUME SemParts, UNCHANGED Sem!vars PROVE SemParts'
  BY <1>1 DEF Sem!vars, SemParts, SemTyped, SemCounts, SemNames, SemTurn, Turn, SemFirstRun,
              SemTokens, Sem!Tokens, Sem!Running, Sem!ValueOpened, Sem!Initially
<1>2. QED
  BY <1>1, Players, SemOpensInv, SemPrintInv, SemPostInv, SemUnlinksInv, SemKillInv
     DEF Sem!Next, Sem!Step, Sem!Finished

-----------------------------------------------------------------------------
(* task12_.c. *)
OneParts == OneTyped /\ OneMet /\ OneTurn /\ One!SignalUnderWay

LEMMA OneThreads == One!Thread = {0, 1, 2} /\ One!Main = 0 /\ One!NoValue = 3
BY DEF One!Thread, One!Player, One!Main, One!NoValue

(* Whoever is chosen for a signal is awake afterwards. *)
LEMMA ChosenAwake ==
  ASSUME NEW rest \in One!Signalled, waiting \subseteq One!Thread
  PROVE  /\ rest \subseteq waiting
         /\ waiting = {} \/ \E u \in waiting : rest = waiting \ {u}
BY DEF One!Signalled

LEMMA OneInitInv == One!Init => OneParts
BY Players, OneThreads
   DEF One!Init, OneParts, OneTyped, OneMet, OneTurn, One!SignalUnderWay, One!InWait

LEMMA OnePassInv ==
  ASSUME OneParts, NEW t \in One!Thread, One!PassOn(t) PROVE OneParts'
<1> USE Players, OneThreads DEF OneParts, OneTyped, One!InWait, One!Woken
<1>1. PICK rest \in One!Signalled :
        /\ One!Woken(t) /\ value # t /\ waiting' = rest \cup {t}
        /\ UNCHANGED <<pc, value, printed>>
  BY DEF One!PassOn, One!PassedOn, One!HasValue
<1>2. rest \subseteq waiting /\ (waiting = {} \/ \E u \in waiting : rest = waiting \ {u})
  BY ChosenAwake
<1>3. OneTyped' /\ OneMet' /\ OneTurn'
  BY <1>1, <1>2 DEF OneMet, OneTurn
<1>4. One!SignalUnderWay'
  BY <1>1, <1>2 DEF One!SignalUnderWay
<1>5. QED
  BY <1>3, <1>4

LEMMA OneMainInv ==
  ASSUME OneParts, One!MainStarts \/ One!MainGoesOn \/ One!MainSignals \/ One!MainJoins
  PROVE  OneParts'
<1> USE Players, OneThreads DEF OneParts, OneTyped, One!InWait, One!Woken, One!HasValue, One!Goto
<1>1. CASE One!MainStarts
  BY <1>1 DEF One!MainStarts, OneMet, OneTurn, One!SignalUnderWay
<1>2. CASE One!MainGoesOn
  <2>1. OneTyped'
    BY <1>2 DEF One!MainGoesOn, OneMet
  <2>2. OneMet' /\ OneTurn'
    BY <1>2 DEF One!MainGoesOn, OneMet, OneTurn
  <2>3. One!SignalUnderWay'
    BY <1>2 DEF One!MainGoesOn, One!SignalUnderWay
  <2>4. QED
    BY <2>1, <2>2, <2>3
<1>3. CASE One!MainSignals
  <2>1. /\ pc[0] = "in_wait_2" /\ One!Woken(0) /\ value = 0 /\ value' = 1
        /\ waiting' \in One!Signalled /\ pc' = [pc EXCEPT ![0] = "join"] /\ printed' = printed
    BY <1>3 DEF One!MainSignals
  <2>2. /\ waiting' \subseteq waiting
        /\ waiting = {} \/ \E u \in waiting : waiting' = waiting \ {u}
    BY <2>1, ChosenAwake
  <2>3. OneTyped' /\ OneMet' /\ OneTurn'
    BY <2>1, <2>2 DEF OneMet, OneTurn
  <2>4. One!SignalUnderWay'
    BY <2>1, <2>2 DEF One!SignalUnderWay
  <2>5. QED
    BY <2>3, <2>4
<1>4. CASE One!MainJoins
  <2>1. pc[0] = "join" /\ pc' = [pc EXCEPT ![0] = "done"] /\ UNCHANGED <<waiting, value, printed>>
    BY <1>4 DEF One!MainJoins
  <2>2. OneTyped' /\ OneMet' /\ OneTurn' /\ One!SignalUnderWay'
    BY <2>1 DEF OneMet, OneTurn, One!SignalUnderWay
  <2>3. QED
    BY <2>2
<1>5. QED
  BY <1>1, <1>2, <1>3, <1>4

LEMMA OneStartInv ==
  ASSUME OneParts, NEW t \in Player, One!Start(t) PROVE OneParts'
<1> USE Players, OneThreads DEF OneParts, OneTyped, One!InWait, One!Woken
<1>1. PICK rest \in One!Signalled :
        /\ pc[t] = "start" /\ value' = 0 /\ waiting' = rest \cup {t}
        /\ pc' = [pc EXCEPT ![t] = "in_wait"] /\ printed' = printed
  BY DEF One!Start, One!Goto
<1>2. rest \subseteq waiting /\ (waiting = {} \/ \E u \in waiting : rest = waiting \ {u})
  BY ChosenAwake
<1>3. value \notin Player /\ printed = [k \in Player |-> 0]
  BY <1>1 DEF OneMet, OneTurn
<1>4. OneTyped' /\ OneMet' /\ OneTurn'
  BY <1>1, <1>2, <1>3 DEF OneMet, OneTurn
<1>5. One!SignalUnderWay'
  BY <1>1, <1>2 DEF One!SignalUnderWay
<1>6. QED
  BY <1>4, <1>5

(* A player prints when the value is its own, which also says that main    *)
(* has met both and whose turn it is.                                      *)
LEMMA OnePlays ==
  ASSUME OneParts, NEW t \in Player, One!Play(t)
  PROVE  /\ pc[t] = "in_wait" /\ pc[0] \in {"join", "done"} /\ value = t
         /\ printed[t] < Loops
         /\ printed[t] = IF t = 1 THEN printed[2] ELSE printed[1] - 1
         /\ printed' = [printed EXCEPT ![t] = @ + 1]
BY Players, OneThreads DEF OneParts, OneTyped, OneMet, OneTurn, One!Play, One!HasValue

LEMMA OnePlayInv ==
  ASSUME OneParts, NEW t \in Player, One!Play(t) PROVE OneParts'
<1> USE Players, OneThreads DEF OneParts, OneTyped, One!InWait, One!Woken
<1>1. PICK rest \in One!Signalled :
        /\ One!Woken(t) /\ value' = Other(t) /\ rest \subseteq waiting'
        /\ waiting' \subseteq rest \cup {t}
        /\ \/ printed'[t] < Loops /\ pc' = pc
           \/ ~ (printed'[t] < Loops) /\ waiting' = rest /\ pc' = [pc EXCEPT ![t] = "done"]
  BY DEF One!Play, One!Goto
<1>2. rest \subseteq waiting /\ (waiting = {} \/ \E u \in waiting : rest = waiting \ {u})
  BY ChosenAwake
<1>3. OneTyped'
  BY <1>1, <1>2, OnePlays
<1>4. OneMet' /\ OneTurn'
  BY <1>1, OnePlays DEF OneMet, OneTurn
<1>5. One!SignalUnderWay'
  <2>1. Other(t) \notin {t, 0, 3} /\ t \notin waiting
    BY <1>1
  <2>2. CASE waiting = {}
    BY <1>1, <1>2, <2>1, <2>2 DEF One!SignalUnderWay
  <2>3. ASSUME NEW u \in waiting, rest = waiting \ {u} PROVE One!SignalUnderWay'
    <3>1. u # t /\ u \notin waiting' /\ pc'[u] = pc[u] /\ One!InWait(u) /\ u \in One!Thread
      BY <1>1, <2>1, <2>3
    <3>2. QED
      BY <3>1 DEF One!SignalUnderWay
  <2>4. QED
    BY <1>2, <2>2, <2>3
<1>6. QED
  BY <1>3, <1>4, <1>5

LEMMA OneStepInv == OneParts /\ [One!Next]_(One!vars) => OneParts'
<1> USE Players, OneThreads
<1>1. ASSUME OneParts, NEW t \in One!Thread, One!SpuriousWakeup(t) PROVE OneParts'
  <2>1. t \in waiting /\ waiting' = waiting \ {t} /\ UNCHANGED <<pc, value, printed>>
    BY <1>1 DEF One!SpuriousWakeup
  <2>2. QED
    BY <1>1, <2>1
       DEF OneParts, OneTyped, OneMet, OneTurn, One!InWait, One!Woken, One!SignalUnderWay
<1>2. ASSUME OneParts, UNCHANGED One!vars PROVE OneParts'
  BY <1>2 DEF One!vars, OneParts, OneTyped, OneMet, OneTurn, One!InWait, One!Woken,
              One!SignalUnderWay
<1>3. QED
  BY <1>1, <1>2, OnePassInv, OneMainInv, OneStartInv, OnePlayInv
     DEF One!Next, One!Step, One!Finished

-----------------------------------------------------------------------------
(* task12.c. Nothing is said of who waits: a player can be woken, or find  *)
(* its flag, at any time.                                                  *)
TwoParts == TwoTyped /\ TwoMet /\ TwoTurn

LEMMA TwoThreads == Two!Thread = {0, 1, 2} /\ Two!Main = 0 /\ Two!Nobody = 3
BY DEF Two!Thread, Two!Player, Two!Main, Two!Nobody

LEMMA TwoInitInv == Two!Init => TwoParts
BY Players, TwoThreads
   DEF Two!Init, TwoParts, TwoTyped, TwoMet, TwoTurn, MainHolds, NoFlag, NonePrinted

LEMMA TwoBeginsInv ==
  ASSUME TwoParts,
         \/ Two!MainBegins(1, "wait_1", "in_wait_1")
         \/ Two!MainBegins(2, "wait_2", "in_wait_2")
  PROVE  TwoParts'
<1> USE Players, TwoThreads DEF TwoParts, TwoTyped
<1>1. PICK k \in Player :
        /\ pc[0] = (IF k = 1 THEN "wait_1" ELSE "wait_2")
        /\ pc' = [pc EXCEPT ![0] = IF k = 1 THEN "in_wait_1" ELSE "in_wait_2"]
        /\ mutex' = [mutex EXCEPT ![k] = 3] /\ UNCHANGED <<flag, printed>>
  BY DEF Two!MainBegins, Two!BeginWait, Two!Goto
<1>2. MainHolds /\ pc[k] = "start"
      /\ pc[Other(k)] = (IF k = 1 THEN "start" ELSE "in_wait")
  BY <1>1 DEF TwoMet
<1>3. TwoTyped'
  BY <1>1
<1>4. MainMeets(1)' \/ k = 2
  BY <1>1, <1>2 DEF MainMeets, MainHolds, NoFlag, NonePrinted
<1>5. MainMeets(2)' \/ k = 1
  BY <1>1, <1>2 DEF MainMeets, MainHolds, NoFlag, NonePrinted
<1>6. TwoMet' /\ TwoTurn'
  BY <1>1, <1>2, <1>4, <1>5 DEF TwoMet, TwoTurn
<1>7. QED
  BY <1>3, <1>6

LEMMA TwoWokenInv ==
  ASSUME TwoParts,
         \/ Two!MainWoken(1, "in_wait_1", "wait_2")
         \/ Two!MainWoken(2, "in_wait_2", "signal")
  PROVE  TwoParts'
<1> USE Players, TwoThreads DEF TwoParts, TwoTyped
<1>1. PICK k \in Player :
        /\ pc[0] = (IF k = 1 THEN "in_wait_1" ELSE "in_wait_2")
        /\ mutex[k] = 3
        /\ \/ /\ mutex' = [mutex EXCEPT ![k] = 3] /\ UNCHANGED <<pc, flag, printed>>
           \/ /\ flag[k] = 1 /\ flag' = [flag EXCEPT ![k] = 0]
              /\ mutex' = [mutex EXCEPT ![k] = 0] /\ printed' = printed
              /\ pc' = [pc EXCEPT ![0] = IF k = 1 THEN "wait_2" ELSE "signal"]
  BY DEF Two!MainWoken, Two!WaitAgain, Two!EndWait, Two!Woken, Two!FlagRaised, Two!BeginWait,
         Two!Goto
<1>2. CASE mutex' = [mutex EXCEPT ![k] = 3] /\ UNCHANGED <<pc, flag, printed>>
  <2>1. mutex' = mutex
    BY <1>1, <1>2
  <2>2. QED
    BY <1>2, <2>1 DEF TwoMet, TwoTurn, MainHolds, NoFlag, NonePrinted, MainMeets, Turn
<1>3. CASE /\ flag[k] = 1 /\ flag' = [flag EXCEPT ![k] = 0]
           /\ mutex' = [mutex EXCEPT ![k] = 0] /\ printed' = printed
           /\ pc' = [pc EXCEPT ![0] = IF k = 1 THEN "wait_2" ELSE "signal"]
  <2>1. /\ pc[k] = "in_wait" /\ printed[1] = 0 /\ printed[2] = 0
        /\ mutex[Other(k)] = 0 /\ flag[Other(k)] = 0
        /\ pc[Other(k)] = (IF k = 1 THEN "start" ELSE "in_wait")
    BY <1>1, <1>3 DEF TwoMet, MainMeets
  <2>2. MainHolds'
    <3>1. mutex'[1] = 0 /\ mutex'[2] = 0 /\ DOMAIN mutex' = Player
          /\ mutex' = [j \in DOMAIN mutex' |-> mutex'[j]]
      BY <1>3, <2>1
    <3>2. flag'[1] = 0 /\ flag'[2] = 0 /\ DOMAIN flag' = Player
          /\ flag' = [j \in DOMAIN flag' |-> flag'[j]]
      BY <1>3, <2>1
    <3>3. printed' = [j \in Player |-> 0]
      BY <1>3, <2>1
    <3>4. mutex' = [j \in Player |-> 0]
      BY <3>1
    <3>5. flag' = [j \in Player |-> 0]
      BY <3>2
    <3>6. QED
      BY <3>3, <3>4, <3>5 DEF MainHolds, NoFlag, NonePrinted
  <2>3. TwoTyped'
    BY <1>3
  <2>4. TwoMet' /\ TwoTurn'
    BY <1>1, <1>3, <2>1, <2>2 DEF TwoMet, TwoTurn
  <2>5. QED
    BY <2>3, <2>4
<1>4. QED
  BY <1>1, <1>2, <1>3

LEMMA TwoSignalsInv == TwoParts /\ (Two!MainSignals \/ Two!MainJoins) => TwoParts'
<1> SUFFICES ASSUME TwoParts, Two!MainSignals \/ Two!MainJoins PROVE TwoParts'
  OBVIOUS
<1> USE Players, TwoThreads DEF TwoParts, TwoTyped
<1>1. CASE Two!MainSignals
  <2>1. /\ pc[0] = "signal" /\ flag' = [flag EXCEPT ![1] = 1]
        /\ mutex' = [k \in Player |-> 3] /\ pc' = [pc EXCEPT ![0] = "join"]
        /\ printed' = printed
    BY <1>1 DEF Two!MainSignals, Two!Goto
  <2>2. MainHolds /\ pc[1] = "in_wait" /\ pc[2] = "in_wait"
    BY <2>1 DEF TwoMet
  <2>3. TwoTyped'
    BY <2>1
  <2>4. TwoMet' /\ TwoTurn'
    BY <2>1, <2>2 DEF TwoMet, TwoTurn, Turn, MainHolds, NoFlag, NonePrinted
  <2>5. QED
    BY <2>3, <2>4
<1>2. CASE Two!MainJoins
  <2>1. pc[0] = "join" /\ pc' = [pc EXCEPT ![0] = "done"] /\ UNCHANGED <<mutex, flag, printed>>
    BY <1>2 DEF Two!MainJoins, Two!Goto
  <2>2. TwoTyped' /\ TwoMet' /\ TwoTurn'
    BY <2>1 DEF TwoMet, TwoTurn, Turn
  <2>3. QED
    BY <2>2
<1>3. QED
  BY <1>1, <1>2

LEMMA TwoStartInv ==
  ASSUME TwoParts, NEW t \in Player, Two!Start(t) PROVE TwoParts'
<1> USE Players, TwoThreads DEF TwoParts, TwoTyped
<1>1. /\ pc[t] = "start" /\ mutex[t] = 3 /\ flag' = [flag EXCEPT ![t] = 1]
      /\ pc' = [pc EXCEPT ![t] = "in_wait"] /\ UNCHANGED <<mutex, printed>>
  BY DEF Two!Start, Two!Goto
<1>2. /\ pc[0] = (IF t = 1 THEN "in_wait_1" ELSE "in_wait_2")
      /\ MainMeets(t) /\ flag[t] = 0 /\ printed[t] = 0
  BY <1>1 DEF TwoMet, TwoTurn, MainMeets, MainHolds
<1>3. TwoTyped'
  BY <1>1
<1>4. /\ mutex'[Other(t)] = 0 /\ flag'[Other(t)] = 0 /\ printed'[Other(t)] = 0
      /\ pc'[t] = "in_wait" /\ mutex'[t] = 3 /\ flag'[t] = 1 /\ printed'[t] = 0
      /\ pc'[Other(t)] = pc[Other(t)] /\ pc'[0] = pc[0]
  BY <1>1, <1>2 DEF MainMeets
<1>5. TwoMet' /\ TwoTurn'
  BY <1>2, <1>4 DEF TwoMet, TwoTurn, MainMeets
<1>6. QED
  BY <1>3, <1>5

(* A player that prints has found its flag: either it is its turn, or it   *)
(* has taken the flag that it raised for main.                             *)
LEMMA TwoPlays ==
  ASSUME TwoParts, NEW t \in Player, Two!PlayerWoken(t)
  PROVE  /\ pc[t] = "in_wait" /\ mutex[t] = 3
         /\ \/ UNCHANGED <<pc, mutex, flag, printed>>
            \/ /\ flag[t] = 1 /\ flag' = [flag EXCEPT ![t] = 0]
               /\ mutex' = [mutex EXCEPT ![t] = t]
               /\ printed' = [printed EXCEPT ![t] = @ + 1]
               /\ pc' = [pc EXCEPT ![t] = "signal_other"]
               /\ \/ pc[0] \in {"join", "done"} /\ printed[t] < Loops
                  \/ /\ pc[0] = IF t = 1 THEN "in_wait_1" ELSE "in_wait_2"
                     /\ MainMeets(t) /\ printed[t] = 0
<1> USE Players, TwoThreads DEF TwoParts, TwoTyped
<1>1. /\ pc[t] = "in_wait" /\ mutex[t] = 3
      /\ \/ mutex' = [mutex EXCEPT ![t] = 3] /\ UNCHANGED <<pc, flag, printed>>
         \/ /\ flag[t] = 1 /\ flag' = [flag EXCEPT ![t] = 0]
            /\ mutex' = [mutex EXCEPT ![t] = t]
            /\ printed' = [printed EXCEPT ![t] = @ + 1]
            /\ pc' = [pc EXCEPT ![t] = "signal_other"]
  BY DEF Two!PlayerWoken, Two!WaitAgain, Two!EndWait, Two!Woken, Two!FlagRaised, Two!BeginWait,
         Two!Goto
<1>2. \/ pc[0] \in {"join", "done"} /\ printed[t] < Loops
      \/ /\ pc[0] = IF t = 1 THEN "in_wait_1" ELSE "in_wait_2"
         /\ MainMeets(t) /\ printed[t] = 0
  BY <1>1 DEF TwoMet, TwoTurn, MainHolds, MainMeets
<1>3. mutex' = [mutex EXCEPT ![t] = 3] => mutex' = mutex
  BY <1>1
<1>4. QED
  BY <1>1, <1>2, <1>3

LEMMA TwoPlayInv ==
  ASSUME TwoParts, NEW t \in Player, Two!PlayerWoken(t) PROVE TwoParts'
<1> USE Players, TwoThreads DEF TwoParts, TwoTyped
<1>1. CASE UNCHANGED <<pc, mutex, flag, printed>>
  BY <1>1 DEF TwoMet, TwoTurn, MainHolds, NoFlag, NonePrinted, MainMeets, Turn
<1>2. ASSUME /\ flag[t] = 1 /\ flag' = [flag EXCEPT ![t] = 0]
             /\ mutex' = [mutex EXCEPT ![t] = t]
             /\ printed' = [printed EXCEPT ![t] = @ + 1]
             /\ pc' = [pc EXCEPT ![t] = "signal_other"],
             pc[0] \in {"join", "done"}, printed[t] < Loops
      PROVE  TwoParts'
  <2>1. TwoTyped'
    BY <1>2
  <2>2. TwoMet' /\ TwoTurn'
    BY <1>2 DEF TwoMet, TwoTurn, Turn
  <2>3. QED
    BY <2>1, <2>2
<1>3. ASSUME /\ flag[t] = 1 /\ flag' = [flag EXCEPT ![t] = 0]
             /\ mutex' = [mutex EXCEPT ![t] = t]
             /\ printed' = [printed EXCEPT ![t] = @ + 1]
             /\ pc' = [pc EXCEPT ![t] = "signal_other"],
             pc[0] = IF t = 1 THEN "in_wait_1" ELSE "in_wait_2", MainMeets(t), printed[t] = 0
      PROVE  TwoParts'
  <2>1. TwoTyped'
    BY <1>3
  <2>2. /\ mutex'[Other(t)] = 0 /\ flag'[Other(t)] = 0 /\ printed'[Other(t)] = 0
        /\ pc'[t] = "signal_other" /\ mutex'[t] = t /\ flag'[t] = 0 /\ printed'[t] = 1
        /\ pc'[Other(t)] = pc[Other(t)] /\ pc'[0] = pc[0]
    BY <1>3 DEF MainMeets
  <2>3. TwoMet' /\ TwoTurn'
    BY <1>3, <2>2 DEF TwoMet, TwoTurn, MainMeets
  <2>4. QED
    BY <2>1, <2>3
<1>4. QED
  BY TwoPlays, <1>1, <1>2, <1>3

LEMMA TwoSignalOtherInv ==
  ASSUME TwoParts, NEW t \in Player, Two!SignalOther(t) PROVE TwoParts'
<1> USE Players, TwoThreads DEF TwoParts, TwoTyped
<1>1. /\ pc[t] = "signal_other" /\ mutex[Other(t)] = 3
      /\ flag' = [flag EXCEPT ![Other(t)] = 1]
      /\ pc' = [pc EXCEPT ![t] = IF printed[t] < Loops THEN "wait" ELSE "unlock"]
      /\ UNCHANGED <<mutex, printed>>
  BY DEF Two!SignalOther, Two!Goto
<1>2. pc[0] \in {"join", "done"}
  BY <1>1 DEF TwoMet, MainMeets, MainHolds
<1>3. TwoTyped'
  BY <1>1
<1>4. TwoMet' /\ TwoTurn'
  BY <1>1, <1>2 DEF TwoMet, TwoTurn, Turn
<1>5. QED
  BY <1>3, <1>4

LEMMA TwoStepInv == TwoParts /\ [Two!Next]_(Two!vars) => TwoParts'
<1> USE Players, TwoThreads
<1>1. ASSUME TwoParts, NEW t \in Player, Two!PlayerWaits(t) \/ Two!Unlock(t) PROVE TwoParts'
  <2> USE DEF TwoParts, TwoTyped
  <2>1. /\ \/ pc[t] = "wait" /\ pc' = [pc EXCEPT ![t] = "in_wait"]
           \/ pc[t] = "unlock" /\ pc' = [pc EXCEPT ![t] = "done"]
        /\ mutex' = [mutex EXCEPT ![t] = 3] /\ UNCHANGED <<flag, printed>>
    BY <1>1 DEF Two!PlayerWaits, Two!Unlock, Two!BeginWait, Two!Goto
  <2>2. pc[0] \in {"join", "done"}
    BY <1>1, <2>1 DEF TwoMet, MainMeets, MainHolds
  <2>3. TwoTyped'
    BY <1>1, <2>1
  <2>4. TwoMet' /\ TwoTurn'
    BY <1>1, <2>1, <2>2 DEF TwoMet, TwoTurn, Turn
  <2>5. QED
    BY <2>3, <2>4
<1>2. ASSUME TwoParts, UNCHANGED <<pc, mutex, flag, printed>> PROVE TwoParts'
  BY <1>2 DEF TwoParts, TwoTyped, TwoMet, TwoTurn, Turn, MainHolds, NoFlag, NonePrinted,
              MainMeets
<1>3. ASSUME TwoParts, NEW t \in Two!Thread, Two!Step(t) PROVE TwoParts'
  <2>1. CASE t = 0
    BY <1>3, <2>1, TwoBeginsInv, TwoWokenInv, TwoSignalsInv DEF Two!Step, Two!MainStep
  <2>2. CASE t \in Player
    BY <1>1, <1>3, <2>2, TwoStartInv, TwoPlayInv, TwoSignalOtherInv
       DEF Two!Step, Two!PlayerStep
  <2>3. QED
    BY <2>1, <2>2
<1>4. QED
  BY <1>2, <1>3 DEF Two!Next, Two!SpuriousWakeup, Two!Finished, Two!vars

-----------------------------------------------------------------------------
(* What the steps that block depend on. With semaphores: each player's own *)
(* is what it was found at, and what the other has posted more than this   *)
(* one has waited. With two monitors: who waits on which and, once main    *)
(* has met both, who has which mutex, and that nobody is asleep whose flag *)
(* is raised.                                                              *)
InHand(t) == IF pc[t] = "post" THEN 1 ELSE 0
SemFlow ==
  Sem!Running => \A t \in Player :
    sem[t] + printed[t] + InHand(Other(t)) = found[t] + printed[Other(t)]

HasOwn(k) == pc[k] \in {"signal_other", "wait", "unlock"}
TwoWaits ==
  /\ waiting \in [Player -> SUBSET Two!Thread]
  /\ \A k \in Player :
       /\ waiting[k] \subseteq {k, Two!Main}
       /\ k \in waiting[k] => pc[k] = "in_wait"
       /\ Two!Main \in waiting[k] => Two!MainWaitsOn(k) /\ pc[k] = "start"
       /\ pc[Two!Main] \in {"join", "done"} =>
            /\ mutex[k] = IF HasOwn(k) THEN k ELSE Two!Nobody
            /\ flag[k] = 1 => k \notin waiting[k]
            /\ pc[k] = "wait" => flag[k] = 0
            /\ pc[k] \in {"unlock", "done"} => printed[k] = Loops

LEMMA SemFlowStep == SemParts /\ SemFlow /\ [Sem!Next]_(Sem!vars) => SemFlow'
<1> SUFFICES ASSUME SemParts, SemFlow, [Sem!Next]_(Sem!vars) PROVE SemFlow'
  OBVIOUS
<1> USE Players DEF SemParts, SemTyped, Sem!Running
<1>1. CASE Sem!Opens
  <2>1. CASE Sem!Open(1, "open_1", "open_2")
    BY <2>1 DEF Sem!Open, SemFlow
  <2>2. CASE Sem!Open(2, "open_2", "wait")
    <3>1. /\ pc[1] = "open_2" /\ pc' = [t \in Player |-> "wait"]
          /\ sem' = [sem EXCEPT ![2] = Sem!ValueOpened(2)]
          /\ found' = [found EXCEPT ![2] = sem'[2]] /\ printed' = printed
      BY <2>2 DEF Sem!Open
    <3>2. found[1] = sem[1] /\ printed = [t \in Player |-> 0]
      BY <3>1 DEF SemNames, SemCounts
    <3>3. Sem!ValueOpened(2) \in Nat
      BY DEF Sem!ValueOpened, Sem!Initially
    <3>4. QED
      BY <3>1, <3>2, <3>3 DEF SemFlow, InHand
  <2>3. QED
    BY <1>1, <2>1, <2>2 DEF Sem!Opens
<1>2. ASSUME NEW t \in Player, Sem!WaitAndPrint(t) PROVE SemFlow'
  <2>1. /\ pc[t] = "wait" /\ sem' = [sem EXCEPT ![t] = @ - 1]
        /\ printed' = [printed EXCEPT ![t] = @ + 1] /\ pc' = [pc EXCEPT ![t] = "post"]
        /\ found' = found
    BY <1>2 DEF Sem!WaitAndPrint, Sem!Goto
  <2>2. QED
    BY <2>1 DEF SemFlow, InHand
<1>3. ASSUME NEW t \in Player, Sem!Post(t) PROVE SemFlow'
  <2>1. PICK next \in {"wait", "unlink_1", "done"} :
          /\ pc[t] = "post" /\ sem' = [sem EXCEPT ![Other(t)] = @ + 1]
          /\ pc' = [pc EXCEPT ![t] = next] /\ UNCHANGED <<printed, found>>
    BY <1>3 DEF Sem!Post, Sem!Posted, Sem!Goto
  <2>2. QED
    BY <2>1 DEF SemFlow, InHand
<1>4. CASE Sem!ChildUnlinks
  <2>1. PICK next \in {"unlink_2", "done"} :
          /\ pc[2] \in {"unlink_1", "unlink_2"}
          /\ pc' = [pc EXCEPT ![2] = next] /\ UNCHANGED <<sem, printed, found>>
    BY <1>4 DEF Sem!ChildUnlinks, Sem!Unlink, Sem!Goto
  <2>2. QED
    BY <2>1 DEF SemFlow, InHand
<1>5. CASE Sem!KillAndRestart
  BY <1>5 DEF Sem!KillAndRestart, SemFlow
<1>6. CASE UNCHANGED Sem!vars
  BY <1>6 DEF Sem!vars, SemFlow, InHand
<1>7. QED
  BY <1>1, <1>2, <1>3, <1>4, <1>5, <1>6 DEF Sem!Next, Sem!Step, Sem!Finished

(* Nobody who could be chosen stays asleep when a player is the only one   *)
(* that waits, or main.                                                    *)
LEMMA TwoChosen ==
  ASSUME NEW k \in Player, NEW rest \in Two!Signal(k)
  PROVE  /\ rest \subseteq waiting[k]
         /\ \A u : waiting[k] \subseteq {u} => u \notin rest
BY DEF Two!Signal

LEMMA TwoWaitsStep == TwoParts /\ TwoWaits /\ [Two!Next]_(Two!vars) => TwoWaits'
<1> SUFFICES ASSUME TwoParts, TwoWaits, [Two!Next]_(Two!vars) PROVE TwoWaits'
  OBVIOUS
<1> USE Players, TwoThreads DEF TwoParts, TwoTyped, Two!MainWaitsOn, HasOwn
<1>1. CASE \/ Two!MainBegins(1, "wait_1", "in_wait_1")
           \/ Two!MainBegins(2, "wait_2", "in_wait_2")
  <2>1. PICK k \in Player :
          /\ pc[0] = (IF k = 1 THEN "wait_1" ELSE "wait_2")
          /\ pc' = [pc EXCEPT ![0] = IF k = 1 THEN "in_wait_1" ELSE "in_wait_2"]
          /\ waiting' = [waiting EXCEPT ![k] = @ \cup {0}]
    BY <1>1 DEF Two!MainBegins, Two!BeginWait, Two!Goto
  <2>2. pc[k] = "start"
    BY <2>1 DEF TwoMet
  <2>3. QED
    BY <2>1, <2>2 DEF TwoWaits
<1>2. CASE \/ Two!MainWoken(1, "in_wait_1", "wait_2")
           \/ Two!MainWoken(2, "in_wait_2", "signal")
  <2>1. PICK k \in Player :
          /\ pc[0] = (IF k = 1 THEN "in_wait_1" ELSE "in_wait_2")
          /\ mutex[k] = 3 /\ 0 \notin waiting[k]
          /\ \/ /\ waiting' = [waiting EXCEPT ![k] = @ \cup {0}] /\ flag[k] # 1
                /\ UNCHANGED <<pc, flag, printed>>
             \/ /\ pc' = [pc EXCEPT ![0] = IF k = 1 THEN "wait_2" ELSE "signal"]
                /\ waiting' = waiting
    BY <1>2 DEF Two!MainWoken, Two!WaitAgain, Two!EndWait, Two!Woken, Two!FlagRaised,
                Two!BeginWait, Two!Goto
  <2>2. MainMeets(k) /\ (flag[k] # 1 => pc[k] = "start")
    BY <2>1 DEF TwoMet, MainMeets
  <2>3. QED
    BY <2>1, <2>2 DEF TwoWaits
<1>3. CASE Two!MainSignals
  <2>1. PICK rest \in Two!Signal(1) :
          /\ pc[0] = "signal" /\ waiting' = [waiting EXCEPT ![1] = rest]
          /\ mutex' = [k \in Player |-> 3] /\ pc' = [pc EXCEPT ![0] = "join"]
          /\ flag' = [flag EXCEPT ![1] = 1]
    BY <1>3 DEF Two!MainSignals, Two!Goto
  <2>2. MainHolds /\ pc[1] = "in_wait" /\ pc[2] = "in_wait"
    BY <2>1 DEF TwoMet
  <2>3. waiting[1] \subseteq {1} /\ waiting[2] \subseteq {2}
    BY <2>1 DEF TwoWaits
  <2>4. rest = {}
    BY <2>3, TwoChosen
  <2>5. flag'[2] = 0
    BY <2>1, <2>2 DEF MainHolds, NoFlag
  <2>6. QED
    BY <2>1, <2>2, <2>3, <2>4, <2>5 DEF TwoWaits
<1>4. CASE Two!MainJoins
  <2>1. pc[0] = "join" /\ pc' = [pc EXCEPT ![0] = "done"]
        /\ UNCHANGED <<mutex, waiting, flag, printed>>
    BY <1>4 DEF Two!MainJoins, Two!Goto
  <2>2. QED
    BY <2>1 DEF TwoWaits
<1>5. ASSUME NEW t \in Player, Two!Start(t) PROVE TwoWaits'
  <2>1. PICK rest \in Two!Signal(t) :
          /\ pc[t] = "start" /\ waiting' = [waiting EXCEPT ![t] = rest \cup {t}]
          /\ pc' = [pc EXCEPT ![t] = "in_wait"]
    BY <1>5 DEF Two!Start, Two!Goto
  <2>2. waiting[t] \subseteq {0}
    BY <2>1 DEF TwoWaits
  <2>3. rest = {}
    BY <2>2, TwoChosen
  <2>4. pc[0] \notin {"join", "done"}
    BY <2>1 DEF TwoTurn
  <2>5. QED
    BY <2>1, <2>3, <2>4 DEF TwoWaits
<1>6. ASSUME NEW t \in Player, Two!PlayerWoken(t) PROVE TwoWaits'
  <2>1. pc[t] = "in_wait" /\ mutex[t] = 3
        /\ \/ /\ waiting' = [waiting EXCEPT ![t] = @ \cup {t}] /\ flag[t] # 1
              /\ UNCHANGED <<pc, flag, printed>> /\ mutex' = [mutex EXCEPT ![t] = 3]
           \/ /\ waiting' = waiting /\ t \notin waiting[t] /\ flag' = [flag EXCEPT ![t] = 0]
              /\ mutex' = [mutex EXCEPT ![t] = t] /\ pc' = [pc EXCEPT ![t] = "signal_other"]
              /\ printed' = [printed EXCEPT ![t] = @ + 1]
    BY <1>6 DEF Two!PlayerWoken, Two!WaitAgain, Two!EndWait, Two!Woken, Two!FlagRaised,
                Two!BeginWait, Two!Goto
  <2>2. QED
    BY <2>1 DEF TwoWaits
<1>7. ASSUME NEW t \in Player, Two!SignalOther(t) PROVE TwoWaits'
  <2>1. PICK rest \in Two!Signal(Other(t)) :
          /\ pc[t] = "signal_other" /\ mutex[Other(t)] = 3
          /\ waiting' = [waiting EXCEPT ![Other(t)] = rest]
          /\ flag' = [flag EXCEPT ![Other(t)] = 1]
          /\ pc' = [pc EXCEPT ![t] = IF printed[t] < Loops THEN "wait" ELSE "unlock"]
          /\ UNCHANGED <<mutex, printed>>
    BY <1>7 DEF Two!SignalOther, Two!Goto
  <2>2. pc[0] \in {"join", "done"} /\ Other(t) \in Player /\ Other(t) # t
    BY <2>1 DEF TwoMet, MainMeets, MainHolds
  <2>3. flag[t] = 0 /\ printed[t] <= Loops /\ waiting[Other(t)] \subseteq {Other(t)}
    BY <2>1, <2>2 DEF TwoTurn, Turn, TwoWaits
  <2>4. rest \subseteq waiting[Other(t)] /\ Other(t) \notin rest
    BY <2>2, <2>3, TwoChosen
  <2>5. pc[Other(t)] \notin {"wait", "signal_other", "unlock"}
    BY <2>1, <2>2 DEF TwoWaits
  <2>6. /\ waiting'[Other(t)] = rest /\ waiting'[t] = waiting[t]
        /\ flag'[Other(t)] = 1 /\ flag'[t] = 0
        /\ pc'[Other(t)] = pc[Other(t)] /\ pc'[0] = pc[0]
        /\ pc'[t] = IF printed[t] < Loops THEN "wait" ELSE "unlock"
        /\ waiting' \in [Player -> SUBSET Two!Thread]
    BY <2>1, <2>2, <2>3, <2>4 DEF TwoWaits
  <2>7. /\ 0 \notin waiting[t] /\ t \notin waiting[t] /\ 0 \notin rest /\ rest = {}
    BY <2>1, <2>2, <2>4 DEF TwoWaits
  <2>8. mutex[t] = t
    BY <2>1, <2>2 DEF TwoWaits
  <2>9. ~ (printed[t] < Loops) => printed[t] = Loops
    BY <2>3
  <2>10. Player = {t, Other(t)}
    OBVIOUS
  <2>11. QED
    BY <2>1, <2>2, <2>5, <2>6, <2>7, <2>8, <2>9, <2>10 DEF TwoWaits
<1>8. ASSUME NEW t \in Player, Two!PlayerWaits(t) \/ Two!Unlock(t) PROVE TwoWaits'
  <2>1. /\ \/ pc[t] = "wait" /\ pc' = [pc EXCEPT ![t] = "in_wait"]
              /\ waiting' = [waiting EXCEPT ![t] = @ \cup {t}]
           \/ pc[t] = "unlock" /\ pc' = [pc EXCEPT ![t] = "done"] /\ waiting' = waiting
        /\ mutex' = [mutex EXCEPT ![t] = 3] /\ UNCHANGED <<flag, printed>>
    BY <1>8 DEF Two!PlayerWaits, Two!Unlock, Two!BeginWait, Two!Goto
  <2>2. QED
    BY <2>1 DEF TwoWaits
<1>9. ASSUME NEW t \in Two!Thread, NEW k \in Player, Two!SpuriousWakeup(t, k) PROVE TwoWaits'
  <2>1. waiting' = [waiting EXCEPT ![k] = @ \ {t}] /\ UNCHANGED <<pc, mutex, flag, printed>>
    BY <1>9 DEF Two!SpuriousWakeup
  <2>2. QED
    BY <2>1 DEF TwoWaits
<1>10. CASE UNCHANGED Two!vars
  BY <1>10 DEF Two!vars, TwoWaits
<1>11. ASSUME NEW t \in Two!Thread, Two!Step(t) PROVE TwoWaits'
  <2>1. CASE t = 0
    BY <1>1, <1>2, <1>3, <1>4, <1>11, <2>1 DEF Two!Step, Two!MainStep
  <2>2. CASE t \in Player
    BY <1>5, <1>6, <1>7, <1>8, <1>11, <2>2 DEF Two!Step, Two!PlayerStep
  <2>3. QED
    BY <2>1, <2>2
<1>12. QED
  BY <1>9, <1>10, <1>11 DEF Two!Next, Two!Finished

(* Where everybody blocks, there was no token from the beginning: a player *)
(* that has printed less than the other has posted can go on.              *)
LEMMA SemStuck == SemParts /\ SemFlow => Sem!StuckCause
<1> SUFFICES ASSUME SemParts, SemFlow, Sem!Stuck PROVE Sem!FoundNoToken
  BY DEF Sem!StuckCause
<1> USE Players DEF SemParts, SemTyped, Sem!Running
<1>1. /\ pc[2] # "not_created" /\ (pc[1] # "done" \/ pc[2] # "done")
      /\ \A t \in Player : pc[t] = "done" \/ (pc[t] = "wait" /\ ~ (sem[t] > 0))
  BY DEF Sem!Stuck, Sem!Blocked, Sem!CountsDown
<1>2. \A t \in Player : sem[t] + printed[t] = found[t] + printed[Other(t)]
  BY <1>1 DEF SemFlow, InHand
<1>3. \A t \in Player : /\ pc[t] = "done" => printed[t] = Loops
                        /\ pc[t] = "wait" => printed[t] < Loops /\ sem[t] = 0
  BY <1>1 DEF SemCounts
<1>4. pc[1] = "wait" /\ pc[2] = "wait"
  BY <1>1, <1>2, <1>3
<1>5. found[1] = 0 /\ found[2] = 0
  BY <1>2, <1>3, <1>4
<1>6. found = [t \in Player |-> 0]
  BY <1>5
<1>7. kills # 0
  BY <1>1, <1>5 DEF SemFirstRun
<1>8. QED
  BY <1>6, <1>7 DEF SemFirstRun, Sem!FoundNoToken

LEMMA TwoStuck == TwoParts /\ TwoWaits => Two!StuckCause
<1> SUFFICES ASSUME TwoParts, TwoWaits, Two!Stuck PROVE Two!FlagStolen
  BY DEF Two!StuckCause
<1> USE Players, TwoThreads DEF TwoParts, TwoTyped
<1>1. pc[0] # "done" /\ Two!Blocked(0) /\ Two!Blocked(1) /\ Two!Blocked(2)
  BY DEF Two!Stuck
<1>2. \/ \E k \in Player : Two!MainWaitsOn(k) /\ ~ Two!Woken(0, k)
      \/ pc[0] = "join" /\ \E u \in Player : pc[u] # "done"
  BY <1>1 DEF Two!Blocked
<1>3. ASSUME NEW k \in Player, Two!MainWaitsOn(k), ~ Two!Woken(0, k) PROVE Two!FlagStolen
  <2>1. MainMeets(k)
    BY <1>3 DEF Two!MainWaitsOn, TwoMet
  <2>2. pc[k] # "start" \/ mutex[k] # 3
    BY <1>1 DEF Two!Blocked
  <2>3. pc[k] # "in_wait"
    <3>1. SUFFICES ASSUME pc[k] = "in_wait" PROVE FALSE
      OBVIOUS
    <3>2. mutex[k] = 3 /\ k \in waiting[k]
      BY <1>1, <2>1, <3>1 DEF MainMeets, Two!Blocked, Two!Woken
    <3>3. QED
      BY <1>3, <3>1, <3>2 DEF TwoWaits, Two!Woken
  <2>4. QED
    BY <1>3, <2>1, <2>2, <2>3 DEF MainMeets, Two!FlagStolen, Two!MainWaitsOn
<1>4. ASSUME pc[0] = "join" PROVE \A u \in Player : pc[u] = "done"
  <2>1. \A k \in Player : pc[k] \notin {"start", "wait", "unlock"}
    BY <1>1, <1>4 DEF Two!Blocked, TwoTurn
  <2>2. \A k \in Player : pc[k] # "signal_other"
    <3>1. SUFFICES ASSUME NEW k \in Player, pc[k] = "signal_other" PROVE FALSE
      OBVIOUS
    <3>2. mutex[Other(k)] # 3 /\ Other(k) \in Player
      BY <1>1, <3>1 DEF Two!Blocked
    <3>3. pc[Other(k)] = "signal_other"
      BY <1>4, <2>1, <3>2 DEF TwoWaits, HasOwn
    <3>4. QED
      BY <1>4, <3>1, <3>3 DEF TwoTurn, Turn
  <2>3. \A k \in Player : pc[k] \in {"in_wait", "done"}
    BY <2>1, <2>2
  <2>4. \A k \in Player : pc[k] = "in_wait" => flag[k] = 0 /\ printed[k] < Loops
    <3>1. SUFFICES ASSUME NEW k \in Player, pc[k] = "in_wait" PROVE flag[k] = 0 /\ printed[k] < Loops
      OBVIOUS
    <3>2. mutex[k] = 3 /\ k \in waiting[k]
      BY <1>1, <1>4, <3>1 DEF TwoWaits, HasOwn, Two!Blocked, Two!Woken
    <3>3. QED
      BY <1>4, <3>1, <3>2 DEF TwoWaits, TwoTurn
  <2>5. \A k \in Player : pc[k] = "done" => printed[k] = Loops
    BY <1>4 DEF TwoWaits
  <2>6. QED
    BY <1>4, <2>3, <2>4, <2>5 DEF TwoTurn, Turn
<1>5. QED
  BY <1>2, <1>3, <1>4

-----------------------------------------------------------------------------
(* The inductive invariant of whichever program runs.                      *)
IInv ==
  /\ SemInv /\ OneInv /\ TwoInv
  /\ program = "task14, task16a" => SemFlow
  /\ program = "task12" => TwoWaits

LEMMA IInvByProgram ==
  IInv <=> /\ program = "task14, task16a" => SemParts /\ SemFlow
           /\ program = "task12_" => OneParts
           /\ program = "task12" => TwoParts /\ TwoWaits
BY DEF IInv, SemInv, OneInv, TwoInv, SemParts, OneParts, TwoParts

LEMMA InitInv == PingPongInit => IInv
<1>1. Sem!Init => SemFlow
  BY Players DEF Sem!Init, Sem!Running, SemFlow
<1>2. Two!Init => TwoWaits
  BY Players, TwoThreads DEF Two!Init, TwoWaits, Two!MainWaitsOn
<1>3. QED
  BY <1>1, <1>2, IInvByProgram, SemInitInv, OneInitInv, TwoInitInv DEF PingPongInit

(* Where nothing changes, nothing changes in the program that runs.        *)
LEMMA Stutters ==
  UNCHANGED allVars =>
    /\ program' = program /\ UNCHANGED <<pc, mutex, waiting, flag, value, printed>>
    /\ UNCHANGED <<named, exists, sem, found, kills>>
BY DEF allVars, pingPongVars, monitors, semaphores

LEMMA StepInv == IInv /\ [PingPongNext]_allVars => IInv'
<1> SUFFICES ASSUME IInv, [PingPongNext]_allVars PROVE IInv'
  OBVIOUS
<1>1. CASE TwoRuns /\ Two!Next
  BY <1>1, TwoStepInv, TwoWaitsStep DEF IInv, SemInv, OneInv, TwoInv, TwoParts, TwoRuns
<1>2. CASE OneRuns /\ One!Next
  BY <1>2, OneStepInv DEF IInv, SemInv, OneInv, TwoInv, OneParts, OneRuns
<1>3. CASE SemRuns /\ Sem!Next
  BY <1>3, SemStepInv, SemFlowStep DEF IInv, SemInv, OneInv, TwoInv, SemParts, SemRuns
<1>4. CASE UNCHANGED allVars
  <2>1. program' = program /\ UNCHANGED <<Sem!vars, One!vars, Two!vars>>
    BY <1>4, Stutters DEF Sem!vars, One!vars, Two!vars
  <2>2. QED
    BY <2>1, SemStepInv, OneStepInv, TwoStepInv, SemFlowStep, TwoWaitsStep
       DEF IInv, SemInv, OneInv, TwoInv, SemParts, OneParts, TwoParts
<1>5. QED
  BY <1>1, <1>2, <1>3, <1>4 DEF PingPongNext

(* The inductive invariant holds in every program, for any number of       *)
(* messages and of killed runs.                                            *)
THEOREM InductiveInvariant == PingPongSpec => []IInv
BY InitInv, StepInv, PTL DEF PingPongSpec

(* In task12_.c no value of the monitor is left with everybody asleep.     *)
THEOREM ValueArrives == PingPongSpec => []SignalUnderWay
<1>1. IInv => SignalUnderWay
  BY DEF IInv, OneInv, SignalUnderWay
<1>2. QED
  BY <1>1, InductiveInvariant, PTL

(* task14.c and task16a.c have one token, also when a run has been killed  *)
(* and its semaphores are found by the next.                               *)
THEOREM NeverTwoTokens == PingPongSpec => []OneToken
<1>1. IInv => OneToken
  BY DEF IInv, SemInv, SemTokens, OneToken, Sem!OneToken
<1>2. QED
  BY <1>1, InductiveInvariant, PTL

(* task12 can stop for ever only with main and a player waiting for each   *)
(* other's mutex, the player having taken main's flag; task14 never does,  *)
(* and task16a only if it found both semaphores at 0.                      *)
THEOREM StopsOnlySo == PingPongSpec => []StuckCause
<1>1. IInv => StuckCause
  BY SemStuck, TwoStuck
     DEF IInv, SemInv, TwoInv, SemParts, TwoParts, StuckCause
<1>2. QED
  BY <1>1, InductiveInvariant, PTL

(* A run that found one token prints in the order of the semaphores it     *)
(* found, however many runs were killed before it.                         *)
THEOREM FoundOrder == PingPongSpec => []OrderAsFound
<1>1. IInv => OrderAsFound
  <2> SUFFICES ASSUME program = "task14, task16a", Sem!Running, found[1] + found[2] = 1,
                      SemTyped, SemTurn
               PROVE  LET first == IF found[1] = 1 THEN 1 ELSE 2
                      IN  printed[first] \in {printed[Sem!Other(first)],
                                              printed[Sem!Other(first)] + 1}
    BY DEF IInv, SemInv, OrderAsFound, Sem!OrderAsFound
  <2> DEFINE first == IF found[1] = 1 THEN 1 ELSE 2
  <2>1. Turn(first, sem, "post")
    BY DEF SemTurn
  <2>2. QED
    BY <2>1, Players DEF Turn
<1>2. QED
  BY <1>1, InductiveInvariant, PTL

-----------------------------------------------------------------------------
(* Every program implements the alternation. A step of a program prints    *)
(* for the player whose turn it is, or shows nothing.                      *)
Shows(t) ==
  /\ t \in Player /\ printed[t] < Loops
  /\ printed[t] = IF t = 1 THEN printed[2] ELSE printed[1] - 1
  /\ printed' = [printed EXCEPT ![t] = @ + 1]

LEMMA SemShows ==
  ASSUME SemParts, [Sem!Next]_(Sem!vars), ~ named
  PROVE  printed' = printed \/ \E t \in Player : Shows(t)
<1> USE Players DEF SemParts
<1>1. ASSUME NEW t \in Player, Sem!WaitAndPrint(t) PROVE Shows(t)
  <2>1. /\ pc[t] = "wait" /\ sem[t] > 0 /\ printed' = [printed EXCEPT ![t] = @ + 1]
    BY <1>1 DEF Sem!WaitAndPrint, Sem!CountsDown
  <2>2. Sem!Running /\ printed[t] < Loops
    BY <2>1 DEF SemTyped, SemCounts, Sem!Running
  <2>3. found[1] = 1 /\ found[2] = 0
    BY <2>2 DEF SemFirstRun
  <2>4. Turn(1, sem, "post")
    BY <2>2, <2>3 DEF SemTurn
  <2>5. QED
    BY <2>1, <2>2, <2>4 DEF Turn, SemTyped, Shows
<1>2. CASE \A t \in Player : ~ Sem!WaitAndPrint(t)
  BY <1>2 DEF Sem!Next, Sem!Step, Sem!Post, Sem!Opens, Sem!Open, Sem!ChildUnlinks, Sem!Unlink,
              Sem!KillAndRestart, Sem!Finished, Sem!vars
<1>3. QED
  BY <1>1, <1>2

LEMMA OneShows ==
  ASSUME OneParts, [One!Next]_(One!vars)
  PROVE  printed' = printed \/ \E t \in Player : Shows(t)
<1>1. ASSUME NEW t \in Player, One!Play(t) PROVE Shows(t)
  BY <1>1, OnePlays DEF Shows
<1>2. CASE \A t \in Player : ~ One!Play(t)
  BY <1>2, Players
     DEF One!Next, One!Step, One!PassOn, One!MainStarts, One!MainGoesOn, One!MainSignals,
         One!MainJoins, One!Start, One!SpuriousWakeup, One!Finished, One!vars
<1>3. QED
  BY <1>1, <1>2

(* In task12.c main's phase decides: until it joins, all that can be       *)
(* printed is the message of a player that has stolen main's flag.         *)
LEMMA TwoShown ==
  TwoParts => Two!InTurn = IF pc[0] \in {"join", "done"} THEN printed
                           ELSE [t \in Player |-> 0]
<1> SUFFICES ASSUME TwoParts
             PROVE  Two!InTurn = IF pc[0] \in {"join", "done"} THEN printed
                                 ELSE [t \in Player |-> 0]
  OBVIOUS
<1> USE Players, TwoThreads DEF TwoParts, TwoTyped, Two!InTurn, Two!FlagStolen
<1>1. CASE pc[0] \in {"join", "done"}
  BY <1>1
<1>2. CASE pc[0] \in {"wait_1", "wait_2", "signal"}
  BY <1>2 DEF TwoMet, MainHolds, NonePrinted
<1>3. CASE pc[0] \in {"in_wait_1", "in_wait_2"}
  <2>1. PICK k \in Player : MainMeets(k) /\ pc[Other(k)] # "signal_other"
                            /\ pc[0] = IF k = 1 THEN "in_wait_1" ELSE "in_wait_2"
    BY <1>3 DEF TwoMet
  <2>2. CASE pc[k] = "signal_other"
    BY <1>3, <2>1, <2>2 DEF MainMeets
  <2>3. CASE pc[k] # "signal_other"
    BY <1>3, <2>1, <2>3 DEF MainMeets
  <2>4. QED
    BY <2>2, <2>3
<1>4. QED
  BY <1>1, <1>2, <1>3

LEMMA TwoShows ==
  ASSUME TwoParts, [Two!Next]_(Two!vars)
  PROVE  \/ printed' = printed
         \/ pc[0] \notin {"join", "done"} /\ pc'[0] = pc[0]
         \/ pc[0] \in {"join", "done"} /\ \E t \in Player : Shows(t)
<1> USE Players, TwoThreads DEF TwoParts, TwoTyped
<1>1. ASSUME NEW t \in Player, Two!PlayerWoken(t), printed' # printed
      PROVE  \/ pc[0] \notin {"join", "done"} /\ pc'[0] = pc[0]
             \/ pc[0] \in {"join", "done"} /\ Shows(t)
  <2>1. /\ pc[t] = "in_wait" /\ flag[t] = 1 /\ printed' = [printed EXCEPT ![t] = @ + 1]
        /\ pc' = [pc EXCEPT ![t] = "signal_other"]
        /\ pc[0] \in {"join", "done"} => printed[t] < Loops
    BY <1>1, TwoPlays
  <2>2. CASE pc[0] \in {"join", "done"}
    <3>1. Turn(1, flag, "signal_other")
      BY <2>2 DEF TwoTurn
    <3>2. QED
      BY <2>1, <2>2, <3>1 DEF Turn, Shows
  <2>3. CASE pc[0] \notin {"join", "done"}
    BY <2>1, <2>3
  <2>4. QED
    BY <2>2, <2>3
<1>2. CASE \A t \in Player : ~ Two!PlayerWoken(t)
  BY <1>2 DEF Two!Next, Two!Step, Two!MainStep, Two!MainBegins, Two!MainWoken, Two!WaitAgain,
              Two!MainSignals, Two!MainJoins, Two!PlayerStep, Two!Start, Two!SignalOther,
              Two!PlayerWaits, Two!Unlock, Two!SpuriousWakeup, Two!Finished, Two!vars
<1>3. QED
  BY <1>1, <1>2

(* main comes to join when nothing has been printed, and stays there.      *)
LEMMA TwoJoined ==
  ASSUME TwoParts, [Two!Next]_(Two!vars)
  PROVE  /\ pc[0] \in {"join", "done"} => pc'[0] \in {"join", "done"}
         /\ pc[0] \notin {"join", "done"} /\ pc'[0] \in {"join", "done"} =>
              printed' = [t \in Player |-> 0]
<1> USE Players, TwoThreads DEF TwoParts, TwoTyped
<1>1. ASSUME NEW t \in Player, Two!PlayerStep(t) PROVE pc'[0] = pc[0]
  BY <1>1 DEF Two!PlayerStep, Two!Start, Two!PlayerWoken, Two!WaitAgain, Two!SignalOther,
              Two!PlayerWaits, Two!Unlock, Two!Goto
<1>2. CASE Two!MainSignals
  BY <1>2 DEF Two!MainSignals, TwoMet, MainHolds, NonePrinted
<1>3. CASE Two!MainStep /\ ~ Two!MainSignals
  BY <1>3 DEF Two!MainStep, Two!MainBegins, Two!MainWoken, Two!WaitAgain, Two!MainJoins,
              Two!Goto
<1>4. CASE UNCHANGED pc
  BY <1>4
<1>5. QED
  BY <1>1, <1>2, <1>3, <1>4
     DEF Two!Next, Two!Step, Two!SpuriousWakeup, Two!Finished, Two!vars

LEMMA ShowsInTurn ==
  ASSUME NEW t, Shows(t), InTurn = printed, InTurn' = printed'
  PROVE  Turns!AlternationNext
BY Players DEF Shows, Turns!AlternationNext, Turns!PlayerPrints, Turns!MyTurn, Turns!Player,
               Player

LEMMA StepShows == IInv /\ IInv' /\ [PingPongNext]_allVars => [Turns!AlternationNext]_InTurn
<1> SUFFICES ASSUME IInv, IInv', [PingPongNext]_allVars
             PROVE  Turns!AlternationNext \/ InTurn' = InTurn
  OBVIOUS
<1>1. CASE /\ program = "task14, task16a" /\ program' = program
           /\ [Sem!Next]_(Sem!vars)
  <2>1. SemParts /\ InTurn = Sem!InTurn /\ InTurn' = Sem!InTurn'
    BY <1>1, IInvByProgram DEF InTurn
  <2>2. named' = named
    BY <1>1 DEF Sem!Next, Sem!Step, Sem!WaitAndPrint, Sem!Post, Sem!Opens, Sem!Open,
                Sem!ChildUnlinks, Sem!Unlink, Sem!KillAndRestart, Sem!Finished, Sem!vars
  <2>3. CASE named
    BY <2>1, <2>2, <2>3 DEF Sem!InTurn
  <2>4. CASE ~ named
    BY <1>1, <2>1, <2>2, <2>4, SemShows, ShowsInTurn DEF Sem!InTurn
  <2>5. QED
    BY <2>3, <2>4
<1>2. CASE program = "task12_" /\ program' = program /\ [One!Next]_(One!vars)
  BY <1>2, IInvByProgram, OneShows, ShowsInTurn DEF InTurn
<1>3. CASE program = "task12" /\ program' = program /\ [Two!Next]_(Two!vars)
  <2>1. TwoParts /\ TwoParts' /\ InTurn = Two!InTurn /\ InTurn' = Two!InTurn'
    BY <1>3, IInvByProgram DEF InTurn, IInv, TwoInv, TwoParts
  <2>2. InTurn = IF pc[0] \in {"join", "done"} THEN printed ELSE [t \in Player |-> 0]
    BY <2>1, TwoShown
  <2>3. (TwoParts => Two!InTurn = IF pc[0] \in {"join", "done"} THEN printed
                                  ELSE [t \in Player |-> 0])'
    BY TwoShown, PTL
  <2>4. InTurn' = IF pc'[0] \in {"join", "done"} THEN printed' ELSE [t \in Player |-> 0]
    BY <2>1, <2>3, Players
  <2>5. CASE pc[0] \notin {"join", "done"}
    BY <1>3, <2>1, <2>2, <2>4, <2>5, TwoJoined
  <2>6. CASE pc[0] \in {"join", "done"}
    <3>1. InTurn = printed /\ InTurn' = printed'
      BY <1>3, <2>1, <2>2, <2>4, <2>6, TwoJoined
    <3>2. QED
      BY <1>3, <2>1, <2>6, <3>1, TwoShows, ShowsInTurn
  <2>7. QED
    BY <2>5, <2>6
<1>4. CASE UNCHANGED allVars
  BY <1>4, Stutters
     DEF InTurn, Sem!InTurn, Two!InTurn, Two!FlagStolen
<1>5. QED
  BY <1>1, <1>2, <1>3, <1>4 DEF PingPongNext, TwoRuns, OneRuns, SemRuns

(* The refinement: under InTurn every program of the exercise is an        *)
(* alternation of the players, whatever signals, wakeups and kills come.   *)
THEOREM ImplementsAlternation == PingPongSpec => RefinesAlternation
<1>1. PingPongInit => Turns!AlternationInit
  <2> SUFFICES ASSUME PingPongInit PROVE InTurn = [t \in Player |-> 0]
    BY Players DEF Turns!AlternationInit, Turns!Player, Player
  <2>1. printed = [t \in Player |-> 0]
    BY Players DEF PingPongInit, Two!Init, One!Init, Sem!Init
  <2>2. QED
    BY <2>1, Players
       DEF InTurn, PingPongInit, Two!InTurn, Sem!InTurn
<1>2. QED
  BY <1>1, StepShows, InductiveInvariant, PTL
     DEF PingPongSpec, RefinesAlternation, Turns!AlternationSpec

=============================================================================
