---------------------------- MODULE DaemonProofs ----------------------------
(***************************************************************************)
(* Theorems about Daemon, for any number of messages and disclosures, and  *)
(* every size of a batch and of a page.                                    *)
(***************************************************************************)
EXTENDS Daemon, FiniteSetTheorems, TLAPS

-----------------------------------------------------------------------------
(* Commands. *)

\* The last update the process has confirmed or will confirm next.
Start == IF offset = None THEN confirmed ELSE offset - 1

\* The last update obeyed since the process began to read.
Position == IF stage = "answer" THEN Start + 1 ELSE Start

\* Between getUpdates and the end of the turn.
InTurn == stage \in {"commands", "answer", "calendar", "judge"}

ChatTypes ==
  /\ chat \in Seq(Commands)
  /\ confirmed \in Nat /\ handled \in Nat /\ polled \in Nat
  /\ offset = None \/ offset \in Nat \ {0}
  /\ batch \in Seq(Nat)

\* A batch is what follows the confirmed updates, and it is obeyed in order.
BatchIsNext ==
  /\ \A i \in DOMAIN batch : batch[i] = Start + i
  /\ stage = "answer" => batch # <<>>
  /\ stage \in {"calendar", "judge"} => batch = <<>>
  /\ ~InTurn => batch = <<>>
  /\ InTurn => Start + Len(batch) = Min({confirmed + BatchLimit, polled})

\* What has been obeyed lies within one batch of what is confirmed.
ReachIsBounded ==
  /\ confirmed <= Start /\ Position <= handled
  /\ handled <= Len(chat) /\ handled <= confirmed + BatchLimit
  /\ polled <= Len(chat)
  /\ InTurn => handled <= Start + Len(batch)

\* Commands that come again are obeyed in order: if none is left of those that
\* have been obeyed before, the switch is what they ask for.
SwitchFollows ==
  (\A i \in (Position + 1)..handled : chat[i] \notin {"/kill", "/resume"})
    => Engaged <=> Effect(SubSeq(chat, 1, handled))

ChatInv == ChatTypes /\ BatchIsNext /\ ReachIsBounded /\ SwitchFollows

LEMMA MinOfTwo ==
  ASSUME NEW a \in Int, NEW b \in Int
  PROVE  Min({a, b}) = IF a <= b THEN a ELSE b
BY DEF Min

LEMMA MaxOfTwo ==
  ASSUME NEW a \in Int, NEW b \in Int
  PROVE  Max({a, b}) = IF a >= b THEN a ELSE b
BY DEF Max

\* The effect of the first n messages of the chat, without the sequence.
LEMMA EffectOfPrefix ==
  ASSUME NEW c \in Seq(Commands), NEW n \in 0..Len(c)
  PROVE  Effect(SubSeq(c, 1, n)) <=>
           \E i \in 1..n : c[i] = "/kill" /\ \A j \in i..n : c[j] # "/resume"
<1> DEFINE s == SubSeq(c, 1, n)
<1>1. Len(s) = n /\ DOMAIN s = 1..n /\ \A i \in 1..n : s[i] = c[i]
  OBVIOUS
<1> HIDE DEF s
<1>2. Effect(s) <=> \E i \in 1..n : s[i] = "/kill" /\ \A j \in i..n : s[j] # "/resume"
  BY <1>1 DEF Effect
<1> QED
  BY <1>1, <1>2 DEF s

LEMMA InitChatInv == Init => ChatInv
<1> SUFFICES ASSUME Init PROVE ChatInv
  OBVIOUS
<1>1. ChatTypes
  BY DEF Init, ChatTypes
<1>5. BatchIsNext
  BY DEF Init, BatchIsNext, InTurn
<1>6. ReachIsBounded
  BY DaemonAssumption DEF Init, ReachIsBounded, Start, Position, InTurn
<1>2. ~Engaged
  BY DaemonAssumption DEF Init, Engaged
<1>3. chat \in Seq(Commands) /\ handled = 0 /\ handled \in 0..Len(chat)
  BY DEF Init
<1>4. ~Effect(SubSeq(chat, 1, handled))
  BY <1>3, EffectOfPrefix
<1> QED
  BY <1>1, <1>2, <1>4, <1>5, <1>6 DEF ChatInv, SwitchFollows

\* A step that touches neither the chat nor the switch, and leaves the turn as it is
\* or ends it with the batch done.
LEMMA QuietStep ==
  ASSUME ChatInv,
         UNCHANGED <<chat, confirmed, killSwitch, offset, batch, handled, polled>>,
         \/ stage' = stage
         \/ stage \notin {"answer"} /\ stage' \notin {"answer"} /\ ~InTurn'
              /\ batch = <<>>
         \/ stage \in {"commands", "calendar"} /\ stage' \in {"calendar", "judge"}
              /\ batch = <<>>
  PROVE  ChatInv'
<1>1. ChatTypes'
  BY DEF ChatInv, ChatTypes
<1>2. Start' = Start /\ Position' = Position /\ (InTurn' => InTurn)
  BY DEF Start, Position, InTurn
<1>3. BatchIsNext'
  BY <1>2 DEF ChatInv, BatchIsNext, InTurn
<1>4. ReachIsBounded'
  BY <1>2 DEF ChatInv, ReachIsBounded
<1>5. SwitchFollows'
  BY <1>2 DEF ChatInv, SwitchFollows, Engaged
<1> QED
  BY <1>1, <1>3, <1>4, <1>5 DEF ChatInv

LEMMA ChatStep == ChatInv /\ [Next]_vars => ChatInv'
<1> SUFFICES ASSUME ChatInv, [Next]_vars PROVE ChatInv'
  OBVIOUS
<1> USE DEF ChatInv
<1>0. /\ BatchLimit \in Nat \ {0} /\ None \notin Int /\ Start \in Nat
      /\ Position \in Nat /\ Start <= Position /\ Start <= handled
  <2>1. BatchLimit \in Nat \ {0} /\ None \notin Int /\ Start \in Nat
    BY DaemonAssumption DEF ChatTypes, Start
  <2> QED
    BY <2>1 DEF Position, ReachIsBounded, ChatTypes
<1>1. CASE Die
  <2>1. /\ Start' = confirmed /\ Position' = confirmed /\ ~InTurn'
        /\ UNCHANGED <<chat, confirmed, killSwitch, handled, polled>> /\ batch' = <<>>
        /\ offset' = None
    BY <1>1 DEF Die, Start, Position, InTurn, outside, tables, ghosts
  <2>2. ChatTypes'
    BY <2>1 DEF ChatTypes
  <2>4. BatchIsNext'
    <3>1. stage' = "down"
      BY <1>1 DEF Die
    <3> QED
      BY <2>1, <3>1 DEF BatchIsNext
  <2>5. ReachIsBounded'
    BY <1>0, <2>1 DEF ReachIsBounded, ChatTypes, InTurn
  <2>3. SwitchFollows'
    <3>1. confirmed <= Position /\ Position \in Nat /\ confirmed \in Nat
      BY <1>0 DEF ReachIsBounded, Position, ChatTypes
    <3> QED
      BY <2>1, <3>1 DEF SwitchFollows, Engaged, ChatTypes
  <2> QED
    BY <2>2, <2>3, <2>4, <2>5
<1>2. CASE GetUpdates
  <2> DEFINE n == Min({BatchLimit, Len(chat) - confirmed'})
  <2>1. /\ stage = "poll" /\ stage' = "commands" /\ confirmed' = Start
        /\ batch' = [i \in 1..n |-> confirmed' + i] /\ polled' = Len(chat)
        /\ UNCHANGED <<chat, killSwitch, offset, handled>>
    BY <1>2 DEF GetUpdates, Start, tables
  <2>2. Start' = Start /\ Position' = Start /\ Position = Start
    BY <1>0, <2>1 DEF Start, Position
  <2>3. Len(chat) \in Nat /\ Start <= Len(chat)
    BY <1>0 DEF ChatTypes, ReachIsBounded
  <2>4. n = (IF BatchLimit <= Len(chat) - Start THEN BatchLimit ELSE Len(chat) - Start)
    BY <1>0, <2>1, <2>3, MinOfTwo
  <2>5. n \in Nat
    BY <1>0, <2>3, <2>4
  <2>6. Min({Start + BatchLimit, Len(chat)}) = Start + n
    BY <1>0, <2>3, <2>4, MinOfTwo
  <2> HIDE DEF n
  <2>7. batch' \in Seq(Nat) /\ Len(batch') = n /\ DOMAIN batch' = 1..n
        /\ \A i \in 1..n : batch'[i] = Start + i
    BY <1>0, <2>1, <2>5
  <2>8. ChatTypes'
    BY <1>0, <2>1, <2>3, <2>7 DEF ChatTypes
  <2>9. BatchIsNext'
    BY <2>1, <2>2, <2>6, <2>7 DEF BatchIsNext, InTurn
  <2>10. ReachIsBounded'
    BY <1>0, <2>1, <2>2, <2>3, <2>4, <2>7 DEF ReachIsBounded, ChatTypes
  <2>11. SwitchFollows'
    BY <2>1, <2>2 DEF SwitchFollows, Engaged
  <2> QED
    BY <2>8, <2>9, <2>10, <2>11
<1>3. CASE ProcessCommand
  <2> DEFINE b == Head(batch)
  <2>1. /\ stage = "commands" /\ stage' = "answer" /\ batch # <<>>
        /\ killSwitch' = Switch(chat[b]) /\ handled' = Max({handled, b})
        /\ UNCHANGED <<chat, confirmed, offset, batch, polled>>
    BY <1>3 DEF ProcessCommand, outside
  <2>2. b = Start + 1 /\ Len(batch) \in Nat \ {0}
    BY <2>1 DEF BatchIsNext, ChatTypes
  <2>3. Start' = Start /\ Position = Start /\ Position' = Start + 1
    BY <2>1 DEF Start, Position
  <2>4. handled' = IF handled >= b THEN handled ELSE b
    BY <1>0, <2>1, <2>2, MaxOfTwo DEF ChatTypes
  <2> HIDE DEF b
  <2>5. Start + Len(batch) <= confirmed + BatchLimit /\ Start + Len(batch) <= polled
    <3>1. Start + Len(batch) = Min({confirmed + BatchLimit, polled})
      BY <2>1 DEF BatchIsNext, InTurn
    <3>2. confirmed + BatchLimit \in Int /\ polled \in Int
      BY <1>0 DEF ChatTypes
    <3> QED
      BY <3>1, <3>2, MinOfTwo
  <2>6. b <= Len(chat)
    BY <1>0, <2>2, <2>5 DEF ReachIsBounded, ChatTypes
  <2>7. ChatTypes'
    BY <1>0, <2>1, <2>2, <2>4 DEF ChatTypes
  <2>8. BatchIsNext'
    BY <2>1, <2>3 DEF BatchIsNext, InTurn
  <2>9. ReachIsBounded'
    BY <1>0, <2>1, <2>2, <2>3, <2>4, <2>5, <2>6 DEF ReachIsBounded, InTurn, ChatTypes
  <2>10. SwitchFollows'
    <3> SUFFICES ASSUME \A i \in (b + 1)..handled' : chat[i] \notin {"/kill", "/resume"}
                 PROVE  Engaged' <=> \E i \in 1..handled' :
                          chat[i] = "/kill" /\ \A j \in i..handled' : chat[j] # "/resume"
      <4>1. chat \in Seq(Commands) /\ handled' \in 0..Len(chat)
        BY <2>1, <2>7, <2>9 DEF ChatTypes, ReachIsBounded
      <4> QED
        BY <2>1, <2>2, <2>3, <4>1, EffectOfPrefix DEF SwitchFollows, Engaged
    <3>1. b \in 1..handled' /\ handled' \in Nat
      BY <1>0, <2>2, <2>4 DEF ChatTypes
    <3>2. CASE chat[b] = "/kill"
      <4>1. Engaged'
        BY <2>1, <3>2 DEF Engaged, Switch
      <4>2. \A j \in b..handled' : chat[j] # "/resume"
        BY <1>0, <2>2, <3>1, <3>2
      <4> QED
        BY <3>1, <3>2, <4>1, <4>2
    <3>3. CASE chat[b] = "/resume"
      <4>1. ~Engaged'
        BY <2>1, <3>3 DEF Engaged, Switch
      <4>2. ASSUME NEW i \in 1..handled', chat[i] = "/kill" PROVE b \in i..handled'
        BY <1>0, <2>2, <3>1, <3>3, <4>2
      <4> QED
        BY <3>3, <4>1, <4>2
    <3>4. CASE chat[b] \notin {"/kill", "/resume"}
      <4>1. Engaged' = Engaged
        BY <2>1, <3>4 DEF Engaged, Switch
      <4>2. \A i \in (Position + 1)..handled : chat[i] \notin {"/kill", "/resume"}
        BY <1>0, <2>2, <2>3, <2>4, <3>4 DEF ChatTypes
      <4>3. handled \in 0..Len(chat) /\ chat \in Seq(Commands)
        BY DEF ChatTypes, ReachIsBounded
      <4>4. Engaged <=> \E i \in 1..handled :
              chat[i] = "/kill" /\ \A j \in i..handled : chat[j] # "/resume"
        BY <4>2, <4>3, EffectOfPrefix DEF SwitchFollows
      <4>5. CASE handled >= b
        BY <2>4, <4>1, <4>4, <4>5
      <4>6. CASE ~(handled >= b)
        <5>1. handled' = handled + 1 /\ b = handled + 1
          BY <1>0, <2>2, <2>4, <4>6 DEF ReachIsBounded, ChatTypes
        <5>2. 1..handled' = (1..handled) \cup {b} /\ handled \in Nat
          BY <5>1 DEF ChatTypes
        <5>3. \A i \in 1..handled : i..handled' = (i..handled) \cup {b}
          BY <5>1, <5>2
        <5> QED
          BY <3>4, <4>1, <4>4, <5>2, <5>3
      <4> QED
        BY <4>5, <4>6
    <3> QED
      BY <3>2, <3>3, <3>4
  <2> QED
    BY <2>7, <2>8, <2>9, <2>10
<1>4. CASE Answered
  <2>1. /\ stage = "answer" /\ stage' = "commands" /\ offset' = Head(batch) + 1
        /\ batch' = Tail(batch) /\ batch # <<>>
        /\ UNCHANGED <<chat, confirmed, killSwitch, handled, polled>>
    BY <1>4 DEF Answered, NextOffset, outside, tables, ghosts, BatchIsNext
  <2>2. Head(batch) = Start + 1 /\ Len(batch) \in Nat \ {0}
    BY <2>1 DEF BatchIsNext, ChatTypes
  <2>3. Start' = Start + 1 /\ Position' = Start + 1 /\ Position = Start + 1
    BY <1>0, <2>1, <2>2 DEF Start, Position
  <2>4. /\ batch' \in Seq(Nat) /\ Len(batch') = Len(batch) - 1
        /\ \A i \in DOMAIN batch' : batch'[i] = batch[i + 1] /\ i + 1 \in DOMAIN batch
    BY <2>1, <2>2 DEF ChatTypes
  <2>5. ChatTypes'
    BY <1>0, <2>1, <2>2, <2>4 DEF ChatTypes
  <2>6. BatchIsNext'
    <3>1. \A i \in DOMAIN batch' : batch'[i] = Start' + i
      <4> SUFFICES ASSUME NEW i \in DOMAIN batch' PROVE batch'[i] = Start' + i
        OBVIOUS
      <4>1. i \in Nat /\ batch'[i] = batch[i + 1] /\ i + 1 \in DOMAIN batch
        BY <2>4
      <4> QED
        BY <1>0, <2>3, <4>1 DEF BatchIsNext
    <3>2. Start' + Len(batch') = Min({confirmed + BatchLimit, polled})
      BY <1>0, <2>1, <2>2, <2>3, <2>4 DEF BatchIsNext, InTurn
    <3> QED
      BY <2>1, <3>1, <3>2 DEF BatchIsNext, InTurn
  <2>7. ReachIsBounded'
    <3>1. handled >= Start + 1
      BY <1>0, <2>1 DEF ReachIsBounded, Position
    <3> QED
      BY <1>0, <2>1, <2>2, <2>3, <2>4, <3>1 DEF ReachIsBounded, InTurn, ChatTypes
  <2>8. SwitchFollows'
    BY <2>1, <2>3 DEF SwitchFollows, Engaged
  <2> QED
    BY <2>5, <2>6, <2>7, <2>8
<1>5. CASE Send
  <2>1. /\ UNCHANGED <<confirmed, killSwitch, stage, offset, batch, handled, polled>>
        /\ Len(chat') = Len(chat) + 1 /\ chat' \in Seq(Commands)
        /\ \A i \in 1..Len(chat) : chat'[i] = chat[i]
    BY <1>5 DEF Send, tables, process, ghosts, ChatTypes
  <2>0. Start' = Start /\ Position' = Position /\ InTurn' = InTurn
    BY <2>1 DEF Start, Position, InTurn
  <2>2. ChatTypes' /\ BatchIsNext' /\ ReachIsBounded'
    <3>1. ChatTypes'
      BY <2>1 DEF ChatTypes
    <3>2. BatchIsNext'
      BY <2>0, <2>1 DEF BatchIsNext
    <3>3. ReachIsBounded'
      BY <2>0, <2>1 DEF ReachIsBounded, ChatTypes
    <3> QED
      BY <3>1, <3>2, <3>3
  <2>3. handled \in 0..Len(chat) /\ handled \in 0..Len(chat') /\ chat \in Seq(Commands)
    BY <2>1 DEF ChatTypes, ReachIsBounded
  <2>4. Effect(SubSeq(chat', 1, handled)) = Effect(SubSeq(chat, 1, handled))
    <3>1. SubSeq(chat', 1, handled) = SubSeq(chat, 1, handled)
      BY <2>1, <2>3
    <3> QED
      BY <3>1
  <2>5. SwitchFollows'
    BY <1>0, <2>0, <2>1, <2>3, <2>4 DEF SwitchFollows, Engaged
  <2> QED
    BY <2>2, <2>5
<1>6. CASE Boot \/ Restart \/ RefreshCalendar \/ CalendarKnown \/ Rest \/ BeginContext
  BY <1>6, QuietStep DEF Boot, Restart, RefreshCalendar, CalendarKnown, Rest, BeginContext,
     outside, tables, ghosts, BatchIsNext, InTurn
<1>7. CASE Judge \/ RunCycle \/ BeginPoll \/ ReadPage \/ Ingest \/ PollFails
  BY <1>7, QuietStep DEF Judge, RunCycle, BeginPoll, ReadPage, Ingest, PollFails,
     outside, tables, process, ghosts, BatchIsNext, InTurn
<1>8. CASE Tick \/ \E e \in Disclosures : Disclose(e)
  BY <1>8, QuietStep DEF Tick, Disclose, outside, tables, process, ghosts
<1>9. CASE UNCHANGED vars
  BY <1>9, QuietStep DEF vars, outside, tables, process, ghosts
<1> QED
  BY <1>1, <1>2, <1>3, <1>4, <1>5, <1>6, <1>7, <1>8, <1>9 DEF Next

\* Every cycle runs under the switch of the last command of the chat, for any
\* number of messages, failures and restarts (apps/live.py, _poll_telegram()).
THEOREM CyclesObeyTheChat == Spec => []CycleObeysTheChat
<1>1. Init => ChatInv
  BY InitChatInv
<1>2. ChatInv /\ [Next]_vars => ChatInv'
  BY ChatStep
<1>3. ChatInv => CycleObeysTheChat
  <2> SUFFICES ASSUME ChatInv, stage = "judge"
               PROVE  /\ Engaged <=> Effect(SubSeq(chat, 1, handled))
                      /\ handled = polled \/ handled - confirmed >= BatchLimit
    BY DEF CycleObeysTheChat
  <2>1. batch = <<>> /\ Position = Start /\ handled = Start
        /\ Start = Min({confirmed + BatchLimit, polled})
    BY DaemonAssumption DEF ChatInv, BatchIsNext, ReachIsBounded, ChatTypes, Position,
       InTurn, Start
  <2>2. Engaged <=> Effect(SubSeq(chat, 1, handled))
    <3>1. (Position + 1)..handled = {}
      BY <2>1 DEF ChatInv, ChatTypes
    <3> QED
      BY <3>1 DEF ChatInv, SwitchFollows
  <2>3. handled = polled \/ handled - confirmed >= BatchLimit
    BY <2>1, MinOfTwo, DaemonAssumption DEF ChatInv, ChatTypes
  <2> QED
    BY <2>2, <2>3
<1> QED
  BY <1>1, <1>2, <1>3, PTL DEF Spec

-----------------------------------------------------------------------------
(* Disclosures and their verdicts. *)

\* An entry of a day, from the newest back: the page that is read next holds it, or a
\* later one does.
IsAhead(r, i) == Len(board[r.day]) - i >= (r.page - 1) * PageCount

TableTypes ==
  /\ now \in Times
  /\ board \in [Days -> Seq(Disclosures)]
  /\ events \in [Disclosures -> Nat \cup {None}]
  /\ judgments \in [Disclosures -> Verdicts \cup {None}]
  /\ acted \in [Disclosures -> Verdicts \cup {None}]
  /\ owed \in [now : SUBSET Disclosures, whole : SUBSET Disclosures]
  /\ seen \subseteq Disclosures

\* Of what was listed when the poll began, nothing slips through as pages shift.
PollMissesNothing ==
  reading # None =>
    /\ reading \in [day : Days, page : (Nat \ {0}) \cup {None}, got : SUBSET Disclosures]
    /\ owed.now \subseteq ToSet(board[reading.day])
    /\ reading.page = None => owed.now \subseteq reading.got
    /\ reading.page # None =>
         \A i \in DOMAIN board[reading.day] :
           board[reading.day][i] \in owed.now \ reading.got => IsAhead(reading, i)

\* What is not inserted again is in the table.
SeenIsStored == \A e \in seen \cup owed.whole : events[e] # None

\* Every verdict in use is the stored one.
VerdictsStand ==
  /\ todo \in Seq(Disclosures)
  /\ DOMAIN verdicts \subseteq Disclosures
  /\ \A e \in DOMAIN verdicts : judgments[e] # None /\ verdicts[e] = judgments[e]
  /\ \A e \in Disclosures : acted[e] # None => acted[e] = judgments[e]

EventInv == TableTypes /\ PollMissesNothing /\ SeenIsStored /\ VerdictsStand

LEMMA InitEventInv == Init => EventInv
<1> SUFFICES ASSUME Init PROVE EventInv
  OBVIOUS
<1>1. TableTypes /\ PollMissesNothing /\ SeenIsStored
  BY DaemonAssumption DEF Init, TableTypes, PollMissesNothing, SeenIsStored, Times
<1>2. VerdictsStand
  BY DEF Init, VerdictsStand
<1> QED
  BY <1>1, <1>2 DEF EventInv

\* The last page ends at or after the oldest entry of the day.
LEMMA LastPageEnds ==
  ASSUME NEW l \in Nat, NEW p \in Nat \ {0}, NEW n \in Nat, n >= (l + p - 1) \div p
  PROVE  n * p >= l
<1> DEFINE q == (l + p - 1) \div p
           r == (l + p - 1) % p
<1>1. q \in Nat /\ r \in 0..(p - 1) /\ l + p - 1 = q * p + r
  OBVIOUS
<1> HIDE DEF q, r
<1>2. n >= q
  BY DEF q
<1>3. n * p >= q * p
  BY <1>1, <1>2
<1> QED
  BY <1>1, <1>3

LEMMA NextPageStarts ==
  ASSUME NEW n \in Nat, NEW p \in Nat
  PROVE  (n + 1 - 1) * p = (n - 1) * p + p /\ (n - 1) * p \in Int
OBVIOUS

\* A part of a sequence holds what lies within it.
LEMMA PartHolds ==
  ASSUME NEW S, NEW q \in Seq(S), NEW m \in Nat, NEW n \in 0..Len(q), NEW j \in (m + 1)..n
  PROVE  q[j] \in ToSet(SubSeq(q, m + 1, n))
<1>1. j - m \in 1..(n - m) /\ j - m \in Nat \ {0}
  OBVIOUS
<1>2. SubSeq(q, m + 1, n) \in Seq(S) /\ Len(SubSeq(q, m + 1, n)) = n - m
  <2>1. m + 1 \in 1..(Len(q) + 1) /\ n \in m..Len(q)
    OBVIOUS
  <2> QED
    BY <2>1
<1>3. j - m \in DOMAIN SubSeq(q, m + 1, n)
  BY <1>1, <1>2
<1>4. SubSeq(q, m + 1, n)[j - m] = q[j]
  BY <1>1
<1> QED
  BY <1>3, <1>4 DEF ToSet

\* A page holds the entries that begin at its place and before the next one's.
LEMMA PageHolds ==
  ASSUME NEW d \in Days, board \in [Days -> Seq(Disclosures)],
         NEW n \in Nat \ {0}, NEW i \in DOMAIN board[d],
         Len(board[d]) - i >= (n - 1) * PageCount, Len(board[d]) - i < n * PageCount
  PROVE  board[d][i] \in Page(d, n)
<1> DEFINE b == board[d]
           list == Reverse(b)
           before == (n - 1) * PageCount
           after == n * PageCount
           last == Min({Len(list), after})
           k == Len(b) - i + 1
<1>1. b \in Seq(Disclosures) /\ Len(b) \in Nat /\ i \in 1..Len(b) /\ k \in 1..Len(b)
  OBVIOUS
<1>2. list \in Seq(Disclosures) /\ Len(list) = Len(b) /\ list[k] = b[i]
  BY <1>1 DEF Reverse
<1>3. before \in Nat /\ after \in Nat
  BY DaemonAssumption
<1>4. k > before /\ k <= after
  BY <1>1, <1>3
<1> HIDE DEF b, list, before, after
<1>5. last = IF Len(b) <= after THEN Len(b) ELSE after
  <2>1. Len(b) \in Int /\ after \in Int
    BY <1>1, <1>3
  <2>2. Min({Len(b), after}) = IF Len(b) <= after THEN Len(b) ELSE after
    BY <2>1, MinOfTwo, Zenon
  <2> QED
    BY <1>2, <2>2
<1> HIDE DEF k, last
<1>6. k \in (before + 1)..last /\ last \in 0..Len(list)
  BY <1>1, <1>2, <1>3, <1>4, <1>5
<1>7. list[k] \in ToSet(SubSeq(list, before + 1, last))
  BY <1>2, <1>3, <1>6, PartHolds
<1> QED
  BY <1>2, <1>7 DEF Page, b, list, before, after, last

LEMMA PageIsDisclosures ==
  ASSUME NEW d \in Days, board \in [Days -> Seq(Disclosures)], NEW n \in Nat \ {0}
  PROVE  Page(d, n) \subseteq ToSet(board[d])
<1> DEFINE b == board[d]
           list == Reverse(b)
           first == (n - 1) * PageCount + 1
           last == Min({Len(list), n * PageCount})
<1>1. b \in Seq(Disclosures)
  OBVIOUS
<1>2. \A k \in DOMAIN list : list[k] \in ToSet(b)
  BY <1>1 DEF Reverse, ToSet
<1>3. list \in Seq(Disclosures)
  BY <1>1 DEF Reverse
<1>4. first \in Nat \ {0} /\ n * PageCount \in Nat
  BY DaemonAssumption
<1>5. last \in Int /\ last <= Len(list)
  <2>1. Len(list) \in Int
    BY <1>3
  <2> QED
    BY <1>4, <2>1, MinOfTwo
<1> HIDE DEF b, list, first, last
<1>6. \A k \in DOMAIN SubSeq(list, first, last) :
        SubSeq(list, first, last)[k] = list[first + k - 1] /\ first + k - 1 \in DOMAIN list
  BY <1>3, <1>4, <1>5
<1> QED
  BY <1>2, <1>6 DEF Page, ToSet, b, list, first, last

-----------------------------------------------------------------------------
LEMMA QuietEvents ==
  ASSUME EventInv,
         UNCHANGED <<now, board, events, judgments, todo, verdicts, collector, owed, acted>>
  PROVE  EventInv'
BY DEF EventInv, TableTypes, PollMissesNothing, SeenIsStored, VerdictsStand, IsAhead, collector

LEMMA EventStep == EventInv /\ [Next]_vars => EventInv'
<1> SUFFICES ASSUME EventInv, [Next]_vars PROVE EventInv'
  OBVIOUS
<1> USE DEF EventInv
<1>0. /\ None \notin Int /\ None \notin Verdicts /\ PageCount \in Nat \ {0}
      /\ IsFiniteSet(Disclosures)
  BY DaemonAssumption
<1>1. CASE Die
  <2>1. /\ todo' = <<>> /\ verdicts' = <<>>
        /\ UNCHANGED <<now, board, tables, collector, owed, acted>>
    BY <1>1 DEF Die, outside, ghosts
  <2>2. TableTypes' /\ PollMissesNothing' /\ SeenIsStored'
    BY <2>1 DEF TableTypes, PollMissesNothing, SeenIsStored, IsAhead, tables, collector
  <2>3. VerdictsStand'
    BY <2>1 DEF VerdictsStand, tables
  <2> QED
    BY <2>2, <2>3
<1>2. CASE BeginContext
  <2>1. UNCHANGED <<now, board, tables, verdicts, collector, owed, acted>>
    BY <1>2 DEF BeginContext, outside, ghosts
  <2>2. todo' \in Seq(Disclosures)
    <3>1. todo' \in SetToSeqs(RecentEvents) \/ todo' \in {<<>>}
      BY <1>2 DEF BeginContext
    <3>5. <<>> \in Seq(Disclosures)
      OBVIOUS
    <3>2. RecentEvents \subseteq Disclosures
      BY DEF RecentEvents
    <3>3. Cardinality(RecentEvents) \in Nat
      BY <1>0, <3>2, FS_Subset, FS_CardinalityType
    <3>4. ASSUME todo' \in SetToSeqs(RecentEvents) PROVE todo' \in Seq(Disclosures)
      <4>1. todo' \in [1..Cardinality(RecentEvents) -> RecentEvents]
        BY <3>4 DEF SetToSeqs
      <4> QED
        BY <3>2, <3>3, <4>1
    <3> QED
      BY <3>1, <3>4, <3>5
  <2>3. TableTypes' /\ PollMissesNothing' /\ SeenIsStored'
    BY <2>1 DEF TableTypes, PollMissesNothing, SeenIsStored, IsAhead, tables, collector
  <2>4. VerdictsStand'
    BY <2>1, <2>2 DEF VerdictsStand, tables
  <2> QED
    BY <2>3, <2>4
<1>3. CASE Judge
  <2> DEFINE e == Head(todo)
  <2>1. /\ todo # <<>> /\ todo' = Tail(todo)
        /\ UNCHANGED <<now, board, events, collector, owed, acted>>
    BY <1>3 DEF Judge, outside, ghosts
  <2>2. e \in Disclosures /\ todo' \in Seq(Disclosures)
    BY <2>1 DEF VerdictsStand
  <2>3. PICK v \in Answers(e) :
          /\ judgments' = [judgments EXCEPT ![e] = IF @ = None THEN v ELSE @]
          /\ verdicts' = [x \in DOMAIN verdicts \cup {e} |-> IF x = e THEN v ELSE verdicts[x]]
    BY <1>3 DEF Judge
  <2> HIDE DEF e
  <2>4. /\ judgments[e] # None => v = judgments[e]
        /\ judgments[e] = None => v \in Verdicts
    BY <2>3 DEF Answers
  <2>5. /\ judgments' \in [Disclosures -> Verdicts \cup {None}]
        /\ judgments'[e] = v /\ v # None
        /\ \A x \in Disclosures : judgments[x] # None => judgments'[x] = judgments[x]
    BY <1>0, <2>2, <2>3, <2>4 DEF TableTypes
  <2>6. TableTypes' /\ PollMissesNothing' /\ SeenIsStored'
    BY <2>1, <2>5 DEF TableTypes, PollMissesNothing, SeenIsStored, IsAhead, collector
  <2>7. VerdictsStand'
    <3>1. \A x \in DOMAIN verdicts' : judgments'[x] # None /\ verdicts'[x] = judgments'[x]
      BY <2>3, <2>5 DEF VerdictsStand
    <3>2. \A x \in Disclosures : acted'[x] # None => acted'[x] = judgments'[x]
      BY <2>1, <2>5 DEF VerdictsStand
    <3> QED
      BY <2>2, <2>3, <3>1, <3>2 DEF VerdictsStand
  <2> QED
    BY <2>6, <2>7
<1>4. CASE RunCycle
  <2>1. /\ acted' = [e \in Disclosures |-> IF e \in DOMAIN verdicts THEN verdicts[e] ELSE acted[e]]
        /\ verdicts' = <<>>
        /\ UNCHANGED <<now, board, tables, todo, collector, owed>>
    BY <1>4 DEF RunCycle, outside
  <2>2. acted' \in [Disclosures -> Verdicts \cup {None}]
    BY <2>1 DEF TableTypes, VerdictsStand
  <2>3. TableTypes' /\ PollMissesNothing' /\ SeenIsStored'
    BY <2>1, <2>2 DEF TableTypes, PollMissesNothing, SeenIsStored, IsAhead, tables, collector
  <2>4. VerdictsStand'
    BY <2>1 DEF VerdictsStand, tables
  <2> QED
    BY <2>3, <2>4
<1>5. CASE BeginPoll
  <2>1. UNCHANGED <<now, board, tables, todo, verdicts, seen, acted>>
    BY <1>5 DEF BeginPoll, outside, process
  <2>2. PICK d \in 1..Day(now) :
          /\ reading' = [day |-> d, page |-> 1, got |-> {}]
          /\ owed' = [owed EXCEPT !.now = ToSet(board[d])]
    BY <1>5 DEF BeginPoll
  <2>3. d \in Days
    BY DaemonAssumption DEF TableTypes, Times, Days, Day
  <2>4. ToSet(board[d]) \subseteq Disclosures
    BY <2>3 DEF TableTypes, ToSet
  <2>5. TableTypes' /\ owed'.now = ToSet(board[d]) /\ owed'.whole = owed.whole
    BY <2>1, <2>2, <2>4 DEF TableTypes, tables
  <2>6. PollMissesNothing'
    <3>1. reading' \in [day : Days, page : (Nat \ {0}) \cup {None}, got : SUBSET Disclosures]
      BY <2>2, <2>3
    <3>2. \A i \in DOMAIN board[d] : IsAhead(reading, i)'
      <4>1. Len(board[d]) \in Nat /\ DOMAIN board[d] = 1..Len(board[d])
        BY <2>3 DEF TableTypes
      <4>2. (1 - 1) * PageCount = 0
        BY <1>0
      <4> QED
        BY <2>1, <2>2, <4>1, <4>2 DEF IsAhead
    <3> QED
      BY <1>0, <2>1, <2>2, <2>5, <3>1, <3>2 DEF PollMissesNothing
  <2>7. SeenIsStored' /\ VerdictsStand'
    BY <2>1, <2>5 DEF SeenIsStored, VerdictsStand, tables
  <2> QED
    BY <2>5, <2>6, <2>7
<1>6. CASE ReadPage
  <2> DEFINE d == reading.day
             n == reading.page
             b == board[d]
             page == Page(d, n)
  <2>1. /\ reading # None /\ n # None
        /\ UNCHANGED <<now, board, tables, todo, verdicts, seen, owed, acted>>
        /\ reading' = [reading EXCEPT !.got = @ \cup page,
                                      !.page = IF IsLastPage(reading) THEN None ELSE @ + 1]
    BY <1>6 DEF ReadPage, outside, process, ghosts
  <2>2. /\ reading \in [day : Days, page : (Nat \ {0}) \cup {None}, got : SUBSET Disclosures]
        /\ owed.now \subseteq ToSet(b)
        /\ \A i \in DOMAIN b : b[i] \in owed.now \ reading.got => IsAhead(reading, i)
    BY <2>1 DEF PollMissesNothing
  <2>3. d \in Days /\ n \in Nat \ {0} /\ b \in Seq(Disclosures) /\ board \in [Days -> Seq(Disclosures)]
    BY <2>1, <2>2 DEF TableTypes
  <2>4. page \subseteq Disclosures
    BY <2>3, PageIsDisclosures DEF ToSet
  <2>5. /\ reading'.day = d /\ reading'.got = reading.got \cup page
        /\ reading'.page = IF IsLastPage(reading) THEN None ELSE n + 1
        /\ reading' \in [day : Days, page : (Nat \ {0}) \cup {None}, got : SUBSET Disclosures]
    <3> DEFINE next == IF IsLastPage(reading) THEN None ELSE n + 1
    <3>1. next \in (Nat \ {0}) \cup {None}
      BY <2>3
    <3>2. reading' = [reading EXCEPT !.got = reading.got \cup page, !.page = next]
      BY <2>1
    <3> HIDE DEF page, next
    <3>3. /\ reading'.day = reading.day /\ reading'.got = reading.got \cup page
          /\ reading'.page = next
          /\ reading' \in [day : Days, page : (Nat \ {0}) \cup {None}, got : SUBSET Disclosures]
      BY <2>2, <2>4, <3>1, <3>2
    <3> QED
      BY <3>3 DEF next
  <2>6. Len(b) \in Nat /\ DOMAIN b = 1..Len(b)
    BY <2>3
  <2>7. \A i \in DOMAIN b : b[i] \in owed.now \ reading'.got => Len(b) - i >= n * PageCount
    <3> SUFFICES ASSUME NEW i \in DOMAIN b, b[i] \in owed.now \ reading'.got,
                        Len(b) - i < n * PageCount
                 PROVE  FALSE
      BY <1>0, <2>3, <2>6
    <3>1. Len(b) - i >= (n - 1) * PageCount
      BY <2>2, <2>5 DEF IsAhead
    <3>2. b[i] \in page
      BY <2>3, <3>1, PageHolds
    <3> QED
      BY <2>5, <3>2
  <2> HIDE DEF page
  <2>8. CASE IsLastPage(reading)
    <3>1. n >= (Len(b) + PageCount - 1) \div PageCount
      BY <2>8 DEF IsLastPage, TotalPages
    <3>2. n * PageCount >= Len(b) /\ n * PageCount \in Nat
      <4>1. n \in Nat /\ PageCount \in Nat \ {0} /\ Len(b) \in Nat
        BY <1>0, <2>3, <2>6
      <4> HIDE DEF n, b
      <4>2. n * PageCount >= Len(b)
        BY <3>1, <4>1, LastPageEnds
      <4> QED
        BY <4>1, <4>2
    <3>3. \A i \in DOMAIN b : ~(Len(b) - i >= n * PageCount)
      BY <2>6, <3>2
    <3>4. owed.now \subseteq reading'.got
      BY <2>2, <2>7, <3>3 DEF ToSet
    <3> QED
      BY <2>1, <2>2, <2>5, <2>8, <3>4 DEF PollMissesNothing, SeenIsStored, VerdictsStand,
         TableTypes, tables
  <2>9. CASE ~IsLastPage(reading)
    <3>1. reading'.page = n + 1 /\ n + 1 - 1 = n
      BY <2>3, <2>5, <2>9
    <3>2. \A i \in DOMAIN b : b[i] \in owed.now \ reading'.got => IsAhead(reading, i)'
      <4>1. \A i \in DOMAIN b : IsAhead(reading, i)' <=> Len(b) - i >= n * PageCount
        <5>1. reading'.page - 1 = n /\ reading'.day = d /\ board' = board
          BY <2>1, <2>3, <2>5, <3>1
        <5> HIDE DEF n
        <5> QED
          BY <5>1 DEF IsAhead
      <4> QED
        BY <2>7, <4>1
    <3>3. PollMissesNothing'
      <4>1. reading'.day = d /\ reading'.page # None /\ board' = board /\ owed' = owed
        BY <1>0, <2>1, <2>3, <2>5, <3>1
      <4> QED
        BY <2>2, <2>5, <3>2, <4>1 DEF PollMissesNothing
    <3> QED
      BY <2>1, <3>3 DEF SeenIsStored, VerdictsStand, TableTypes, tables
  <2> QED
    BY <2>8, <2>9
<1>7. CASE Ingest
  <2>1. /\ reading # None /\ reading.page = None /\ reading' = None
        /\ UNCHANGED <<now, board, judgments, todo, verdicts, acted>>
        /\ events' = [e \in Disclosures |->
              IF events[e] = None /\ e \in reading.got \ seen THEN now ELSE events[e]]
        /\ seen' = seen \cup reading.got
        /\ owed' = [now |-> {}, whole |-> owed.whole \cup owed.now]
    BY <1>7 DEF Ingest, outside, process
  <2>2. reading.got \subseteq Disclosures /\ owed.now \subseteq reading.got
    BY <2>1 DEF PollMissesNothing
  <2>3. now # None /\ now \in Nat
    BY <1>0, DaemonAssumption DEF TableTypes, Times
  <2>4. TableTypes'
    BY <2>1, <2>2, <2>3 DEF TableTypes
  <2>5. SeenIsStored'
    BY <2>1, <2>2, <2>3 DEF SeenIsStored, TableTypes
  <2>6. PollMissesNothing' /\ VerdictsStand'
    BY <2>1 DEF PollMissesNothing, VerdictsStand
  <2> QED
    BY <2>4, <2>5, <2>6
<1>8. CASE PollFails
  <2>1. /\ reading' = None /\ seen' \in {seen, {}} /\ owed' = [owed EXCEPT !.now = {}]
        /\ UNCHANGED <<now, board, tables, todo, verdicts, acted>>
    BY <1>8 DEF PollFails, outside, process
  <2>2. TableTypes' /\ owed'.whole = owed.whole
    BY <2>1 DEF TableTypes, tables
  <2>3. PollMissesNothing' /\ SeenIsStored' /\ VerdictsStand'
    BY <2>1, <2>2 DEF PollMissesNothing, SeenIsStored, VerdictsStand, tables
  <2> QED
    BY <2>2, <2>3
<1>9. ASSUME NEW e \in Disclosures, Disclose(e) PROVE EventInv'
  <2> DEFINE t == Day(now)
  <2>1. /\ board' = [board EXCEPT ![t] = Append(@, e)]
        /\ \A d \in Days : e \notin ToSet(board[d])
        /\ UNCHANGED <<now, tables, todo, verdicts, collector, owed, acted>>
    BY <1>9 DEF Disclose, process, ghosts
  <2>2. t \in Days
    BY DaemonAssumption DEF TableTypes, Times, Days, Day
  <2> HIDE DEF t
  <2>3. TableTypes'
    <3>1. board' \in [Days -> Seq(Disclosures)]
      BY <2>1, <2>2 DEF TableTypes
    <3> QED
      BY <2>1, <3>1 DEF TableTypes, tables, collector
  <2>4. PollMissesNothing'
    <3> DEFINE d == reading.day
               b == board[d]
    <3> SUFFICES ASSUME reading # None PROVE PollMissesNothing'
      BY <2>1 DEF PollMissesNothing, collector
    <3>1. /\ d \in Days /\ b \in Seq(Disclosures) /\ reading' = reading /\ owed' = owed
          /\ e \notin ToSet(b) /\ reading.page \in Nat \cup {None}
      BY <2>1 DEF PollMissesNothing, TableTypes, collector
    <3>2. board'[d] \in {b, Append(b, e)}
      BY <2>1, <2>2, <3>1 DEF TableTypes
    <3>3. /\ Len(b) <= Len(board'[d]) /\ Len(b) \in Nat /\ Len(board'[d]) \in Nat
          /\ ToSet(b) \subseteq ToSet(board'[d])
          /\ \A i \in DOMAIN board'[d] :
               board'[d][i] = e \/ (i \in DOMAIN b /\ board'[d][i] = b[i])
      <4> DEFINE b2 == board'[d]
      <4>1. b \in Seq(Disclosures)
        BY <3>1
      <4>2. b2 = b \/ b2 = Append(b, e)
        BY <3>2
      <4> HIDE DEF b, b2
      <4>3. /\ Len(b) <= Len(b2) /\ Len(b) \in Nat /\ Len(b2) \in Nat
            /\ \A i \in DOMAIN b : i \in DOMAIN b2 /\ b2[i] = b[i]
            /\ \A i \in DOMAIN b2 : b2[i] = e \/ (i \in DOMAIN b /\ b2[i] = b[i])
        BY <4>1, <4>2
      <4> QED
        BY <4>3 DEF ToSet, b2
    <3>4. owed.now \subseteq ToSet(b) /\ e \notin owed.now
      BY <3>1 DEF PollMissesNothing
    <3>5. ASSUME reading.page # None, NEW i \in DOMAIN board'[d],
                 board'[d][i] \in owed.now \ reading.got
          PROVE  IsAhead(reading, i)'
      <4>1. i \in DOMAIN b /\ board'[d][i] = b[i]
        BY <3>3, <3>4, <3>5
      <4>2. Len(b) - i >= (reading.page - 1) * PageCount
        BY <3>5, <4>1 DEF PollMissesNothing, IsAhead
      <4>3. (reading.page - 1) * PageCount \in Int /\ i \in Nat
        BY <1>0, <3>1, <3>5, <4>1
      <4> QED
        BY <3>1, <3>3, <4>2, <4>3 DEF IsAhead
    <3> QED
      BY <3>1, <3>3, <3>4, <3>5 DEF PollMissesNothing
  <2>5. SeenIsStored' /\ VerdictsStand'
    BY <2>1 DEF SeenIsStored, VerdictsStand, tables, collector
  <2> QED
    BY <2>3, <2>4, <2>5
<1>10. CASE Tick
  <2>1. /\ now' = now + 1 /\ now < MaxTime /\ reading = None
        /\ UNCHANGED <<board, tables, todo, verdicts, collector, owed, acted>>
    BY <1>10 DEF Tick, outside, process, ghosts
  <2>2. TableTypes'
    BY <2>1, DaemonAssumption DEF TableTypes, Times, tables, collector
  <2> QED
    BY <2>1, <2>2 DEF PollMissesNothing, SeenIsStored, VerdictsStand, tables, collector
<1>11. CASE Answered \/ CalendarKnown \/ Rest \/ Boot \/ Restart
  BY <1>11, QuietEvents DEF Answered, CalendarKnown, Rest, Boot, Restart,
     outside, tables, collector, ghosts
<1>12. CASE ProcessCommand \/ RefreshCalendar
  BY <1>12, QuietEvents DEF ProcessCommand, RefreshCalendar, outside, collector, ghosts
<1>14. CASE GetUpdates
  BY <1>14, QuietEvents DEF GetUpdates, tables, collector
<1>15. CASE Send
  BY <1>15, QuietEvents DEF Send, tables, process, collector, ghosts
<1>13. CASE UNCHANGED vars
  BY <1>13, QuietEvents DEF vars, outside, tables, process, collector, ghosts
<1> QED
  BY <1>1, <1>2, <1>3, <1>4, <1>5, <1>6, <1>7, <1>8, <1>9, <1>10, <1>11, <1>12, <1>13,
     <1>14, <1>15 DEF Next

\* What was listed when a successful poll began is in the table, although pages
\* shift while they are read, and all cycles act on one verdict of it, for any
\* number of disclosures, failures and restarts (data/dart.py, llm/cache.py).
THEOREM DisclosuresAreWhole == Spec => []EventsAreWhole
<1>1. Init => EventInv
  BY InitEventInv
<1>2. EventInv /\ [Next]_vars => EventInv'
  BY EventStep
<1>3. EventInv => EventsAreWhole
  BY DEF EventInv, TableTypes, SeenIsStored, VerdictsStand, EventsAreWhole
<1> QED
  BY <1>1, <1>2, <1>3, PTL DEF Spec

-----------------------------------------------------------------------------
(* The variables. *)

\* What the other two invariants do not say.
TypeInv ==
  /\ killSwitch \in BOOLEAN \cup {None}
  /\ calendar \in [Days -> {"Y", "N", None}]
  /\ events \in [Disclosures -> Times \cup {None}]
  /\ stage \in {"down", "boot", "poll", "commands", "answer", "calendar", "judge"}
  /\ notified \in Days \cup {None}
  /\ failures \in 0..MaxFailures

LEMMA InitTypeInv == Init => TypeInv
<1> SUFFICES ASSUME Init PROVE TypeInv
  OBVIOUS
<1>1. killSwitch = None /\ notified = None /\ stage = "boot" /\ failures = 0
  BY DEF Init
<1>2. calendar = [d \in Days |-> None] /\ events = [e \in Disclosures |-> None]
  BY DEF Init
<1> QED
  BY <1>1, <1>2, DaemonAssumption DEF TypeInv

\* The day of a time of the clock.
LEMMA DayIsDay == \A t \in Times : Day(t) \in Days
<1> SUFFICES ASSUME NEW t \in Times PROVE Day(t) \in Days
  OBVIOUS
<1>1. MaxTime \in Nat \ {0}
  BY DaemonAssumption
<1>2. t \in Nat /\ 1 <= t /\ t <= MaxTime
  BY <1>1 DEF Times
<1>3. 1 <= (t + 1) \div 2 /\ (t + 1) \div 2 <= (MaxTime + 1) \div 2
  BY <1>1, <1>2
<1> QED
  BY <1>1, <1>2, <1>3 DEF Days, Day

LEMMA TypeStep ==
  ASSUME EventInv, TypeInv, [Next]_vars
  PROVE  TypeInv'
<1> USE DEF TypeInv
<1>0. now \in Times /\ MaxFailures \in Nat /\ Day(now) \in Days
  BY DayIsDay, DaemonAssumption DEF EventInv, TableTypes
<1>1. CASE Die
  <2>1. /\ failures' = failures + 1 /\ failures < MaxFailures /\ stage' = "down"
        /\ notified' = None /\ UNCHANGED tables
    BY <1>1 DEF Die
  <2> QED
    BY <1>0, <2>1 DEF tables
<1>2. CASE ProcessCommand
  <2>1. /\ killSwitch' = Switch(chat[Head(batch)]) /\ stage' = "answer"
        /\ UNCHANGED <<calendar, events, notified, failures>>
    BY <1>2 DEF ProcessCommand
  <2>2. Switch(chat[Head(batch)]) \in {TRUE, FALSE, killSwitch}
    BY DEF Switch
  <2>3. killSwitch' \in BOOLEAN \cup {None}
    BY <2>1, <2>2
  <2> QED
    BY <2>1, <2>3
<1>3. CASE RefreshCalendar
  <2>1. /\ stage' = "calendar" /\ UNCHANGED <<killSwitch, events, notified, failures>>
    BY <1>3 DEF RefreshCalendar
  <2>2. PICK rows :
          calendar' = [d \in Days |->
            IF d \notin rows THEN calendar[d] ELSE IF d \in Holidays THEN "N" ELSE "Y"]
    BY <1>3 DEF RefreshCalendar
  <2>3. calendar' \in [Days -> {"Y", "N", None}]
    BY <2>2
  <2> QED
    BY <2>1, <2>3
<1>4. CASE Rest
  <2>1. /\ notified' \in {Day(now), notified} /\ stage' = "poll"
        /\ UNCHANGED <<tables, failures>>
    BY <1>4 DEF Rest
  <2> QED
    BY <1>0, <2>1 DEF tables
<1>5. CASE Judge
  BY <1>5 DEF Judge
<1>6. CASE Ingest
  <2>1. events' \in [Disclosures -> Times \cup {None}]
    BY <1>0, <1>6 DEF Ingest
  <2> QED
    BY <1>6, <2>1 DEF Ingest, process
<1>7. CASE PollFails
  <2>1. failures' = failures + 1 /\ failures < MaxFailures
    BY <1>7 DEF PollFails
  <2> QED
    BY <1>0, <1>7, <2>1 DEF PollFails, process, tables
<1>8. CASE Boot \/ Restart \/ GetUpdates \/ Answered \/ CalendarKnown \/ BeginContext \/ RunCycle
  BY <1>8 DEF Boot, Restart, GetUpdates, Answered, CalendarKnown, BeginContext, RunCycle, tables
<1>9. CASE \/ BeginPoll \/ ReadPage \/ Send \/ Tick
           \/ (\E e \in Disclosures : Disclose(e)) \/ UNCHANGED vars
  BY <1>9 DEF BeginPoll, ReadPage, Send, Tick, Disclose, vars, tables, process
<1> QED
  BY <1>1, <1>2, <1>3, <1>4, <1>5, <1>6, <1>7, <1>8, <1>9 DEF Next

\* The offset and the batch lie within the chat.
LEMMA UpdatesExist ==
  ASSUME ChatInv
  PROVE  /\ chat \in Seq(Commands) /\ confirmed \in 0..Len(chat)
         /\ offset \in 1..(Len(chat) + 1) \cup {None}
         /\ batch \in Seq(1..Len(chat))
<1>1. /\ chat \in Seq(Commands) /\ Len(chat) \in Nat
      /\ confirmed \in Nat /\ handled \in Nat /\ polled \in Nat
      /\ offset = None \/ offset \in Nat \ {0}
      /\ batch \in Seq(Nat) /\ BatchLimit \in Nat
  BY DaemonAssumption DEF ChatInv, ChatTypes
<1>2. Start \in Nat /\ confirmed <= Start /\ Start <= handled
  BY <1>1 DEF Start, Position, ChatInv, ReachIsBounded
<1>3. Start <= Len(chat) /\ polled <= Len(chat)
  BY <1>1, <1>2 DEF ChatInv, ReachIsBounded
<1>4. offset \in 1..(Len(chat) + 1) \cup {None}
  BY <1>1, <1>3 DEF Start
<1>5. ASSUME NEW i \in DOMAIN batch PROVE batch[i] \in 1..Len(chat)
  <2>1. batch # <<>> /\ i \in 1..Len(batch) /\ Len(batch) \in Nat
    BY <1>1
  <2>2. Start + Len(batch) = Min({confirmed + BatchLimit, polled})
    BY <2>1 DEF ChatInv, BatchIsNext
  <2>3. Start + Len(batch) <= polled
    BY <1>1, <2>2, MinOfTwo
  <2>4. batch[i] = Start + i
    BY DEF ChatInv, BatchIsNext
  <2> QED
    BY <1>1, <1>2, <1>3, <2>1, <2>3, <2>4
<1>6. batch \in Seq(1..Len(chat))
  BY <1>1, <1>5
<1> QED
  BY <1>1, <1>2, <1>3, <1>4, <1>6

\* The tables and the variables of the daemon and of the collector are well-formed;
\* in particular what the daemon asks of Telegram and has in hand are updates that
\* exist, through crashes and restarts (adapters/notifier_tg.py, apps/live.py).
THEOREM DaemonIsWellFormed == Spec => []TypeOK
<1> DEFINE Inv == ChatInv /\ EventInv /\ TypeInv
<1>1. Init => Inv
  BY InitChatInv, InitEventInv, InitTypeInv
<1>2. Inv /\ [Next]_vars => Inv'
  BY ChatStep, EventStep, TypeStep
<1>3. Inv => TypeOK
  <2> SUFFICES ASSUME Inv PROVE TypeOK
    OBVIOUS
  <2>1. reading # None => reading.got \subseteq Disclosures
    BY DEF EventInv, PollMissesNothing
  <2> QED
    BY <2>1, UpdatesExist DEF TypeInv, EventInv, TableTypes, VerdictsStand, TypeOK
<1> QED
  BY <1>1, <1>2, <1>3, PTL DEF Spec
=============================================================================
