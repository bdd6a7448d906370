------------------------------- MODULE Daemon -------------------------------
(***************************************************************************)
(* What the daemon's loop (apps/live.py) does besides trading: it obeys the *)
(* chat (adapters/notifier_tg.py, engine/killswitch.py), asks whether the  *)
(* exchange is open (data/calendar.py), and has the disclosures judged     *)
(* (llm/judge.py, llm/cache.py) which a second process collects            *)
(* (data/dart.py, collect-dart).  Reconciliation, decision and orders of a *)
(* cycle are the modules LiveTrading and Trading.  Any step may raise,     *)
(* which ends the process after what it has done so far; a supervisor      *)
(* starts it again with nothing but the tables.                            *)
(***************************************************************************)
EXTENDS Integers, Sequences, FiniteSets, SequencesExt

CONSTANTS
  None,
  Commands,       \* texts of messages: "/kill", "/resume", and others
  Disclosures,    \* rcept_no of the disclosures of the watched markets
  Configs,        \* [paper, trigger] the daemon may be started with; bound: messages
  Verdicts,       \* what a model may answer
  Holidays,       \* days on which the exchange is closed
  Announced,      \* days that one answer about holidays tells of
  EventLookback,  \* in half days
  BatchLimit,     \* messages of one getUpdates
  PageCount,      \* disclosures of one page
  MaxTime,        \* bound: half days
  MaxFailures     \* bound: steps that raise, of both processes

ASSUME DaemonAssumption ==
  /\ None \notin Verdicts \cup BOOLEAN \cup Int
  /\ Holidays \subseteq Nat /\ IsFiniteSet(Disclosures)
  /\ {BatchLimit, PageCount, EventLookback, Announced, MaxTime} \subseteq Nat \ {0}
  /\ MaxFailures \in Nat
  /\ \A c \in Configs : c.paper \in BOOLEAN /\ c.trigger \in {"event", "watchlist"}
                        /\ c.messages \in Nat

VARIABLES
  cfg,
  now,          \* the clock, in half days: the second half is the session
  \* Outside.
  chat,         \* the messages sent to the bot, their number is the update_id
  confirmed,    \* the updates Telegram has dropped, as an offset was above them
  board,        \* day -> the disclosures of the day in the order they came
  \* Tables.
  killSwitch,   \* kill_switch.engaged, or None as long as there is no row
  calendar,     \* market_calendar: day -> "Y", "N" or None
  events,       \* disclosure -> time of ingested_at, or None
  judgments,    \* llm_judgments: disclosure -> verdict, or None
  \* The daemon.
  stage,        \* the step it is at
  offset,       \* of getUpdates
  batch,        \* update_ids still to be processed
  notified,     \* notified_holiday
  todo,         \* disclosures of this cycle that are still to be judged
  verdicts,     \* disclosure -> verdict of this cycle
  \* The collector.
  reading,      \* [day, page, got] of a poll, or None
  seen,
  failures,     \* Bound: steps that raised
  handled,      \* Ghost: the last message that has ever been processed
  polled,       \* Ghost: messages there were at the last getUpdates
  owed,         \* Ghost: what was listed when a poll began: now, and of successful ones
  acted         \* Ghost: disclosure -> verdict a cycle has acted upon, or None

outside   == <<chat, confirmed, board>>
tables    == <<killSwitch, calendar, events, judgments>>
process   == <<stage, offset, batch, notified, todo, verdicts>>
collector == <<reading, seen>>
ghosts    == <<handled, polled, owed, acted>>
vars == <<cfg, now, outside, tables, process, collector, failures, ghosts>>

Times == 1..MaxTime
Day(t) == (t + 1) \div 2
Days == 1..Day(MaxTime)
IsMarketHours(t) == t % 2 = 0

Init ==
  /\ cfg \in Configs /\ now = 1
  /\ chat = <<>> /\ confirmed = 0 /\ board = [d \in Days |-> <<>>]
  /\ killSwitch = None /\ calendar = [d \in Days |-> None]
  /\ events = [e \in Disclosures |-> None] /\ judgments = [e \in Disclosures |-> None]
  /\ stage = "boot" /\ offset = None /\ batch = <<>> /\ notified = None
  /\ todo = <<>> /\ verdicts = <<>>
  /\ reading = None /\ seen = {} /\ failures = 0
  /\ handled = 0 /\ polled = 0 /\ owed = [now |-> {}, whole |-> {}]
  /\ acted = [e \in Disclosures |-> None]

\* is_engaged(): no row means not engaged.
Engaged == killSwitch = TRUE

-----------------------------------------------------------------------------
(* Start, end, and what goes wrong. *)

\* Schema, configuration and the first reconciliation are done; the message
\* about it is sent.
Boot ==
  /\ stage = "boot" /\ stage' = "poll"
  /\ UNCHANGED <<cfg, now, outside, tables, offset, batch, notified, todo, verdicts,
                 collector, failures, ghosts>>

\* A request, a message, an answer of the model or a query fails, or the process
\* is killed: the exception ends it, and its variables are gone.  Stopping it by a
\* signal ends it in the same way.
Die ==
  /\ stage # "down" /\ failures < MaxFailures
  /\ failures' = failures + 1
  /\ stage' = "down"
  /\ offset' = None /\ batch' = <<>> /\ notified' = None /\ todo' = <<>> /\ verdicts' = <<>>
  /\ UNCHANGED <<cfg, now, outside, tables, collector, ghosts>>

\* The supervisor starts main() again.
Restart ==
  /\ stage = "down" /\ stage' = "boot"
  /\ UNCHANGED <<cfg, now, outside, tables, offset, batch, notified, todo, verdicts,
                 collector, failures, ghosts>>

-----------------------------------------------------------------------------
(* _poll_telegram(). *)

\* Telegram drops what is below the offset and hands over the oldest that remain.
GetUpdates ==
  /\ stage = "poll" /\ stage' = "commands"
  /\ confirmed' = IF offset = None THEN confirmed ELSE offset - 1
  /\ batch' = [i \in 1..Min({BatchLimit, Len(chat) - confirmed'}) |-> confirmed' + i]
  /\ polled' = Len(chat)
  /\ UNCHANGED <<cfg, now, chat, board, tables, offset, notified, todo, verdicts,
                 collector, failures, handled, owed, acted>>

\* Faulty variant: a row that exists is not updated.
SwitchOnce(text) ==
  IF killSwitch # None THEN killSwitch
  ELSE CASE text = "/kill" -> TRUE [] text = "/resume" -> FALSE [] OTHER -> None

\* What a command makes of the switch; any other message leaves it alone.
Switch(text) ==
  CASE text = "/kill" -> TRUE
    [] text = "/resume" -> FALSE
    [] OTHER -> killSwitch

\* process_update(): the effect is committed before the answer is sent.
ProcessCommand ==
  /\ stage = "commands" /\ batch # <<>>
  /\ killSwitch' = Switch(chat[Head(batch)])
  /\ handled' = Max({handled, Head(batch)})
  /\ stage' = "answer"
  /\ UNCHANGED <<cfg, now, outside, calendar, events, judgments, offset, batch, notified,
                 todo, verdicts, collector, failures, polled, owed, acted>>

\* Faulty variant: the offset is one too far.
NextOffsetPast(update) == update + 2

NextOffset(update) == update + 1

\* The answer has been sent, and the offset moves.
Answered ==
  /\ stage = "answer" /\ stage' = "commands"
  /\ offset' = NextOffset(Head(batch)) /\ batch' = Tail(batch)
  /\ UNCHANGED <<cfg, now, outside, tables, notified, todo, verdicts, collector,
                 failures, ghosts>>

-----------------------------------------------------------------------------
(* The calendar and the hours. *)

\* refresh_if_needed(): asks only if today has no row.  The answer tells of some
\* days to come, or of none at all.
RefreshCalendar ==
  /\ stage = "commands" /\ batch = <<>> /\ ~cfg.paper
  /\ calendar[Day(now)] = None
  /\ \E rows \in {{}, Day(now)..Min({Day(now) + Announced - 1, Day(MaxTime)})} :
       calendar' = [d \in Days |->
         IF d \notin rows THEN calendar[d] ELSE IF d \in Holidays THEN "N" ELSE "Y"]
  /\ stage' = "calendar"
  /\ UNCHANGED <<cfg, now, outside, killSwitch, events, judgments, offset, batch, notified,
                 todo, verdicts, collector, failures, ghosts>>

CalendarKnown ==
  /\ stage = "commands" /\ batch = <<>>
  /\ cfg.paper \/ calendar[Day(now)] # None
  /\ stage' = "calendar"
  /\ UNCHANGED <<cfg, now, outside, tables, offset, batch, notified, todo, verdicts,
                 collector, failures, ghosts>>

\* A day without a row counts as open.
Holiday == ~cfg.paper /\ calendar[Day(now)] = "N"

\* The loop waits: for the whole holiday, which is told once, or out of hours.
Rest ==
  /\ stage = "calendar" /\ (Holiday \/ ~IsMarketHours(now))
  /\ notified' = IF Holiday THEN Day(now) ELSE notified
  /\ stage' = "poll"
  /\ UNCHANGED <<cfg, now, outside, tables, offset, batch, todo, verdicts, collector,
                 failures, ghosts>>

-----------------------------------------------------------------------------
(* The disclosures of a cycle. *)

\* _load_recent_events().
RecentEvents == {e \in Disclosures : events[e] # None /\ now - events[e] < EventLookback}

\* With entries by rank there is no judge, and nothing is asked of the model.
BeginContext ==
  /\ stage = "calendar" /\ ~Holiday /\ IsMarketHours(now)
  /\ todo' \in (IF cfg.trigger = "event" THEN SetToSeqs(RecentEvents) ELSE {<<>>})
  /\ stage' = "judge"
  /\ UNCHANGED <<cfg, now, outside, tables, offset, batch, notified, verdicts, collector,
                 failures, ghosts>>

\* Faulty variant: the cache is not asked.
AnswersUncached(e) == Verdicts

\* CachingJudge.judge(): the stored verdict, or any from the model.
Answers(e) == IF judgments[e] # None THEN {judgments[e]} ELSE Verdicts

\* What is new is stored, and on a conflict the stored one stays.
Judge ==
  /\ stage = "judge" /\ todo # <<>>
  /\ \E v \in Answers(Head(todo)) :
       /\ judgments' = [judgments EXCEPT ![Head(todo)] = IF @ = None THEN v ELSE @]
       /\ verdicts' = [e \in DOMAIN verdicts \cup {Head(todo)} |->
                         IF e = Head(todo) THEN v ELSE verdicts[e]]
  /\ todo' = Tail(todo)
  /\ UNCHANGED <<cfg, now, outside, killSwitch, calendar, events, stage, offset, batch,
                 notified, collector, failures, ghosts>>

\* run_cycle() decides with these verdicts and under the kill switch, and the
\* cycle is logged.
RunCycle ==
  /\ stage = "judge" /\ todo = <<>>
  /\ acted' = [e \in Disclosures |-> IF e \in DOMAIN verdicts THEN verdicts[e] ELSE acted[e]]
  /\ verdicts' = <<>> /\ stage' = "poll"
  /\ UNCHANGED <<cfg, now, outside, tables, offset, batch, notified, todo, collector,
                 failures, handled, polled, owed>>

-----------------------------------------------------------------------------
(* collect-dart. *)

\* collect_once(): of today, or with --date of an earlier day.  Without entries by
\* event nobody collects (scripts/daily_collect.sh).
BeginPoll ==
  /\ reading = None /\ cfg.trigger = "event"
  /\ \E d \in 1..Day(now) :
       /\ reading' = [day |-> d, page |-> 1, got |-> {}]
       /\ owed' = [owed EXCEPT !.now = ToSet(board[d])]
  /\ UNCHANGED <<cfg, now, outside, tables, process, seen, failures, handled, polled, acted>>

\* DART lists the newest first, so that pages shift while they are read.
Page(d, n) ==
  LET list == Reverse(board[d])
  IN ToSet(SubSeq(list, (n - 1) * PageCount + 1, Min({Len(list), n * PageCount})))

TotalPages(d) == (Len(board[d]) + PageCount - 1) \div PageCount

\* list_disclosures() stops at the number of pages that this page tells.
IsLastPage(r) == r.page >= TotalPages(r.day)

ReadPage ==
  /\ reading # None /\ reading.page # None
  /\ reading' = [reading EXCEPT
       !.got = @ \cup Page(reading.day, reading.page),
       !.page = IF IsLastPage(reading) THEN None ELSE @ + 1]
  /\ UNCHANGED <<cfg, now, outside, tables, process, seen, failures, ghosts>>

\* ingest(): new rows get the present time, what is there stays as it is.
Ingest ==
  /\ reading # None /\ reading.page = None
  /\ events' = [e \in Disclosures |->
       IF events[e] = None /\ e \in reading.got \ seen THEN now ELSE events[e]]
  /\ seen' = seen \cup reading.got
  /\ reading' = None
  /\ owed' = [now |-> {}, whole |-> owed.whole \cup owed.now]
  /\ UNCHANGED <<cfg, now, outside, killSwitch, calendar, judgments, process, failures,
                 handled, polled, acted>>

\* An error of DART, the network or the database: the poll is given up and, with
\* an interval, made again; or the process ends and forgets what it has seen.
PollFails ==
  /\ reading # None /\ failures < MaxFailures
  /\ failures' = failures + 1
  /\ reading' = None /\ seen' \in {seen, {}}
  /\ owed' = [owed EXCEPT !.now = {}]
  /\ UNCHANGED <<cfg, now, outside, tables, process, handled, polled, acted>>

-----------------------------------------------------------------------------
(* Outside. *)

Send ==
  /\ Len(chat) < cfg.messages
  /\ \E text \in Commands : chat' = Append(chat, text)
  /\ UNCHANGED <<cfg, now, confirmed, board, tables, process, collector, failures, ghosts>>

Disclose(e) ==
  /\ cfg.trigger = "event"
  /\ \A d \in Days : e \notin ToSet(board[d])
  /\ board' = [board EXCEPT ![Day(now)] = Append(@, e)]
  /\ UNCHANGED <<cfg, now, chat, confirmed, tables, process, collector, failures, ghosts>>

\* A loop reads the clock once per turn.
Tick ==
  /\ now < MaxTime /\ now' = now + 1
  /\ stage \in {"poll", "down"} /\ reading = None
  /\ UNCHANGED <<cfg, outside, tables, process, collector, failures, ghosts>>

Next ==
  \/ Boot \/ Die \/ Restart
  \/ GetUpdates \/ ProcessCommand \/ Answered
  \/ RefreshCalendar \/ CalendarKnown \/ Rest
  \/ BeginContext \/ Judge \/ RunCycle
  \/ BeginPoll \/ ReadPage \/ Ingest \/ PollFails
  \/ Send \/ Tick \/ \E e \in Disclosures : Disclose(e)

Spec == Init /\ [][Next]_vars

-----------------------------------------------------------------------------
(* Properties. *)

\* Well-formedness of tables and variables; the offset is the number of an update
\* that exists, or the next one.
TypeOK ==
  /\ now \in Times /\ chat \in Seq(Commands) /\ confirmed \in 0..Len(chat)
  /\ killSwitch \in BOOLEAN \cup {None}
  /\ calendar \in [Days -> {"Y", "N", None}]
  /\ events \in [Disclosures -> Times \cup {None}]
  /\ judgments \in [Disclosures -> Verdicts \cup {None}]
  /\ stage \in {"down", "boot", "poll", "commands", "answer", "calendar", "judge"}
  /\ offset \in 1..(Len(chat) + 1) \cup {None}
  /\ batch \in Seq(1..Len(chat)) /\ todo \in Seq(Disclosures)
  /\ notified \in Days \cup {None}
  /\ DOMAIN verdicts \subseteq Disclosures
  /\ reading # None => reading.got \subseteq Disclosures
  /\ failures \in 0..MaxFailures

\* The switch that a sequence of messages leaves.
Effect(messages) ==
  \E i \in DOMAIN messages :
    /\ messages[i] = "/kill"
    /\ \A j \in i..Len(messages) : messages[j] # "/resume"

\* A cycle runs under the switch that the last command of the chat asks for,
\* through crashes between effect, answer and confirmation, and commands that
\* come again: of all messages there were when the cycle's turn began, unless
\* there were more than Telegram hands over at a time (engine/killswitch.py).
CycleObeysTheChat ==
  stage = "judge" =>
    /\ Engaged <=> Effect(SubSeq(chat, 1, handled))
    /\ handled = polled \/ handled - confirmed >= BatchLimit

\* The disclosures a cycle decides on: whatever was listed when a successful poll
\* of its day began is in the table, although pages shift while they are read
\* (data/dart.py), and all cycles act on one and the same verdict of it, through
\* crashes and repeated judgments (llm/cache.py).
EventsAreWhole ==
  /\ \A e \in owed.whole : events[e] # None
  /\ \A e \in DOMAIN verdicts : acted[e] # None => verdicts[e] = acted[e]
=============================================================================
