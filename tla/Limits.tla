------------------------------- MODULE Limits -------------------------------
(* The launcher's local estimate of ChatGPT usage: the plan check             *)
(* (adapters/chatgpt-web/limits.ts, limits-controller.cjs), the receipt of    *)
(* every physical Send of a tracked turn (browser-worker.ts, control-         *)
(* server.cjs) and the store that keeps a week of receipts for each account   *)
(* (limits-store.cjs).  The account in the browser may change at any time,    *)
(* the file may not be written, an identity may not be readable, a report may *)
(* be lost, and the launcher may be restarted.                                *)
EXTENDS Naturals

CONSTANTS
  Accounts,      \* account keys
  Sends,         \* physical sends of a message
  Retention,     \* days a receipt is kept
  LastDay,       \* bound: days
  LimitsFaults   \* bound: files not written, reports lost, launchers restarted

ASSUME LimitsAssumption ==
  {Retention, LastDay, LimitsFaults} \subseteq Nat /\ "no" \notin Accounts

VARIABLES
  history,       \* the checked account and what the store keeps of every account
  limitsError,   \* "Local history may be incomplete": shown until a check succeeds
  planCheck,     \* the plan check under way, and the account it began with
  send,          \* what became of each send
  usage          \* the signed-in account, the day, the faults

limitsVars == <<history, limitsError, planCheck, send, usage>>

Unchecked == [plan |-> "none", since |-> 0, events |-> {}]
NoCheck == "no"
Unsent == [at |-> "none", as |-> NoCheck, day |-> 0]

\* This send will not be counted.
Silent == [Unsent EXCEPT !.at = "silent"]

LimitsInit ==
  /\ history = [active |-> NoCheck, of |-> [a \in Accounts |-> Unchecked]]
  /\ limitsError = FALSE /\ planCheck = NoCheck
  /\ send = [s \in Sends |-> Unsent]
  /\ usage \in [account : Accounts, day : {1}, faults : {0}]

LimitsFault == /\ usage.faults < LimitsFaults
               /\ usage' = [usage EXCEPT !.faults = @ + 1]

\* The key of the account that the page's session names.
AccountRead == usage.account

\* A turn holds its lease until its receipts are reported; plan checks wait for that.
UnderWay == {s \in Sends : send[s].at \in {"tracked", "identified", "accepted"}}

-----------------------------------------------------------------------------
\* The store keeps a receipt for a week.  Its file is written before its copy in
\* memory: what was not written is not held either, and a restart finds the same.
InRetention(s) == send[s].day + Retention > usage.day
WeekOf == [history EXCEPT !.of = [a \in Accounts |->
               [history.of[a] EXCEPT !.events = {s \in @ : InRetention(s)}]]]

\* Every look at the store drops what is too old; when that cannot be written the
\* look fails, and says so.
Looks == history' = WeekOf /\ UNCHANGED <<limitsError, usage>>
LookFails == /\ WeekOf # history /\ LimitsFault
             /\ limitsError' = TRUE
             /\ UNCHANGED history

Tracking == history.active # NoCheck /\ history.of[history.active].plan = "pro"

\* configure: an account that was checked before keeps its history and its beginning.
PlanChecked(state, a, plan) ==
  [state EXCEPT !.active = a,
                !.of[a].plan = plan,
                !.of[a].since = IF @ = 0 /\ plan = "pro" THEN usage.day ELSE @]

\* Mutant of MatchesAccount: a receipt is charged to the account that was checked.
AnyAccount(as) == history.active # NoCheck

MatchesAccount(as) == as = history.active

\* record: a receipt of the checked account, sent since tracking began.
Recorded(state, s) == [state EXCEPT !.of[state.active].events = @ \cup {s}]
Owed(state, s) == send[s].day >= state.of[state.active].since /\ InRetention(s)

-----------------------------------------------------------------------------
\* /v1/turn/start: a turn is tracked when the store says so.  An untracked turn
\* makes no receipt.
SendBegins(s) ==
  /\ send[s].at = "none" /\ planCheck = NoCheck
  /\ \/ /\ Looks
        /\ send' = [send EXCEPT ![s] = IF Tracking THEN [@ EXCEPT !.at = "tracked"] ELSE Silent]
     \/ LookFails /\ send' = [send EXCEPT ![s] = Silent]
  /\ UNCHANGED planCheck

\* The window shows the store.
LimitsShown == (Looks \/ LookFails) /\ UNCHANGED <<planCheck, send>>

\* The account is read just before Send; one that cannot be read is no account.
Identifies(s) ==
  /\ send[s].at = "tracked"
  /\ \/ send' = [send EXCEPT ![s].at = "identified", ![s].as = AccountRead] /\ UNCHANGED usage
     \/ send' = [send EXCEPT ![s].at = "identified"] /\ LimitsFault
  /\ UNCHANGED <<history, limitsError, planCheck>>

\* ChatGPT accepts the message, or it does not and no receipt is made.
Accepts(s) ==
  /\ send[s].at = "identified"
  /\ \/ send' = [send EXCEPT ![s].at = "accepted", ![s].day = usage.day]
     \/ send' = [send EXCEPT ![s] = Silent]
  /\ UNCHANGED <<history, limitsError, planCheck, usage>>

\* /v1/turn/usage: the receipt is counted, or the launcher says that one is missing,
\* or it is none of the checked plan's; a report that is lost says nothing.
Misses(s) == limitsError' = TRUE /\ send' = [send EXCEPT ![s] = Silent]
Reports(s) ==
  /\ send[s].at = "accepted"
  /\ \/ /\ Tracking /\ MatchesAccount(send[s].as) /\ Owed(WeekOf, s)
        /\ history' = Recorded(WeekOf, s) /\ send' = [send EXCEPT ![s].at = "counted"]
        /\ UNCHANGED <<limitsError, usage>>
     \/ /\ Tracking /\ ~MatchesAccount(send[s].as)
        /\ history' = WeekOf /\ Misses(s) /\ UNCHANGED usage
     \/ /\ Tracking /\ MatchesAccount(send[s].as) /\ Owed(WeekOf, s)
        /\ history' = WeekOf /\ Misses(s) /\ LimitsFault
     \/ LookFails /\ send' = [send EXCEPT ![s] = Silent]
     \/ /\ ~Tracking \/ (MatchesAccount(send[s].as) /\ ~Owed(WeekOf, s))
        /\ Looks /\ send' = [send EXCEPT ![s] = Silent]
     \/ /\ LimitsFault /\ send' = [send EXCEPT ![s] = Silent]
        /\ UNCHANGED <<history, limitsError>>
  /\ UNCHANGED planCheck

-----------------------------------------------------------------------------
\* Only an account with a plan that is counted is read again after its plan.
PlanRead(plan) == plan = "pro" => planCheck = AccountRead

\* setup: the account is read before the Billing page; one without such a plan ends
\* the check there, for another the page is read and the account once more.
CheckBegins ==
  /\ planCheck = NoCheck /\ UnderWay = {}
  /\ planCheck' = AccountRead
  /\ UNCHANGED <<history, limitsError, send, usage>>

\* A check that succeeds takes the warning away.
CheckEnds ==
  /\ planCheck # NoCheck
  /\ \/ /\ \E plan \in {"pro", "unsupported"} :
             /\ PlanRead(plan)
             /\ history' = PlanChecked(WeekOf, planCheck, plan)
        /\ limitsError' = FALSE
        /\ UNCHANGED usage
     \/ /\ limitsError' = TRUE
        /\ (planCheck # AccountRead /\ UNCHANGED usage) \/ LimitsFault
        /\ UNCHANGED history
  /\ planCheck' = NoCheck /\ UNCHANGED send

\* The environment: the account in the browser and the day.
AccountChanges ==
  /\ \E a \in Accounts \ {usage.account} : usage' = [usage EXCEPT !.account = a]
  /\ UNCHANGED <<history, limitsError, planCheck, send>>

DayPasses ==
  /\ usage.day < LastDay
  /\ usage' = [usage EXCEPT !.day = @ + 1]
  /\ UNCHANGED <<history, limitsError, planCheck, send>>

\* A new launcher reads the file; the warning and the turns under way are gone.
LauncherRestarts ==
  /\ LimitsFault
  /\ limitsError' = FALSE /\ planCheck' = NoCheck
  /\ send' = [s \in Sends |-> IF s \in UnderWay THEN Silent ELSE send[s]]
  /\ UNCHANGED history

LimitsNext ==
  \/ \E s \in Sends : SendBegins(s) \/ Identifies(s) \/ Accepts(s) \/ Reports(s)
  \/ LimitsShown \/ CheckBegins \/ CheckEnds
  \/ AccountChanges \/ DayPasses \/ LauncherRestarts

LimitsSpec == LimitsInit /\ [][LimitsNext]_limitsVars

-----------------------------------------------------------------------------
\* A receipt that was counted is in the file, under the account that was read just
\* before the message was sent and no other, until a week has passed, whatever account
\* was checked and whatever was restarted since; and nothing else is there.  A send
\* whose report is lost, or not waited for, is in no file.
CountsAreHonest ==
  /\ \A s \in Sends : send[s].at = "counted" /\ InRetention(s) =>
       \E a \in Accounts : a = send[s].as /\ s \in history.of[a].events
  /\ \A a \in Accounts : \A s \in history.of[a].events :
       send[s].at = "counted" /\ send[s].as = a
=============================================================================
