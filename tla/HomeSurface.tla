---------------------------- MODULE HomeSurface ----------------------------
(***************************************************************************)
(* The launcher's home surface (launcher/electron/browser-host.cjs): the   *)
(* ChatGPT page that is not a turn's tab.  One exclusive operation at a    *)
(* time uses it (sign-in, passkey import, sign-out, session refresh, the   *)
(* helper's inspections, a change of the interaction mode), while page     *)
(* probes, session reads started by cookie changes, the sign-in popup and  *)
(* the security-check recovery run beside it, all on one page and one      *)
(* browser session.  Whether a turn runs is the environment's choice here: *)
(* BrowserHost models the tabs.  The status line, the titles and the zoom  *)
(* are not modelled, and revision numbers are the flag "outdated" of the   *)
(* reads that remember them.                                               *)
(***************************************************************************)
EXTENDS Integers, Sequences

CONSTANT HomeEvents         \* how many operations are asked for, steps fail, pages change,
                            \* turns begin and popups open, together

VARIABLES
    interactionMode,          \* "automatic" or "manual"
    manualOperation,          \* the exclusive operation and how far it is
    requested,                \* operations asked for that have not begun
    turnRuns,                 \* a turn's tab is running (activeTraceId)
    cookies,                  \* whether the browser session is signed in
    cookieChanges,            \* cookie events not yet delivered
    authenticationProbe,      \* the shared probe of the page
    authenticationRefresh,    \* the shared read of the session
    homePage,                 \* the document the home view shows
    navigation,               \* the load under way, and the loads that were aborted
    surfaceLoaded,            \* did-finish-load is still marking the page
    authView,                 \* where the sign-in popup is
    authNavigationError,      \* the popup failed
    authenticated,            \* what the launcher says of the session
    reauthenticationRequired, \* a turn was redirected to the sign-in page
    recoveryArmed,            \* a backend answered since the last recovery
    challengeRecovery,        \* the security-check recovery
    imported,                 \* the session holds a passkey import not yet accepted
    unread,                   \* nobody has read the session since it was last spoken of
    homeUsed                  \* how many of the bounded events happened

homeVars == <<interactionMode, manualOperation, requested, turnRuns, cookies, cookieChanges,
              authenticationProbe, authenticationRefresh, homePage, navigation, surfaceLoaded,
              authView, authNavigationError, authenticated, reauthenticationRequired,
              recoveryArmed, challengeRecovery, imported, unread, homeUsed>>

SignIns == {"login", "passkey"}
SignInOperations == SignIns \cup {"logout"}
HelperWork == {"verification", "smoke", "inspection"}
Operations == SignInOperations \cup HelperWork \cup {"refresh"}

NoManualOperation ==
    [name |-> "none", pc |-> "none", was |-> "manual", mutated |-> FALSE, failed |-> FALSE,
     discards |-> FALSE, discarded |-> FALSE, cleaned |-> FALSE]
NoProbe == [pc |-> "none", read |-> "none", moved |-> FALSE, outdated |-> FALSE,
            failed |-> FALSE]
NoRefresh == [pc |-> "none", read |-> "none", outdated |-> FALSE]

Pc(step) == [manualOperation EXCEPT !.pc = step]
AtStep(step) == manualOperation.pc = step
Occupied == manualOperation.name # "none"

HomeInit ==
    /\ interactionMode \in {"automatic", "manual"}
    /\ manualOperation = NoManualOperation
    /\ requested = [o \in Operations |-> "no"]
    /\ turnRuns = FALSE
    /\ cookies \in {"in", "out"}
    /\ cookieChanges = <<>>
    /\ authenticationProbe = NoProbe
    /\ authenticationRefresh = NoRefresh
    /\ homePage = "idle"
    /\ navigation = [owner |-> "none", to |-> "idle", aborted |-> {}]
    /\ surfaceLoaded = FALSE
    /\ authView = "none"
    /\ authNavigationError = FALSE
    /\ authenticated = FALSE
    /\ reauthenticationRequired = FALSE
    /\ recoveryArmed = TRUE
    /\ challengeRecovery = "none"
    /\ imported = FALSE
    /\ unread = FALSE
    /\ homeUsed = 0

-----------------------------------------------------------------------------
(* The page, its loads and the cookie events.                              *)

\* The parties that await their own loads.
Awaiting == {"operation", "probe", "recovery"}

\* A load of the home view: it aborts the one under way.
Load(owner, page) ==
    navigation' = [owner |-> owner, to |-> page,
                   aborted |-> (navigation.aborted \cup ({navigation.owner} \cap Awaiting))
                                   \ {owner}]

\* The awaited load of this owner is over, and how it ended.
Landed(owner) == navigation.owner # owner /\ owner \notin navigation.aborted
Missed(owner) == navigation.owner # owner /\ owner \in navigation.aborted

\* A failure, or something the user, a turn or ChatGPT does.
Event == /\ homeUsed < HomeEvents
         /\ homeUsed' = homeUsed + 1

\* did-finish-load.
LoadFinishes ==
    /\ navigation.owner # "none"
    /\ homePage' = navigation.to
    /\ navigation' = [navigation EXCEPT !.owner = "none"]
    /\ surfaceLoaded' = (interactionMode = "automatic")
    /\ UNCHANGED <<interactionMode, manualOperation, requested, turnRuns, cookies,
                   cookieChanges, authenticationProbe, authenticationRefresh, authView,
                   authNavigationError, authenticated, reauthenticationRequired, recoveryArmed,
                   challengeRecovery, imported, unread, homeUsed>>

\* did-fail-load, the renderer's end, or the sixty seconds of the navigation timeout.
LoadFails ==
    /\ navigation.owner # "none"
    /\ Event
    /\ navigation' = [owner |-> "none", to |-> navigation.to,
                       aborted |-> navigation.aborted \cup ({navigation.owner} \cap Awaiting)]
    /\ UNCHANGED <<interactionMode, manualOperation, requested, turnRuns, cookies,
                   cookieChanges, authenticationProbe, authenticationRefresh, homePage,
                   surfaceLoaded, authView, authNavigationError, authenticated,
                   reauthenticationRequired, recoveryArmed, challengeRecovery, imported, unread>>

\* The session changes to value: the browser will tell.
Changed(value) ==
    /\ cookies' = value
    /\ cookieChanges' = IF cookies = value THEN cookieChanges
                        ELSE Append(cookieChanges, IF value = "in" THEN "set" ELSE "removed")

\* The user signs in or out in a page, or the server ends the session.
SessionChanges ==
    /\ Event
    /\ homePage # "idle" \/ authView # "none"
    /\ Changed(IF cookies = "in" THEN "out" ELSE "in")
    /\ UNCHANGED <<interactionMode, manualOperation, requested, turnRuns, authenticationProbe,
                   authenticationRefresh, homePage, navigation, surfaceLoaded, authView,
                   authNavigationError, authenticated, reauthenticationRequired, recoveryArmed,
                   challengeRecovery, imported, unread>>

\* The revision goes on: a read that runs remembers an older one.
Outdated(read) == [read EXCEPT !.outdated = (read.pc # "none")]

\* A cookie event: an addition is ignored while a read runs; a read begins, or the one that
\* runs is told that its answer is old; a probe is outdated either way.
CookieChanged ==
    /\ cookieChanges # <<>>
    /\ cookieChanges' = Tail(cookieChanges)
    /\ LET ignored == Head(cookieChanges) = "set" /\ authenticationRefresh.pc # "none"
           deaf == reauthenticationRequired \/ interactionMode # "automatic"
       IN  IF ignored \/ deaf
           THEN /\ unread' = (unread \/ deaf)
                /\ UNCHANGED <<authenticationProbe, authenticationRefresh>>
           ELSE /\ authenticationProbe' = Outdated(authenticationProbe)
                /\ authenticationRefresh' =
                       IF authenticationRefresh.pc = "none"
                       THEN [NoRefresh EXCEPT !.pc = "reading"]
                       ELSE Outdated(authenticationRefresh)
                /\ unread' = (unread /\ (authenticationProbe.pc # "none"
                                         \/ authenticationRefresh.pc # "none"))
    /\ UNCHANGED <<interactionMode, manualOperation, requested, turnRuns, cookies, homePage,
                   navigation, surfaceLoaded, authView, authNavigationError, authenticated,
                   reauthenticationRequired, recoveryArmed, challengeRecovery, imported,
                   homeUsed>>

\* What a read of the session may say: the truth, or not signed in when the check fails.
MayAnswer(answer) == answer \in {cookies, "out"}

\* The session endpoint answers the read.
RefreshAnswered ==
    /\ authenticationRefresh.pc = "reading"
    /\ \E answer \in {"in", "out"} :
          /\ MayAnswer(answer)
          /\ authenticationRefresh' =
                 [authenticationRefresh EXCEPT !.pc = "answered", !.read = answer]
    /\ UNCHANGED <<interactionMode, manualOperation, requested, turnRuns, cookies,
                   cookieChanges, authenticationProbe, homePage, navigation, surfaceLoaded,
                   authView, authNavigationError, authenticated, reauthenticationRequired,
                   recoveryArmed, challengeRecovery, imported, unread, homeUsed>>

\* The answer arrives: an outdated one is read again.
RefreshPublishes ==
    /\ authenticationRefresh.pc = "answered"
    /\ LET silent == reauthenticationRequired \/ interactionMode # "automatic"
           again == interactionMode = "automatic" /\ authenticationRefresh.outdated
       IN  /\ authenticationRefresh' =
                  IF again THEN [NoRefresh EXCEPT !.pc = "reading"] ELSE NoRefresh
           /\ authenticated' = IF again \/ silent THEN authenticated
                               ELSE authenticationRefresh.read = "in"
           /\ unread' = (unread \/ (silent /\ ~again))
    /\ UNCHANGED <<interactionMode, manualOperation, requested, turnRuns, cookies,
                   cookieChanges, authenticationProbe, homePage, navigation, surfaceLoaded,
                   authView, authNavigationError, reauthenticationRequired, recoveryArmed,
                   challengeRecovery, imported, homeUsed>>

-----------------------------------------------------------------------------
(* The probe of the page.                                                  *)

\* Whether a call of probeAuthentication begins a probe, and one that must await it.
MayProbe == reauthenticationRequired => manualOperation.name \in SignInOperations
Probes == MayProbe /\ authenticationProbe.pc = "none"

\* A call of probeAuthentication: refused, answered at once, joined or begun.
CallProbe ==
    IF ~Probes
    THEN /\ authenticationProbe' = IF authenticationProbe.pc = "none" THEN NoProbe
                                   ELSE authenticationProbe
         /\ UNCHANGED <<authenticated, unread>>
    ELSE /\ authenticationProbe' = IF homePage \in {"idle", "elsewhere"} THEN NoProbe
                                   ELSE [NoProbe EXCEPT !.pc = "page"]
         /\ authenticated' = (authenticated /\ homePage # "elsewhere")
         /\ unread' = (unread /\ (homePage = "idle" \/ authenticationRefresh.pc # "none"))

\* The page has been marked: the probe of did-finish-load.
SurfaceMarked ==
    /\ surfaceLoaded
    /\ surfaceLoaded' = FALSE
    /\ IF interactionMode = "automatic" THEN CallProbe
       ELSE UNCHANGED <<authenticationProbe, authenticated, unread>>
    /\ UNCHANGED <<interactionMode, manualOperation, requested, turnRuns, cookies,
                   cookieChanges, authenticationRefresh, homePage, navigation, authView,
                   authNavigationError, reauthenticationRequired, recoveryArmed,
                   challengeRecovery, imported, homeUsed>>

\* A document answers the probe: the page, or the popup when it is back at ChatGPT.
ProbeAnswered ==
    /\ \E answer \in {"in", "out"} :
          \/ /\ authenticationProbe.pc = "page"
             /\ MayAnswer(answer)
             /\ authenticationProbe' =
                    [authenticationProbe EXCEPT !.pc = "seen", !.read = answer]
          \/ /\ authenticationProbe.pc = "popup"
             /\ MayAnswer(answer)
             /\ authenticationProbe' =
                    [authenticationProbe EXCEPT !.pc = IF authView = "home" /\ answer = "in"
                                                       THEN "popup in" ELSE "popup out"]
    /\ UNCHANGED <<interactionMode, manualOperation, requested, turnRuns, cookies,
                   cookieChanges, authenticationRefresh, homePage, navigation, surfaceLoaded,
                   authView, authNavigationError, authenticated, reauthenticationRequired,
                   recoveryArmed, challengeRecovery, imported, unread, homeUsed>>

\* The page's answer does not settle it while a popup is open: the popup is asked as well.
AsksPopup == /\ authenticationProbe.pc = "seen"
             /\ ~authenticationProbe.moved
             /\ authView # "none"
             /\ ~(authenticationProbe.read = "in" /\ homePage = "temporary")

\* The home page is loaded again: the popup signed in, or the login's page is not temporary.
MovesHome == /\ ~authenticationProbe.moved
             /\ \/ authenticationProbe.pc = "popup in"
                \/ /\ manualOperation.name = "login"
                   /\ authenticationProbe.read = "in"
                   /\ homePage # "temporary"

\* Mutant of Publish: an answer is published whatever changed since it was asked for.
PublishAnyway ==
    LET signedIn == authenticationProbe.read = "in"
    IN  /\ authenticated' = signedIn
        /\ reauthenticationRequired' = (reauthenticationRequired /\ ~signedIn)
        /\ authView' = IF signedIn THEN "none" ELSE authView

\* What a probe publishes: nothing when the session changed meanwhile.
Publish ==
    LET signedIn == authenticationProbe.read = "in" /\ ~authenticationProbe.outdated
    IN  /\ authenticated' = IF authenticationProbe.outdated THEN authenticated ELSE signedIn
        /\ reauthenticationRequired' = (reauthenticationRequired /\ ~signedIn)
        /\ authView' = IF signedIn THEN "none" ELSE authView

\* An answer arrives: the popup is asked, the page is loaded again, or the probe is over.
ProbeContinues ==
    /\ authenticationProbe.pc \in {"seen", "popup in", "popup out"}
    /\ \/ /\ AsksPopup
          /\ authenticationProbe' = [authenticationProbe EXCEPT !.pc = "popup"]
          /\ UNCHANGED <<authenticated, reauthenticationRequired, authView, navigation>>
       \/ /\ ~AsksPopup
          /\ MovesHome
          /\ authenticationProbe' = [authenticationProbe EXCEPT !.pc = "moving", !.moved = TRUE]
          /\ authView' = IF authenticationProbe.pc = "popup in" THEN "none" ELSE authView
          /\ Load("probe", "temporary")
          /\ UNCHANGED <<authenticated, reauthenticationRequired>>
       \/ /\ ~AsksPopup
          /\ ~MovesHome
          /\ authenticationProbe' = NoProbe
          /\ Publish
          /\ UNCHANGED navigation
    /\ UNCHANGED <<interactionMode, manualOperation, requested, turnRuns, cookies,
                   cookieChanges, authenticationRefresh, homePage, surfaceLoaded,
                   authNavigationError, recoveryArmed, challengeRecovery, imported, unread,
                   homeUsed>>

\* The probe's own load is over: the page is read again, or the probe fails with the load.
ProbeMoved ==
    /\ authenticationProbe.pc = "moving"
    /\ navigation.owner # "probe"
    /\ authenticationProbe' =
           IF Landed("probe") THEN [authenticationProbe EXCEPT !.pc = "page"]
           ELSE [NoProbe EXCEPT !.failed = TRUE]
    /\ UNCHANGED <<interactionMode, manualOperation, requested, turnRuns, cookies,
                   cookieChanges, authenticationRefresh, homePage, navigation, surfaceLoaded,
                   authView, authNavigationError, authenticated, reauthenticationRequired,
                   recoveryArmed, challengeRecovery, imported, unread, homeUsed>>

-----------------------------------------------------------------------------
(* The sign-in popup.                                                      *)

\* Closing the popup during a login loads the home page again.
ClosePopup(refreshMain) ==
    /\ authView' = "none"
    /\ IF refreshMain /\ manualOperation.name = "login" THEN Load("nobody", "temporary")
       ELSE UNCHANGED navigation

\* A page opens the sign-in popup; an older one is closed.
PopupOpens ==
    /\ homePage # "idle"
    /\ Event
    /\ IF authView = "none" THEN UNCHANGED navigation
       ELSE IF manualOperation.name = "login" THEN Load("nobody", "temporary")
       ELSE UNCHANGED navigation
    /\ authView' = "auth"
    /\ authNavigationError' = FALSE
    /\ UNCHANGED <<interactionMode, manualOperation, requested, turnRuns, cookies,
                   cookieChanges, authenticationProbe, authenticationRefresh, homePage,
                   surfaceLoaded, authenticated, reauthenticationRequired, recoveryArmed,
                   challengeRecovery, imported, unread>>

\* The popup finished a page; it may be back at ChatGPT.
PopupLoads ==
    /\ authView = "auth"
    /\ authView' = "home"
    /\ IF interactionMode = "automatic" THEN CallProbe
       ELSE UNCHANGED <<authenticationProbe, authenticated, unread>>
    /\ UNCHANGED <<interactionMode, manualOperation, requested, turnRuns, cookies,
                   cookieChanges, authenticationRefresh, homePage, navigation, surfaceLoaded,
                   authNavigationError, reauthenticationRequired, recoveryArmed,
                   challengeRecovery, imported, homeUsed>>

\* The popup fails to load, its renderer stops, or its sixty seconds are over.
PopupFails ==
    /\ authView # "none"
    /\ Event
    /\ ClosePopup(FALSE)
    /\ authNavigationError' = TRUE
    /\ UNCHANGED <<interactionMode, manualOperation, requested, turnRuns, cookies,
                   cookieChanges, authenticationProbe, authenticationRefresh, homePage,
                   surfaceLoaded, authenticated, reauthenticationRequired, recoveryArmed,
                   challengeRecovery, imported, unread>>

\* The user closes the popup.
PopupCloses ==
    /\ authView # "none"
    /\ ClosePopup(TRUE)
    /\ UNCHANGED <<interactionMode, manualOperation, requested, turnRuns, cookies,
                   cookieChanges, authenticationProbe, authenticationRefresh, homePage,
                   surfaceLoaded, authNavigationError, authenticated,
                   reauthenticationRequired, recoveryArmed, challengeRecovery, imported,
                   unread, homeUsed>>

-----------------------------------------------------------------------------
(* The security-check recovery.                                            *)

AtChatGpt == homePage \in {"chat", "temporary"}

\* A backend request of the page succeeded.
BackendAnswers ==
    /\ interactionMode = "automatic"
    /\ AtChatGpt
    /\ recoveryArmed' = TRUE
    /\ UNCHANGED <<interactionMode, manualOperation, requested, turnRuns, cookies,
                   cookieChanges, authenticationProbe, authenticationRefresh, homePage,
                   navigation, surfaceLoaded, authView, authNavigationError, authenticated,
                   reauthenticationRequired, challengeRecovery, imported, unread, homeUsed>>

\* A backend request was challenged: a recovery that runs is told, and a new one begins only
\* on an idle surface and when a backend answered since the last one.
BackendChallenged ==
    /\ interactionMode = "automatic"
    /\ AtChatGpt
    /\ recoveryArmed
    /\ challengeRecovery # "none" \/ (~turnRuns /\ ~Occupied)
    /\ Event
    /\ recoveryArmed' = FALSE
    /\ challengeRecovery' = IF challengeRecovery = "none" THEN "delay" ELSE challengeRecovery
    /\ UNCHANGED <<interactionMode, manualOperation, requested, turnRuns, cookies,
                   cookieChanges, authenticationProbe, authenticationRefresh, homePage,
                   navigation, surfaceLoaded, authView, authNavigationError, authenticated,
                   reauthenticationRequired, imported, unread>>

\* The recovery's delay is over: the page it owns is loaded again.
RecoveryReloads ==
    /\ challengeRecovery = "delay"
    /\ \/ /\ AtChatGpt
          /\ recoveryArmed' = FALSE
          /\ Load("recovery", homePage)
          /\ challengeRecovery' = "loading"
       \/ /\ ~AtChatGpt
          /\ challengeRecovery' = "none"
          /\ UNCHANGED <<recoveryArmed, navigation>>
    /\ UNCHANGED <<interactionMode, manualOperation, requested, turnRuns, cookies,
                   cookieChanges, authenticationProbe, authenticationRefresh, homePage,
                   surfaceLoaded, authView, authNavigationError, authenticated,
                   reauthenticationRequired, imported, unread, homeUsed>>

\* The recovery's load is over.
RecoverySettles ==
    /\ challengeRecovery = "loading"
    /\ navigation.owner # "recovery"
    /\ challengeRecovery' = IF Landed("recovery") THEN "settle" ELSE "none"
    /\ UNCHANGED <<interactionMode, manualOperation, requested, turnRuns, cookies,
                   cookieChanges, authenticationProbe, authenticationRefresh, homePage,
                   navigation, surfaceLoaded, authView, authNavigationError, authenticated,
                   reauthenticationRequired, recoveryArmed, imported, unread, homeUsed>>

\* The settle time is over: the new document must have reached the backend; the page is
\* probed, and the recovery lasts until the probe it began or joined is over.
RecoveryProbes ==
    /\ challengeRecovery = "settle"
    /\ \/ /\ recoveryArmed
          /\ interactionMode = "automatic"
          /\ CallProbe
          /\ challengeRecovery' = "probing"
       \/ /\ ~recoveryArmed \/ interactionMode # "automatic"
          /\ challengeRecovery' = "none"
          /\ UNCHANGED <<authenticationProbe, authenticated, unread>>
    /\ UNCHANGED <<interactionMode, manualOperation, requested, turnRuns, cookies,
                   cookieChanges, authenticationRefresh, homePage, navigation, surfaceLoaded,
                   authView, authNavigationError, reauthenticationRequired, recoveryArmed,
                   imported, homeUsed>>

RecoveryEnds ==
    /\ challengeRecovery = "probing"
    /\ authenticationProbe.pc = "none"
    /\ challengeRecovery' = "none"
    /\ UNCHANGED <<interactionMode, manualOperation, requested, turnRuns, cookies,
                   cookieChanges, authenticationProbe, authenticationRefresh, homePage,
                   navigation, surfaceLoaded, authView, authNavigationError, authenticated,
                   reauthenticationRequired, recoveryArmed, imported, unread, homeUsed>>

-----------------------------------------------------------------------------
(* The exclusive operations.                                               *)

\* The session refresh is over: the sign-ins that waited for it go on.
Freed == [o \in Operations |-> IF requested[o] = "behind" THEN "ready" ELSE requested[o]]

\* The operation goes on as next, or is over.
Becomes(next) ==
    /\ manualOperation' = next
    /\ requested' = IF next = NoManualOperation /\ manualOperation.name = "refresh" THEN Freed
                    ELSE requested

\* What a failed step leads to: a passkey import that touched the session discards it first.
AfterFailure ==
    LET o == [manualOperation EXCEPT !.failed = TRUE]
    IN  CASE o.name # "passkey" \/ o.pc = "transfer" -> NoManualOperation
          [] o.name = "passkey" /\ o.pc # "transfer" /\ ~o.discards /\ o.mutated ->
                 [o EXCEPT !.pc = "discard", !.discards = TRUE]
          [] OTHER -> IF o.cleaned THEN NoManualOperation ELSE [o EXCEPT !.pc = "cleanup"]

\* Somebody asks for an operation.  A sign-in waits for a running session refresh.
Ask(name) ==
    /\ Event
    /\ interactionMode = "automatic"
    /\ IF name \in SignIns
       THEN /\ ~authenticated
            /\ manualOperation.name \notin SignIns
            /\ \A o \in SignIns : requested[o] = "no"
       ELSE requested[name] = "no"
    /\ name = "refresh" => manualOperation.name # "refresh"
    /\ requested' =
           [requested EXCEPT ![name] =
               IF name \in SignIns
                  /\ (requested["refresh"] # "no" \/ manualOperation.name = "refresh")
               THEN "behind" ELSE "ready"]
    /\ UNCHANGED <<interactionMode, manualOperation, turnRuns, cookies, cookieChanges,
                   authenticationProbe, authenticationRefresh, homePage, navigation,
                   surfaceLoaded, authView, authNavigationError, authenticated,
                   reauthenticationRequired, recoveryArmed, challengeRecovery, imported, unread>>

\* Whether the operation begins with a load of the home page.
LoadsFirst(name) ==
    CASE name = "refresh" -> homePage # "temporary"
      [] name = "login" -> reauthenticationRequired \/ ~AtChatGpt
      [] name = "verification" -> TRUE
      [] OTHER -> FALSE

\* The first step of an operation.
BeginsAt(name) ==
    IF LoadsFirst(name) THEN "load"
    ELSE CASE name = "refresh" -> "probe"
           [] name = "login" -> "wait"
           [] name = "passkey" -> "transfer"
           [] name = "logout" -> "clear"
           [] OTHER -> "helper"

\* An operation asked for is refused during a turn or another operation, or begins.
Begin(name) ==
    /\ requested[name] = "ready"
    /\ LET over == IF name = "refresh" THEN Freed ELSE requested
       IN  \/ /\ turnRuns \/ Occupied
              /\ requested' = [over EXCEPT ![name] = "no"]
              /\ UNCHANGED <<manualOperation, authenticated, authNavigationError, authView,
                             navigation>>
           \/ /\ ~turnRuns
              /\ ~Occupied
              /\ requested' = [requested EXCEPT ![name] = "no"]
              /\ manualOperation' = [NoManualOperation EXCEPT !.name = name, !.pc = BeginsAt(name)]
              /\ authNavigationError' = (authNavigationError /\ name \notin SignIns)
              /\ authenticated' = (authenticated /\ name # "passkey")
              /\ authView' = IF name = "logout" THEN "none" ELSE authView
              /\ IF LoadsFirst(name) THEN Load("operation", "temporary")
                 ELSE IF name \in HelperWork /\ homePage # "temporary"
                 THEN Load("nobody", "temporary")
                 ELSE UNCHANGED navigation
    /\ UNCHANGED <<interactionMode, turnRuns, cookies, cookieChanges, authenticationProbe,
                   authenticationRefresh, homePage, surfaceLoaded, reauthenticationRequired,
                   recoveryArmed, challengeRecovery, imported, unread, homeUsed>>

\* A change of the interaction mode begins at once or is refused; the target mode holds
\* while the setup runs.
ChangeMode(mode) ==
    /\ Event
    /\ ~Occupied
    /\ ~turnRuns
    /\ mode # interactionMode
    /\ manualOperation' = [NoManualOperation EXCEPT !.name = "mode", !.pc = "setup",
                                              !.was = interactionMode]
    /\ interactionMode' = mode
    /\ UNCHANGED <<requested, turnRuns, cookies, cookieChanges, authenticationProbe,
                   authenticationRefresh, homePage, navigation, surfaceLoaded, authView,
                   authNavigationError, authenticated, reauthenticationRequired,
                   recoveryArmed, challengeRecovery, imported, unread>>

\* The setup commits the change or fails; the old mode is back after a failure.
ModeChanged ==
    /\ AtStep("setup")
    /\ \/ /\ UNCHANGED <<interactionMode, homeUsed>>
       \/ /\ Event
          /\ interactionMode' = manualOperation.was
    /\ manualOperation' = NoManualOperation
    /\ UNCHANGED <<requested, turnRuns, cookies, cookieChanges, authenticationProbe,
                   authenticationRefresh, homePage, navigation, surfaceLoaded, authView,
                   authNavigationError, authenticated, reauthenticationRequired,
                   recoveryArmed, challengeRecovery, imported, unread>>

\* The operation's load is over.
Loaded ==
    /\ AtStep("load")
    /\ navigation.owner # "operation"
    /\ Becomes(IF Missed("operation") THEN AfterFailure
               ELSE IF manualOperation.name \in {"refresh", "logout"} \/ manualOperation.discards
               THEN Pc("probe") ELSE Pc("wait"))
    /\ UNCHANGED <<interactionMode, turnRuns, cookies, cookieChanges, authenticationProbe,
                   authenticationRefresh, homePage, navigation, surfaceLoaded, authView,
                   authNavigationError, authenticated, reauthenticationRequired,
                   recoveryArmed, challengeRecovery, imported, unread, homeUsed>>

\* waitForAuthenticated and the operations that need one answer call the probe.
Polls ==
    /\ AtStep("probe") \/ (AtStep("wait") /\ ~authNavigationError)
    /\ CallProbe
    /\ manualOperation' = [manualOperation EXCEPT !.pc = IF @ = "wait" THEN "waits" ELSE "probes"]
    /\ UNCHANGED <<interactionMode, requested, turnRuns, cookies, cookieChanges,
                   authenticationRefresh, homePage, navigation, surfaceLoaded, authView,
                   authNavigationError, reauthenticationRequired, recoveryArmed,
                   challengeRecovery, imported, homeUsed>>

\* The wait is over: the popup failed, or the time has passed.
WaitFails ==
    /\ AtStep("wait")
    /\ IF authNavigationError THEN UNCHANGED homeUsed ELSE Event
    /\ authNavigationError' = FALSE
    /\ Becomes(AfterFailure)
    /\ UNCHANGED <<interactionMode, turnRuns, cookies, cookieChanges, authenticationProbe,
                   authenticationRefresh, homePage, navigation, surfaceLoaded, authView,
                   authenticated, reauthenticationRequired, recoveryArmed, challengeRecovery,
                   imported, unread>>

\* The probe the operation awaited is over: its continuation runs before anything else.
Resuming == manualOperation.pc \in {"waits", "probes"} /\ authenticationProbe.pc = "none"

\* The session was discarded: once more the temporary state is removed, or the import is over.
Discarded == IF manualOperation.cleaned THEN NoManualOperation
             ELSE [manualOperation EXCEPT !.discarded = TRUE, !.pc = "cleanup"]

Resumes ==
    /\ Resuming
    /\ Becomes(CASE authenticationProbe.failed -> AfterFailure
                 [] ~authenticationProbe.failed /\ AtStep("waits") ->
                        Pc(IF authenticated THEN "helper" ELSE "wait")
                 [] OTHER ->
                        IF manualOperation.name = "refresh" THEN NoManualOperation
                        ELSE IF authenticated THEN AfterFailure
                        ELSE IF manualOperation.name = "passkey" THEN Discarded
                        ELSE NoManualOperation)
    /\ UNCHANGED <<interactionMode, turnRuns, cookies, cookieChanges, authenticationProbe,
                   authenticationRefresh, homePage, navigation, surfaceLoaded, authView,
                   authNavigationError, authenticated, reauthenticationRequired,
                   recoveryArmed, challengeRecovery, imported, unread, homeUsed>>

\* The browser helper's inspection of the page: after a verification and a smoke test the
\* launcher takes the session for signed in.
HelperReturns ==
    /\ AtStep("helper")
    /\ navigation.owner # "nobody"
    /\ \/ /\ LET vouches == manualOperation.name \in {"verification", "smoke"}
             IN  /\ authenticated' = (authenticated \/ vouches)
                 /\ unread' = (unread \/ vouches)
          /\ Becomes(IF manualOperation.name = "passkey" THEN Pc("cleanup") ELSE NoManualOperation)
          /\ UNCHANGED homeUsed
       \/ /\ Event
          /\ Becomes(AfterFailure)
          /\ UNCHANGED <<authenticated, unread>>
    /\ UNCHANGED <<interactionMode, turnRuns, cookies, cookieChanges, authenticationProbe,
                   authenticationRefresh, homePage, navigation, surfaceLoaded, authView,
                   authNavigationError, reauthenticationRequired, recoveryArmed,
                   challengeRecovery, imported>>

\* The storage that came back from Chrome is not a valid session's.
RejectedTransfer == [manualOperation EXCEPT !.pc = "cleanup", !.failed = TRUE]

\* The sign-in in Chrome returns a transfer, which is valid or not; from a valid one on the
\* session counts as touched, and everything that shows it is taken to the idle page.
Transferred ==
    /\ AtStep("transfer") \/ AtStep("discard")
    /\ \/ /\ manualOperation' = [manualOperation EXCEPT !.pc = "idling", !.mutated = TRUE]
          /\ requested' = requested
          /\ authView' = "none"
          /\ Load("operation", "idle")
          /\ UNCHANGED homeUsed
       \/ /\ AtStep("transfer")
          /\ Event
          /\ \E returned \in BOOLEAN :
                Becomes(IF returned THEN RejectedTransfer ELSE AfterFailure)
          /\ UNCHANGED <<authView, navigation>>
    /\ UNCHANGED <<interactionMode, turnRuns, cookies, cookieChanges, authenticationProbe,
                   authenticationRefresh, homePage, surfaceLoaded, authNavigationError,
                   authenticated, reauthenticationRequired, recoveryArmed, challengeRecovery,
                   imported, unread>>

Idled ==
    /\ AtStep("idling")
    /\ navigation.owner # "operation"
    /\ Becomes(IF Missed("operation") THEN AfterFailure ELSE Pc("clear"))
    /\ UNCHANGED <<interactionMode, turnRuns, cookies, cookieChanges, authenticationProbe,
                   authenticationRefresh, homePage, navigation, surfaceLoaded, authView,
                   authNavigationError, authenticated, reauthenticationRequired,
                   recoveryArmed, challengeRecovery, imported, unread, homeUsed>>

\* The session's storage is cleared: a sign-out says so and loads the page, an import goes on
\* with its cookies, a discard with the page.
Clears ==
    /\ AtStep("clear")
    /\ \/ /\ Changed("out")
          /\ imported' = FALSE
          /\ authenticated' = (authenticated /\ manualOperation.name # "logout")
          /\ IF manualOperation.name = "passkey" /\ ~manualOperation.discards
             THEN Becomes(Pc("cookies")) /\ UNCHANGED navigation
             ELSE Becomes(Pc("load")) /\ Load("operation", "temporary")
          /\ UNCHANGED homeUsed
       \/ /\ Event
          /\ Becomes(AfterFailure)
          /\ UNCHANGED <<cookies, cookieChanges, imported, authenticated, navigation>>
    /\ UNCHANGED <<interactionMode, turnRuns, authenticationProbe, authenticationRefresh,
                   homePage, surfaceLoaded, authView, authNavigationError,
                   reauthenticationRequired, recoveryArmed, challengeRecovery, unread>>

\* The import's cookies and storage: they may sign the session in, or only some are set.
SetsCookies ==
    /\ AtStep("cookies")
    /\ \E value \in {"in", "out"} : Changed(value)
    /\ imported' = TRUE
    /\ \/ /\ Becomes(Pc("load"))
          /\ Load("operation", "temporary")
          /\ UNCHANGED homeUsed
       \/ /\ Event
          /\ Becomes(AfterFailure)
          /\ UNCHANGED navigation
    /\ UNCHANGED <<interactionMode, turnRuns, authenticationProbe, authenticationRefresh,
                   homePage, surfaceLoaded, authView, authNavigationError, authenticated,
                   reauthenticationRequired, recoveryArmed, challengeRecovery, unread>>

\* Mutant of DiscardsAgain: only an error of the import itself discards the session.
DiscardsAgainAfterImport(failed) ==
    manualOperation.failed /\ manualOperation.mutated /\ ~manualOperation.discarded

\* A failed import that touched the session and has not discarded it tries once more.
DiscardsAgain(failed) == failed /\ manualOperation.mutated /\ ~manualOperation.discarded

\* The transfer's temporary state is removed, and the import is over: accepted, or failed and
\* discarded; what was not discarded is tried once more.
CleansUp ==
    /\ AtStep("cleanup")
    /\ \E failed \in {manualOperation.failed, TRUE} :
          /\ IF failed = manualOperation.failed THEN UNCHANGED homeUsed ELSE Event
          /\ Becomes(IF DiscardsAgain(failed)
                     THEN [manualOperation EXCEPT !.pc = "discard", !.discards = TRUE,
                                                  !.failed = TRUE, !.cleaned = TRUE]
                     ELSE NoManualOperation)
          /\ imported' = (imported /\ failed)
    /\ UNCHANGED <<interactionMode, turnRuns, cookies, cookieChanges, authenticationProbe,
                   authenticationRefresh, homePage, navigation, surfaceLoaded, authView,
                   authNavigationError, authenticated, reauthenticationRequired,
                   recoveryArmed, challengeRecovery, unread>>

-----------------------------------------------------------------------------
(* Turns, and the user at the page.                                        *)

\* A turn's tab begins or ends; none begins during an operation.
TurnTab ==
    /\ \/ turnRuns /\ UNCHANGED homeUsed
       \/ ~turnRuns /\ ~Occupied /\ Event
    /\ turnRuns' = ~turnRuns
    /\ UNCHANGED <<interactionMode, manualOperation, requested, cookies, cookieChanges,
                   authenticationProbe, authenticationRefresh, homePage, navigation,
                   surfaceLoaded, authView, authNavigationError, authenticated,
                   reauthenticationRequired, recoveryArmed, challengeRecovery, imported,
                   unread>>

\* ChatGPT redirects a turn's tab to the sign-in page.
TurnRedirected ==
    /\ turnRuns
    /\ Event
    /\ reauthenticationRequired' = TRUE
    /\ authenticationProbe' = Outdated(authenticationProbe)
    /\ authenticationRefresh' = Outdated(authenticationRefresh)
    /\ authenticated' = FALSE
    /\ UNCHANGED <<interactionMode, manualOperation, requested, turnRuns, cookies,
                   cookieChanges, homePage, navigation, surfaceLoaded, authView,
                   authNavigationError, recoveryArmed, challengeRecovery, imported, unread>>

\* The user navigates in the page, or reloads it when nothing holds the browser.
UserNavigates ==
    /\ Event
    /\ homePage # "idle"
    /\ \E page \in {"chat", "temporary", "elsewhere"} : Load("nobody", page)
    /\ UNCHANGED <<interactionMode, manualOperation, requested, turnRuns, cookies,
                   cookieChanges, authenticationProbe, authenticationRefresh, homePage,
                   surfaceLoaded, authView, authNavigationError, authenticated,
                   reauthenticationRequired, recoveryArmed, challengeRecovery, imported, unread>>

OperationStep ==
    \/ \E name \in Operations : Ask(name) \/ Begin(name)
    \/ \E mode \in {"automatic", "manual"} : ChangeMode(mode)
    \/ ModeChanged \/ Loaded \/ Polls \/ WaitFails \/ HelperReturns
    \/ Transferred \/ Idled \/ Clears \/ SetsCookies \/ CleansUp

PageStep ==
    \/ LoadFinishes \/ LoadFails \/ SurfaceMarked \/ UserNavigates \/ SessionChanges
    \/ PopupOpens \/ PopupLoads \/ PopupFails \/ PopupCloses
    \/ BackendAnswers \/ BackendChallenged \/ RecoveryReloads \/ RecoverySettles
    \/ RecoveryProbes \/ RecoveryEnds

SessionStep ==
    \/ CookieChanged \/ RefreshAnswered \/ RefreshPublishes
    \/ ProbeAnswered \/ ProbeContinues \/ ProbeMoved
    \/ TurnTab \/ TurnRedirected

HomeNext ==
    \/ Resumes
    \/ ~Resuming /\ (OperationStep \/ PageStep \/ SessionStep)

HomeSpec == HomeInit /\ [][HomeNext]_homeVars

-----------------------------------------------------------------------------
(* Properties.                                                             *)

HomeTypeOK ==
    /\ interactionMode \in {"automatic", "manual"}
    /\ manualOperation.name \in Operations \cup {"none", "mode"}
    /\ requested \in [Operations -> {"no", "behind", "ready"}]
    /\ cookies \in {"in", "out"}
    /\ homePage \in {"idle", "elsewhere", "chat", "temporary"}
    /\ authView \in {"none", "auth", "home"}
    /\ \A flag \in {turnRuns, surfaceLoaded, authNavigationError, authenticated,
                    reauthenticationRequired, recoveryArmed, imported, unread} : flag \in BOOLEAN

\* A sign-out is never undone by an old answer: once the probe, the read and the cookie
\* events are through, a session the launcher calls signed in is signed in, unless nobody
\* has read it since a helper vouched for it or an event could not be heard (the revision
\* check of probeAuthentication and the loop of refreshAuthenticationFromSession).
SignOutStands ==
    /\ authenticationProbe.pc = "none"
    /\ authenticationRefresh.pc = "none"
    /\ cookieChanges = <<>>
    /\ authenticated
    /\ ~unread
    => cookies = "in"

\* An import that fails after it has touched the session leaves cookies behind only when
\* discarding them failed too, and failed again once the temporary state was removed
\* (installPasskeyLogin).  What an earlier import has left is none of its business.
PartialImportDiscarded ==
    [][imported' /\ manualOperation.name = "passkey" /\ manualOperation.mutated
         /\ manualOperation'.name # "passkey"
       => manualOperation.discards /\ manualOperation.cleaned]_homeVars
=============================================================================
