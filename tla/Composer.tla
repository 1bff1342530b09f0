------------------------------ MODULE Composer ------------------------------
(***************************************************************************)
(* How the browser worker makes ChatGPT's composer ready for the messages  *)
(* of one turn (browser-worker.ts, model-selection.ts, chatgpt-session.ts):*)
(* the surface, the model's family and effort, access to the connector,    *)
(* the connector's mention, the prompt and its files.                      *)
(*                                                                         *)
(* The page is environment.  An operation on it may fail before or after   *)
(* it had its effect, a menu may not show in time what it will show, and   *)
(* what makes the page render anew may lose the model that was selected.   *)
(* The choice of personalization and the composer's draft outlive the turn *)
(* in the browser's profile.                                               *)
(***************************************************************************)
EXTENDS Integers, FiniteSets

CONSTANTS
  Tasks,      \* the turns: [luna, effort, family, stages, stage, size, total, pro, tools,
              \* reused, temporary, compaction]
  Sites,      \* ChatGPT: [labelled, granting, listed, picker, pro, latest]
  TopEffort,  \* the last position of the effort slider, which is Pro
  Room,       \* Room[e] is the largest message effort e takes
  Window,     \* Window[e] is its context
  LunaBudget, \* CHATGPT_LUNA_BROWSER_INPUT_TOKEN_BUDGET
  Multiplier, \* CHATGPT_WEB_BIGGER_CONTEXT_MULTIPLIER
  PartCounts, \* the parts a context may be cut into (two or six in the code)
  Fallback,   \* [effort, family] of a page that lost its selection
  MaxMentions \* MAX_CHATGPT_CONNECTOR_TRIGGER_ATTEMPTS

Efforts == 0 .. TopEffort
Families == {"5.6", "6"}

\* Luna has two modes, no family, and no parts; Pro is offered where the picker is.
ASSUME TaskShapes ==
  /\ TopEffort \in Nat \ {0, 1} /\ MaxMentions \in Nat \ {0} /\ LunaBudget \in Nat
  /\ Room \in [Efforts -> Nat] /\ Window \in [Efforts -> Nat] /\ Multiplier \in Nat \ {0}
  /\ PartCounts \subseteq Nat
  /\ Fallback \in [effort : Efforts \ {TopEffort}, family : Families]
  /\ Tasks \subseteq [luna : BOOLEAN, effort : Efforts, family : Families \cup {"any"},
                      stages : Nat, stage : Nat, size : Nat, total : Nat, pro : BOOLEAN,
                      tools : BOOLEAN, reused : BOOLEAN, temporary : BOOLEAN,
                      compaction : BOOLEAN]
  /\ \A t \in Tasks : t.luna => t.effort \in {0, 1} /\ t.family = "any"
  /\ Sites \subseteq [labelled : BOOLEAN, granting : {0, 1}, listed : BOOLEAN,
                      picker : BOOLEAN, pro : BOOLEAN, latest : {"6", "newer"}]

VARIABLES
  task,     \* the turn, one of Tasks
  site,     \* labelled choices, the one that grants access, the connector is listed, the
            \* picker is shown, it offers Pro, and the version Pro has under "Latest"
  ui,       \* the page: draft, connector pill, Think, choice, effort, family, conversation
  at,       \* where the worker is
  piece,    \* messages submitted so far
  slot,     \* the slider's position while its menu is open
  chosen,   \* selection: the label and the conversation it was read in
  tries,    \* mentions left, catalogRefreshAvailable, retryAvailable
  receipt,  \* originalIndex of the toggled choice, or NoReceipt
  proven,   \* the toggled choice showed the connector
  expired,  \* the attachment's stage ran out, or the turn was aborted
  raised,   \* the error on its way, and at the end the turn's
  messages  \* history: what was submitted

composerVars == <<task, site, ui, at, piece, slot, chosen, tries, receipt, proven, expired,
                  raised, messages>>

NoReceipt == -1
NoChoice == [label |-> -1, chat |-> -1]
Attaching == {"attaching", "access", "toggling", "proving", "restoring", "mentioning",
              "activating", "inserting", "verifying"}
Places == Attaching \cup {"start", "surface", "selecting", "sliding", "confirming", "filing",
                          "sending", "acknowledging", "over"}
\* "failed" outside the attachment; "persistent" tells of a page that was not put back.
Errors == {"none", "failed", "plain", "integrity", "persistent"}

ComposerTypeOK ==
  /\ task \in Tasks
  /\ site \in [labelled : BOOLEAN, granting : {0, 1}, listed : BOOLEAN,
               picker : BOOLEAN, pro : BOOLEAN, latest : {"6", "newer"}]
  /\ ui \in [draft : {"empty", "left", "mention", "prompt", "mangled"},
             pill : {"none", "left", "set"}, think : BOOLEAN, choice : {0, 1},
             effort : Efforts, family : Families, chat : {0, 1}]
  /\ at \in Places /\ piece \in 0 .. task.stages + 1 /\ slot \in Efforts
  /\ chosen \in [label : Efforts \cup {-1}, chat : {-1, 0, 1}]
  /\ tries \in [mentions : 0 .. MaxMentions, refresh : BOOLEAN, retry : BOOLEAN]
  /\ receipt \in {NoReceipt, 0, 1} /\ proven \in BOOLEAN /\ expired \in BOOLEAN
  /\ raised \in Errors

\* An earlier page may have left a draft or a pill in the profile, and its Think mode; a
\* retained conversation shows the effort its last message had.
ComposerInit ==
  /\ task \in Tasks /\ site \in Sites
  /\ \E draft \in {"empty", "left"}, pill \in {"none", "left"}, choice \in {0, 1},
        think \in BOOLEAN, effort \in {Fallback.effort, 0} :
       /\ think => ~site.picker
       /\ task.reused \/ effort = Fallback.effort
       /\ ui = [draft |-> draft, pill |-> pill, think |-> think, choice |-> choice,
                effort |-> effort, family |-> Fallback.family, chat |-> 0]
  /\ at = "start" /\ piece = 0 /\ slot = 0 /\ chosen = NoChoice
  /\ tries = [mentions |-> MaxMentions, refresh |-> FALSE, retry |-> FALSE]
  /\ receipt = NoReceipt /\ proven = FALSE /\ expired = FALSE
  /\ raised = "none" /\ messages = {}

-----------------------------------------------------------------------------
(* What a message needs.                                                   *)

Think == task.luna /\ task.effort = 1

\* resolveChatGptWebModelMode for an account that shows Sol
Available == IF task.pro THEN Efforts ELSE Efforts \ {TopEffort}

\* resolveChatGptWebMultipartStagingMode: the cheapest effort that carries a stage.
StagingEfforts == {e \in {0, 1, TopEffort} \cap Available : Room[e] >= task.stage}
StagingEffort == CHOOSE e \in StagingEfforts : \A other \in StagingEfforts : e <= other

IsFinal(p) == p = task.stages
EffortOf(p) == IF IsFinal(p) THEN task.effort ELSE StagingEffort
SizeOf(p) == IF IsFinal(p) THEN task.size ELSE task.stage

\* assertChatGptWebInputWithinLimits
FitsInline == task.size <= Room[task.effort] /\ task.total < Window[task.effort]

\* assertChatGptWebMultipartInputWithinLimits: more parts do not enlarge the context further.
FitsInParts ==
  /\ task.stages + 1 \in PartCounts
  /\ StagingEfforts # {} /\ task.size <= Room[task.effort]
  /\ \E parts \in {task.stages + 1, Multiplier} :
       parts <= task.stages + 1 /\ parts <= Multiplier
         /\ task.total < Window[task.effort] * parts

WithinLimits ==
  IF task.luna THEN task.stages = 0 /\ task.total <= LunaBudget
  ELSE task.effort \in Available /\ IF task.stages = 0 THEN FitsInline ELSE FitsInParts

\* chatGptConnectorAttachmentMode: the connector of a retained conversation is there.
Mentions(p) == task.tools /\ ~task.reused /\ IsFinal(p)

Moves(to) == at' = to /\ raised' = "none"
Stops == at' = "over" /\ raised' = "failed"

shown == <<site, ui>>
selection == <<slot, chosen>>
proof == <<receipt, proven>>
submitted == <<piece, messages>>

-----------------------------------------------------------------------------
(* The surface, the model and its effort.                                  *)

\* What makes the page render anew may lose the effort or the family that was selected.
Rendered(u) ==
  {[u EXCEPT !.effort = effort, !.family = family] :
     effort \in {u.effort, Fallback.effort}, family \in {u.family, Fallback.family}}

Begin ==
  /\ at = "start"
  /\ IF WithinLimits THEN Moves(IF task.reused THEN "selecting" ELSE "surface") ELSE Stops
  /\ tries' = [tries EXCEPT !.refresh = Mentions(0), !.retry = task.compaction]
  /\ UNCHANGED <<task, shown, selection, proof, expired, submitted>>

\* prepareChatSurface.  A catalog that was loaded anew may list the connector.
PrepareSurface ==
  /\ at = "surface"
  /\ \/ Stops /\ UNCHANGED shown
     \/ /\ Moves("selecting") /\ ui' \in Rendered(ui)
        /\ \E listed \in {site.listed, TRUE} : site' = [site EXCEPT !.listed = listed]
  /\ UNCHANGED <<task, selection, tries, proof, expired, submitted>>

\* Luna is sent where no picker is shown.  A Think that is not wanted is taken back, which
\* needs an empty draft and may leave its command there.
SelectLuna ==
  /\ at = "selecting" /\ task.luna
  /\ \/ /\ Stops
        /\ ui' \in {ui, [ui EXCEPT !.think = FALSE], [ui EXCEPT !.draft = "mangled"]}
     \/ /\ ~site.picker /\ Moves("attaching")
        /\ Think \/ ~ui.think \/ ui.draft = "empty"
        /\ ui' = [ui EXCEPT !.think = @ /\ Think]
  /\ UNCHANGED <<task, site, selection, tries, proof, expired, submitted>>

\* The slider's ticks: positions that exist and are not locked
Offers(effort) == site.picker /\ (effort = TopEffort => site.pro)

\* selectChatGptModelFamily, when the option it clicked is checked in the menu opened anew
WithFamily(u) == [u EXCEPT !.family = IF task.family = "any" THEN @ ELSE task.family]

OpenSlider ==
  /\ at = "selecting" /\ ~task.luna
  /\ \/ Stops /\ ui' \in {ui, WithFamily(ui)} /\ UNCHANGED selection
     \/ /\ Offers(EffortOf(piece)) /\ Moves("sliding")
        /\ ui' = WithFamily(ui) /\ slot' = ui.effort
        /\ chosen' = [label |-> -1, chat |-> ui.chat]
  /\ UNCHANGED <<task, site, tries, proof, expired, submitted>>

\* One arrow key moves the slider by one position, or the selection fails.
Slide ==
  /\ at = "sliding" /\ slot # EffortOf(piece)
  /\ \/ Stops /\ UNCHANGED slot
     \/ Moves(at) /\ slot' = IF slot < EffortOf(piece) THEN slot + 1 ELSE slot - 1
  /\ UNCHANGED <<task, shown, chosen, tries, proof, expired, submitted>>

\* The menu closes; ChatGPT keeps what was selected or does not.  The label is read.
CloseSlider ==
  /\ at = "sliding" /\ slot = EffortOf(piece)
  /\ \/ Stops /\ UNCHANGED <<ui, chosen>>
     \/ /\ Moves("confirming")
        /\ \E kept \in {slot, ui.effort} :
             /\ ui' = [ui EXCEPT !.effort = kept]
             /\ chosen' = [chosen EXCEPT !.label = kept]
  /\ UNCHANGED <<task, site, slot, tries, proof, expired, submitted>>

\* The version the menu describes: "Latest" is 5.6 below Pro.
Version(u) == IF u.family = "6" /\ u.effort = TopEffort THEN site.latest ELSE "5.6"
Wanted(effort) == IF task.family = "6" /\ effort # TopEffort THEN "5.6" ELSE task.family

\* assertChatGptModelFamily
FamilyShown ==
  /\ ui.family = task.family /\ ui.effort = EffortOf(piece)
  /\ Version(ui) = Wanted(EffortOf(piece))

\* assertSelectedEffort without the family: the label that was read, where it was read
LabelHolds == ui.chat = chosen.chat /\ ui.effort = chosen.label

\* The menu is opened again and shows the effort and the family that were asked for.
ConfirmSelection ==
  /\ at = "confirming"
  /\ \/ /\ LabelHolds /\ ui.effort = EffortOf(piece) /\ Offers(EffortOf(piece))
        /\ task.family = "any" \/ FamilyShown
        /\ Moves("attaching")
     \/ Stops
  /\ UNCHANGED <<task, shown, selection, tries, proof, expired, submitted>>

-----------------------------------------------------------------------------
(* The attachment: errors and what is put back.                            *)

\* runStage of an attachment lets the action notice, and clean up, before it fails.
Awaited == expired' = TRUE /\ UNCHANGED <<at, raised>>

StageExpires ==
  /\ at \in Attaching /\ ~expired /\ Awaited
  /\ UNCHANGED <<task, shown, piece, selection, tries, proof, messages>>

RetriesPrompt == tries.retry /\ IsFinal(piece)

\* resetCompactionComposerForRetry empties the composer, unless the stage is over, a
\* submission shows by then or the composer cannot be emptied.
ResetsForRetry ==
  /\ tries' = [tries EXCEPT !.retry = FALSE]
  /\ \/ ~expired /\ Moves("attaching")
     \/ ~expired /\ at' = "over" /\ raised' = "integrity"
     \/ at' = "over" /\ raised' = "plain"

\* connector_catalog_refresh: the page is loaded anew, the model selected anew, and the prompt
\* attached by a new call, which may retry a compaction's once more.
ReloadsCatalog ==
  Moves("surface") /\ tries' = [tries EXCEPT !.refresh = FALSE, !.retry = task.compaction]

\* An error leaves the attachment: the last prompt of a compaction that was not preserved is
\* attached again once, and any other error ends the turn.
Raises(error) ==
  IF error = "integrity" /\ RetriesPrompt THEN ResetsForRetry
  ELSE at' = "over" /\ raised' = error /\ UNCHANGED tries

Cleared(u) == [u EXCEPT !.draft = "empty", !.pill = "none"]

\* clearChatGptComposerState after an error: a composer that could not be cleared is told.
ClearsAfter(error) ==
  \/ ui' = Cleared(ui) /\ Raises(error)
  \/ ui' \in {ui, Cleared(ui)} /\ Raises("persistent")

\* attachPrompt until its first change of the page
Attach ==
  /\ at = "attaching"
  /\ \/ Raises("plain")
     \/ /\ ~expired /\ UNCHANGED tries
        /\ Moves(IF ~Mentions(piece) THEN "inserting"
                ELSE IF task.temporary THEN "access" ELSE "mentioning")
  /\ UNCHANGED <<task, shown, selection, proof, expired, submitted>>

-----------------------------------------------------------------------------
(* Access to the connector: the choice of personalization.                 *)

Personalized == ui.choice = site.granting

\* The button names the choice: it is changed, and what happens then is what it shows.
AccessByLabel ==
  /\ at = "access" /\ site.labelled
  /\ \/ /\ ~expired /\ Moves("mentioning") /\ UNCHANGED tries
        /\ ui' = [ui EXCEPT !.choice = site.granting]
     \/ /\ \E choice \in {ui.choice, site.granting} : ui' = [ui EXCEPT !.choice = choice]
        /\ Raises("plain") \/ (~Personalized /\ Raises("persistent"))
  /\ UNCHANGED <<task, site, selection, proof, expired, submitted>>

Lists == site.listed /\ (task.temporary => Personalized)

\* The choice is told by what a mention lists: it lists the connector.
ProofFound ==
  /\ at \in {"access", "proving"} /\ ~site.labelled /\ ~expired /\ Lists
  /\ Moves("mentioning") /\ ui' = Cleared(ui) /\ proven' = TRUE
  /\ UNCHANGED <<task, site, selection, tries, receipt, expired, submitted>>

\* It does not, or not in time.  The other choice is tried, or the first one restored.
ProofMissing ==
  /\ at \in {"access", "proving"} /\ ~site.labelled /\ ~expired /\ ui' = Cleared(ui)
  /\ IF at = "access" THEN Moves("toggling") ELSE at' = "restoring" /\ raised' = "plain"
  /\ UNCHANGED <<task, site, selection, tries, proof, expired, submitted>>

\* The proof fails, and with it perhaps the clearing of its mention.
ProofFails ==
  /\ at \in {"access", "proving"} /\ ~site.labelled
  /\ \E error \in {"plain", "integrity", "persistent"} :
       /\ ui' = [Cleared(ui) EXCEPT !.draft = IF error = "persistent" THEN "mention" ELSE @]
       /\ IF at = "access" THEN Raises(error)
          ELSE at' = "restoring" /\ raised' = error /\ UNCHANGED tries
  /\ UNCHANGED <<task, site, selection, proof, expired, submitted>>

\* The menu of the personalization control, opened, has one choice that is checked.
Checked == ui.choice

Toggle ==
  /\ at = "toggling"
  /\ \/ /\ ~expired /\ Moves("proving") /\ UNCHANGED tries
        /\ receipt' = Checked /\ proven' = FALSE
        /\ ui' = [ui EXCEPT !.choice = 1 - @]
     \/ \* it fails before the click: the menu is dismissed
        /\ Raises("plain") \/ Raises("persistent")
        /\ UNCHANGED <<ui, proof>>
     \/ \* it fails at the click or after it
        /\ at' = "restoring" /\ raised' = "plain" /\ UNCHANGED tries
        /\ receipt' = Checked /\ proven' = FALSE
        /\ \E choice \in {0, 1} : ui' = [ui EXCEPT !.choice = choice]
  /\ UNCHANGED <<task, site, selection, expired, submitted>>

\* Mutant of PutBack: the choice that is not checked is clicked, whatever it was.
Flipped == 1 - ui.choice

PutBack == receipt

\* restoreChatGptPersonalizationChoice, within a deadline of its own
Restore ==
  /\ at = "restoring"
  /\ \/ ui' = [ui EXCEPT !.choice = PutBack] /\ Raises(raised)
     \/ \E choice \in {0, 1} : ui' = [ui EXCEPT !.choice = choice] /\ Raises("persistent")
  /\ UNCHANGED <<task, site, selection, proof, expired, submitted>>

-----------------------------------------------------------------------------
(* The mention, the prompt and its files.                                  *)

\* A pill left by an earlier page is taken for this one's, with the text beside it.
PillIsThere ==
  /\ at = "mentioning" /\ ui.pill # "none" /\ ~expired /\ Moves("inserting")
  /\ UNCHANGED <<task, shown, selection, tries, proof, expired, submitted>>

\* The mention is typed and its menu looked at.
Mention ==
  /\ at = "mentioning" /\ ui.pill = "none" /\ ~expired /\ tries.mentions > 0
  /\ tries' = [tries EXCEPT !.mentions = @ - 1]
  /\ ui' = [ui EXCEPT !.draft = "mention"]
  /\ (Lists /\ Moves("activating")) \/ Moves(at)
  /\ UNCHANGED <<task, site, selection, proof, expired, submitted>>

\* The menu showed the rows of another connector, or none in all its tries, or some
\* operation failed.
MentionFails ==
  /\ at \in {"mentioning", "activating"} /\ ClearsAfter("plain")
  /\ UNCHANGED <<task, site, selection, proof, expired, submitted>>

\* The menu showed other rows only: the catalog is loaded anew once.
CatalogStale ==
  /\ at = "mentioning" /\ ui.pill = "none" /\ ~expired
  /\ tries.refresh /\ tries.mentions \in 1 .. MaxMentions - 1
  /\ \/ ui' = Cleared(ui) /\ ReloadsCatalog
     \/ ui' \in {ui, Cleared(ui)} /\ Raises("persistent")
  /\ UNCHANGED <<task, site, selection, proof, expired, submitted>>

\* The row is highlighted and chosen, and the pill is there.
Activate ==
  /\ at = "activating" /\ ~expired /\ Moves("inserting")
  /\ ui' \in Rendered([ui EXCEPT !.draft = "empty", !.pill = "set"])
  /\ UNCHANGED <<task, site, selection, tries, proof, expired, submitted>>

\* Without a mention the composer is emptied first.
Readied(u) == IF Mentions(piece) THEN u ELSE Cleared(u)

\* setChatGptThinkMode, whose command needs an empty draft
SetThink ==
  /\ at = "inserting" /\ Think /\ ~ui.think
  /\ \/ /\ ~expired /\ Readied(ui).draft = "empty" /\ Moves(at) /\ UNCHANGED tries
        /\ ui' = [Readied(ui) EXCEPT !.think = TRUE]
     \/ ui' = [Cleared(ui) EXCEPT !.think = TRUE] /\ Raises("plain")
     \/ ui' \in {[u EXCEPT !.think = TRUE] : u \in {ui, Cleared(ui)}} /\ Raises("persistent")
     \/ ClearsAfter("plain")
  /\ UNCHANGED <<task, site, selection, proof, expired, submitted>>

\* insertPromptText: the text is inserted at once, behind what is there.
InsertPrompt ==
  /\ at = "inserting" /\ (Think => ui.think)
  /\ \/ /\ ~expired /\ Moves("verifying") /\ UNCHANGED tries
        /\ \E text \in {"prompt", "mangled"} :
             /\ text = "prompt" => Readied(ui).draft = "empty"
             /\ ui' \in Rendered([Readied(ui) EXCEPT !.draft = text])
     \/ ClearsAfter("plain") \/ ClearsAfter("integrity")
  /\ UNCHANGED <<task, site, selection, proof, expired, submitted>>

\* assertPromptAttached
VerifyPrompt ==
  /\ at = "verifying"
  /\ \/ /\ ui.draft = "prompt" /\ ~expired /\ UNCHANGED <<ui, tries>>
        /\ Moves(IF IsFinal(piece) THEN "filing" ELSE "sending")
     \/ ui.draft # "prompt" /\ ~expired /\ ClearsAfter("integrity")
     \/ ClearsAfter("plain")
  /\ UNCHANGED <<task, site, selection, proof, expired, submitted>>

UploadFiles ==
  /\ at = "filing"
  /\ \/ Stops /\ UNCHANGED ui
     \/ Moves("sending") /\ ui' \in Rendered(ui)
  /\ UNCHANGED <<task, site, selection, tries, proof, expired, submitted>>

-----------------------------------------------------------------------------
(* Sending.                                                                *)

\* Mutant of StillSelected: the closed label is enough, it does not name the family.
LabelKept == task.luna \/ LabelHolds

\* assertSelectedEffort, right before Enter.  Luna has no selection to hold.
StillSelected == task.luna \/ (LabelHolds /\ (task.family = "any" \/ FamilyShown))

Message ==
  [piece |-> piece, effort |-> ui.effort, version |-> Version(ui), think |-> ui.think,
   draft |-> ui.draft, pill |-> ui.pill]

\* Enter is pressed; that the message was accepted shows, or it does not.
Send ==
  /\ at = "sending"
  /\ \/ Stops /\ UNCHANGED <<ui, submitted>>
     \/ /\ StillSelected
        /\ messages' = messages \cup {Message} /\ piece' = piece + 1 /\ ui' = Cleared(ui)
        /\ Stops \/ Moves(IF IsFinal(piece) THEN "over" ELSE "acknowledging")
  /\ UNCHANGED <<task, site, selection, tries, proof, expired>>

\* A stage is acknowledged.  The first message of a saved chat gives it an address of its
\* own, sooner or later; the final message needs a new selection when effort or address
\* changed, and Luna's mode, which has none, never comes here.
Acknowledge ==
  /\ at = "acknowledging"
  /\ \/ Stops /\ UNCHANGED ui
     \/ /\ \E chat \in {ui.chat, IF task.temporary \/ task.reused THEN ui.chat ELSE 1} :
             ui' \in Rendered([ui EXCEPT !.chat = chat])
        /\ Moves(IF ~IsFinal(piece) \/ StagingEffort # task.effort \/ chosen.chat # ui'.chat
                THEN "selecting" ELSE "attaching")
  /\ UNCHANGED <<task, site, selection, tries, proof, expired, submitted>>

\* The saved chat's address shows only while the next message is made.
AddressShows ==
  /\ at \in Places \ {"start", "over"} /\ piece > 0 /\ ~task.temporary /\ ~task.reused
  /\ ui.chat = 0 /\ ui' = [ui EXCEPT !.chat = 1]
  /\ UNCHANGED <<task, site, at, selection, tries, proof, expired, raised, submitted>>

ComposerNext ==
  \/ Begin \/ PrepareSurface \/ SelectLuna \/ OpenSlider \/ Slide \/ CloseSlider \/ ConfirmSelection
  \/ StageExpires \/ Attach
  \/ AccessByLabel \/ ProofFound \/ ProofMissing \/ ProofFails \/ Toggle \/ Restore
  \/ PillIsThere \/ Mention \/ MentionFails \/ CatalogStale \/ Activate
  \/ SetThink \/ InsertPrompt \/ VerifyPrompt \/ UploadFiles \/ Send \/ Acknowledge
  \/ AddressShows

ComposerSpec == ComposerInit /\ [][ComposerNext]_composerVars

-----------------------------------------------------------------------------
(* Properties.                                                             *)

\* Every message goes out as it was meant, whatever the page lost on the way: with the
\* effort and the version of its part, within that effort's room, with Think or without, the
\* whole prompt, and the connector where the message has to name it.
SendsAsMeant ==
  \A m \in messages :
    /\ m.draft = "prompt" /\ (Mentions(m.piece) => m.pill # "none")
    /\ IF task.luna THEN m.think = Think
       ELSE /\ m.effort = EffortOf(m.piece) /\ SizeOf(m.piece) <= Room[m.effort]
            /\ task.family = "any" \/ m.version = Wanted(m.effort)

\* A turn has put the page back, unless its error tells that it could not: no mention, pill
\* or prompt of a failed attachment stays in the draft, and a choice of personalization that
\* was changed on trial, and did not show the connector, is what it was.
PutBackOrTold ==
  at = "over" =>
    /\ raised \in {"plain", "integrity"} =>
         ui.draft \in {"empty", "left"} /\ ui.pill \in {"none", "left"}
    /\ (raised # "persistent" /\ receipt # NoReceipt /\ ~proven) => ui.choice = receipt
=============================================================================
