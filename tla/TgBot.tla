-------------------------------- MODULE TgBot --------------------------------
(***************************************************************************)
(* The Telegram bot (tgbot): a loop that asks the server for the updates   *)
(* from an offset on, and handles them one after the other.  The offset is *)
(* in memory only; asking with it is what confirms the updates before it.  *)
(* A file is sent in two updates: a button that says what the next file    *)
(* is, kept in TmpDir/tgbot_state, and the file.                           *)
(*                                                                         *)
(* The bot may be killed at any moment (SetTGService, bot_tg_start and the *)
(* watchdog kill it by name); the watchdog starts it again.  A handler     *)
(* that fails is not tried again: its error ends in the loop.              *)
(***************************************************************************)
EXTENDS Naturals, Sequences, FiniteSets

CONSTANTS
    Kinds,          \* kinds of updates the operator sends, of AllKinds
    MaxSent,        \* bound on the updates
    MaxKills,       \* bound on the kills and reboots
    None

\* Buttons that announce a file; files by their ending: an archive may be a
\* core or a backup, a text is a configuration; commands that only answer; the
\* restart of the service; messages of another chat.
Requests == {"core", "bak", "cfg"}
Docs == {"archive", "text"}
AllKinds == Requests \cup Docs \cup {"show", "restart", "foreign"}

ASSUME TgBotAssumption ==
    /\ Kinds \subseteq AllKinds
    /\ MaxSent \in Nat /\ MaxKills \in Nat
    /\ None \notin AllKinds \cup {"untried"}

VARIABLES
    box,        \* the updates sent, the i-th has the number i
    confirmed,  \* the server has forgotten the updates up to this one
    up,         \* the bot runs
    offset,     \* the next update it has not seen; 0 in a new bot
    batch,      \* the updates received and not yet handled
    doc,        \* the file being handled: [pc, as], its kind by tgbot_state
    pending,    \* TmpDir/tgbot_state
    place,      \* which file was last stored as core, backup, configuration
    core,       \* the core runs
    kills,      \* history: kills and reboots so far
    used        \* history: as what each update's file was used the first time

vars == <<box, confirmed, up, offset, batch, doc, pending, place, core, kills, used>>

Ids == 1 .. MaxSent
NoDoc == [pc |-> "none", as |-> None]

TypeOK ==
    /\ box \in UNION {[1 .. n -> Kinds] : n \in 0 .. MaxSent}
    /\ confirmed \in 0 .. Len(box) /\ offset \in 0 .. Len(box) + 1
    /\ up \in BOOLEAN /\ core \in BOOLEAN
    /\ batch \in UNION {[1 .. n -> Ids] : n \in 0 .. MaxSent}
    /\ doc \in [pc : {"none", "taken", "used"}, as : Requests \cup {None}]
    /\ pending \in Requests \cup {None}
    /\ place \in [Requests -> 0 .. MaxSent]
    /\ kills \in 0 .. MaxKills
    /\ used \in [Ids -> Requests \cup {None, "untried"}]

-----------------------------------------------------------------------------
Later(m, n) == IF m > n THEN m ELSE n
\* The server takes the updates before the offset for confirmed.
Told == Later(confirmed, offset - 1)
Current == box[Head(batch)]

Send ==
    /\ Len(box) < MaxSent
    /\ \E kind \in Kinds : box' = Append(box, kind)
    /\ UNCHANGED <<confirmed, up, offset, batch, doc, pending, place, core, kills, used>>

\* Mutant of NextOffset: the offset passes over an update that is to come.
OffsetPast(answer) == IF answer = <<>> THEN offset + 1 ELSE answer[Len(answer)] + 1
\* pollUpdates: one more than the highest number in the answer.
NextOffset(answer) == IF answer = <<>> THEN offset ELSE Later(offset, answer[Len(answer)] + 1)
\* Mutant of Poll: the answer is confirmed before it is handled.
PollEager ==
    /\ up /\ batch = <<>>
    /\ LET answer == [i \in 1 .. (Len(box) - Told) |-> Told + i] IN
       batch' = answer /\ offset' = NextOffset(answer)
    /\ confirmed' = Len(box)
    /\ UNCHANGED <<box, up, doc, pending, place, core, kills, used>>
Poll ==
    /\ up /\ batch = <<>>
    /\ LET answer == [i \in 1 .. (Len(box) - Told) |-> Told + i] IN
       batch' = answer /\ offset' = NextOffset(answer)
    /\ confirmed' = Told
    /\ UNCHANGED <<box, up, doc, pending, place, core, kills, used>>
\* The question or its answer is lost; the bot waits and asks again.
PollFails ==
    /\ up /\ batch = <<>>
    /\ confirmed' = Told /\ confirmed # Told
    /\ UNCHANGED <<box, up, offset, batch, doc, pending, place, core, kills, used>>

\* The handler of the first update of the batch is through, or has failed.
Through == batch' = Tail(batch) /\ doc' = NoDoc /\ UNCHANGED <<box, confirmed, up, offset, kills>>
FirstUse(as) == used' = [used EXCEPT ![Head(batch)] = IF @ = "untried" THEN as ELSE @]

\* A message of another chat, a command that only answers; an answer that does
\* not reach the operator makes no difference.
Show ==
    /\ up /\ batch # <<>> /\ Current \in {"show", "foreign"}
    /\ Through /\ UNCHANGED <<pending, place, core, used>>
\* The controller's restart, in the bot's process: the start may fail.
Restart ==
    /\ up /\ batch # <<>> /\ Current = "restart"
    /\ core' \in BOOLEAN
    /\ Through /\ UNCHANGED <<pending, place, used>>
Request ==
    /\ up /\ batch # <<>> /\ Current \in Requests
    /\ pending' = Current
    /\ Through /\ UNCHANGED <<place, core, used>>

\* handleDocumentUpload: nothing was announced.
Unasked ==
    /\ up /\ batch # <<>> /\ Current \in Docs /\ doc.pc = "none" /\ pending = None
    /\ FirstUse(None)
    /\ Through /\ UNCHANGED <<pending, place, core>>
\* The announcement is read, then the file is fetched.
Take ==
    /\ up /\ batch # <<>> /\ Current \in Docs /\ doc.pc = "none" /\ pending # None
    /\ doc' = [pc |-> "taken", as |-> pending]
    /\ UNCHANGED <<box, confirmed, up, offset, batch, pending, place, core, kills, used>>
\* hasAnySuffix, configExt.
Fits(kind, as) == as = "cfg" <=> kind = "text"
\* processUploadedFile: stored where the announcement says.  A new core is
\* started at once.
Use ==
    /\ up /\ doc.pc = "taken" /\ Fits(Current, doc.as)
    /\ place' = [place EXCEPT ![doc.as] = Head(batch)]
    /\ core' \in (IF doc.as = "core" THEN BOOLEAN ELSE {core})
    /\ FirstUse(doc.as) /\ doc' = [doc EXCEPT !.pc = "used"]
    /\ UNCHANGED <<box, confirmed, up, offset, batch, pending, kills>>
\* Mutant of Refuse: the announcement stays after a file that was no good.
RefuseKeeps ==
    /\ up /\ doc.pc = "taken"
    /\ FirstUse(None)
    /\ Through /\ UNCHANGED <<pending, place, core>>
\* The file cannot be fetched or has the wrong ending.
Refuse ==
    /\ up /\ doc.pc = "taken"
    /\ FirstUse(None) /\ pending' = None
    /\ Through /\ UNCHANGED <<place, core>>
\* clearUploadState, deferred to the end of the handler.
Clear ==
    /\ up /\ doc.pc = "used"
    /\ pending' = None
    /\ Through /\ UNCHANGED <<place, core, used>>

Down == up' = FALSE /\ offset' = 0 /\ batch' = <<>> /\ doc' = NoDoc /\ kills' = kills + 1
Kill ==
    /\ up /\ kills < MaxKills /\ Down
    /\ UNCHANGED <<box, confirmed, pending, place, core, used>>
\* TmpDir is in memory.
Reboot ==
    /\ kills < MaxKills /\ Down /\ pending' = None /\ core' = FALSE
    /\ UNCHANGED <<box, confirmed, place, used>>
\* The watchdog's minute.
Watchdog ==
    /\ ~up /\ up' = TRUE
    /\ UNCHANGED <<box, confirmed, offset, batch, doc, pending, place, core, kills, used>>

Init ==
    /\ box = <<>> /\ confirmed = 0 /\ up = FALSE /\ offset = 0 /\ batch = <<>> /\ doc = NoDoc
    /\ pending = None /\ place = [r \in Requests |-> 0] /\ core = FALSE
    /\ kills = 0 /\ used = [u \in Ids |-> "untried"]

Handler == Show \/ Restart \/ Request \/ Unasked \/ Take \/ Use \/ Refuse \/ Clear
Next == Send \/ Poll \/ PollFails \/ Handler \/ Kill \/ Reboot \/ Watchdog

\* The loop goes on, a minute comes, and the server answers now and then.
Spec == Init /\ [][Next]_vars /\ WF_vars(Handler) /\ WF_vars(Watchdog) /\ SF_vars(Poll)

-----------------------------------------------------------------------------
\* Properties.

\* The bot keeps the promise of Inbox: every command is handled in the end, in
\* order, once in a life of the bot, and is confirmed only then.
Promise == INSTANCE Inbox WITH
    sent <- Len(box),
    handled <- IF batch # <<>> THEN Head(batch) - 1 ELSE Later(confirmed, offset - 1),
    confirmed <- confirmed
KeepsPromise == Promise!Spec

\* What the operator announced last before the update d, if no other file has
\* come in between.
Announced(d) ==
    LET before == {i \in 1 .. (d - 1) : box[i] \in Requests \cup Docs} IN
    IF before = {} THEN None
    ELSE LET last == CHOOSE i \in before : \A j \in before : j <= i IN
         IF box[last] \in Requests THEN box[last] ELSE None

\* A file is used the first time as what the operator announced it as, or not
\* at all, whatever kills, reboots and repeated updates come in between: an
\* announcement is never taken for another file than the one after it.
UsedAsAnnounced ==
    \A d \in Ids : used[d] \in Requests => used[d] = Announced(d)
=============================================================================
