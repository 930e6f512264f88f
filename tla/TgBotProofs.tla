----------------------------- MODULE TgBotProofs -----------------------------
(***************************************************************************)
(* For any number of updates, kills and reboots: the bot keeps the safety   *)
(* half of Inbox's promise, and a file is used the first time as what the   *)
(* operator announced it as.                                                *)
(***************************************************************************)
EXTENDS TgBot, SequenceTheorems, TLAPS

\* The updates received are the numbers before the offset, none of them
\* confirmed; the file being handled is the first of them.
Order ==
    /\ box \in Seq(Kinds) /\ Len(box) \in 0 .. MaxSent
    /\ confirmed \in 0 .. Len(box) /\ offset \in 0 .. Len(box) + 1
    /\ batch \in Seq(Ids)
    /\ batch # <<>> => Len(batch) <= offset - 1 - confirmed
    /\ \A i \in 1 .. Len(batch) : batch[i] = offset - 1 - Len(batch) + i
    /\ doc \in [pc : {"none", "taken", "used"}, as : Requests \cup {None}]
    /\ doc.pc # "none" => batch # <<>>
    /\ pending \in Requests \cup {None}

\* How far this life of the bot is.
Handled == IF batch # <<>> THEN offset - 1 - Len(batch) ELSE Later(confirmed, offset - 1)

LEMMA HandledIsHead ==
  ASSUME Order
  PROVE  /\ Handled \in Nat /\ confirmed <= Handled /\ Handled <= Len(box)
         /\ batch # <<>> => Head(batch) = Handled + 1 /\ Handled + 1 <= Len(box)
<1>1. CASE batch # <<>>
  <2>1. Len(batch) \in Nat /\ Len(batch) >= 1 /\ Head(batch) = batch[1]
    BY <1>1 DEF Order
  <2>2. batch[1] = offset - Len(batch)
    BY <2>1 DEF Order
  <2>3. QED BY <1>1, <2>1, <2>2 DEF Order, Handled
<1>2. CASE batch = <<>>
  BY <1>2 DEF Order, Handled, Later
<1>3. QED BY <1>1, <1>2

LEMMA ThroughOrder ==
  ASSUME Order, batch # <<>>, Through, pending' \in Requests \cup {None}
  PROVE  Order' /\ Handled' = Handled + 1
<1>1. Len(batch) \in Nat /\ Len(batch) >= 1
  BY DEF Order
<1>2. batch' \in Seq(Ids) /\ Len(batch') = Len(batch) - 1
      /\ \A i \in 1 .. Len(batch') : batch'[i] = batch[i + 1]
  BY <1>1 DEF Order, Through
<1>3. \A i \in 1 .. Len(batch') : batch'[i] = offset - 1 - Len(batch') + i
  <2> SUFFICES ASSUME NEW i \in 1 .. Len(batch') PROVE batch'[i] = offset - 1 - Len(batch') + i
    OBVIOUS
  <2>1. i + 1 \in 1 .. Len(batch)
    BY <1>1, <1>2
  <2>2. batch[i + 1] = offset - 1 - Len(batch) + (i + 1)
    BY <2>1 DEF Order
  <2>3. QED BY <2>2, <1>1, <1>2 DEF Order
<1>4. Len(batch) <= offset - 1 - confirmed
  BY DEF Order
<1>5. Order'
  BY <1>1, <1>2, <1>3, <1>4 DEF Order, Through, NoDoc
<1>6. batch' = <<>> <=> Len(batch) = 1
  BY <1>1, <1>2
<1>7. Handled' = Handled + 1
  <2>1. offset' = offset /\ confirmed' = confirmed /\ offset \in Nat /\ confirmed \in Nat
    BY DEF Order, Through
  <2>2. Handled = offset - 1 - Len(batch)
    BY DEF Handled
  <2>3. CASE Len(batch) = 1
    <3>1. Handled' = Later(confirmed, offset - 1)
      BY <1>6, <2>1, <2>3 DEF Handled, Later
    <3>2. Later(confirmed, offset - 1) = offset - 1
      BY <1>4, <2>1, <2>3 DEF Later
    <3>3. QED BY <3>1, <3>2, <2>1, <2>2, <2>3
  <2>4. CASE Len(batch) # 1
    <3>1. Handled' = offset - 1 - Len(batch')
      BY <1>6, <2>1, <2>4 DEF Handled
    <3>2. QED BY <3>1, <2>1, <2>2, <1>1, <1>2
  <2>5. QED BY <2>3, <2>4
<1>8. QED BY <1>5, <1>7

\* A step that leaves the updates and the progress alone.
LEMMA StillOrder ==
  ASSUME Order, UNCHANGED <<box, confirmed, offset, batch>>,
         doc' \in [pc : {"none", "taken", "used"}, as : Requests \cup {None}],
         doc'.pc # "none" => batch # <<>>, pending' \in Requests \cup {None}
  PROVE  Order' /\ Handled' = Handled
  BY DEF Order, Handled

LEMMA SendOrder ==
  ASSUME Order, Send
  PROVE  Order' /\ Handled' = Handled /\ Len(box') = Len(box) + 1
<1>1. PICK kind \in Kinds : box' = Append(box, kind)
  BY DEF Send
<1>2. Len(box') = Len(box) + 1 /\ box' \in Seq(Kinds)
  BY <1>1 DEF Order
<1>3. Len(box) + 1 \in 0 .. MaxSent
  BY TgBotAssumption DEF Order, Send
<1>4. confirmed \in 0 .. Len(box') /\ offset \in 0 .. Len(box') + 1
  BY <1>2 DEF Order
<1>5. Order'
  BY <1>2, <1>3, <1>4 DEF Order, Send
<1>6. Handled' = Handled
  BY DEF Send, Handled
<1>7. QED BY <1>2, <1>5, <1>6

LEMMA AnswerIsSeq ==
  ASSUME NEW m \in Nat, NEW n \in Nat, m + n <= MaxSent
  PROVE  LET answer == [i \in 1 .. n |-> m + i]
         IN  answer \in Seq(Ids) /\ Len(answer) = n /\ \A i \in 1 .. n : answer[i] = m + i
<1> DEFINE answer == [i \in 1 .. n |-> m + i]
<1>1. \A i \in 1 .. n : m + i \in Ids
  BY TgBotAssumption DEF Ids
<1>2. answer \in [1 .. n -> Ids]
  BY <1>1
<1>3. answer \in Seq(Ids)
  BY <1>2, SeqDef
<1>4. Len(answer) = n
  BY <1>3, LenProperties
<1>5. QED BY <1>3, <1>4

\* What Poll brings, and what it confirms.
LEMMA PollOrder ==
  ASSUME Order, Poll
  PROVE  Order' /\ Handled' = Handled /\ confirmed' = Handled
<1> DEFINE n == Len(box) - Told
           answer == [i \in 1 .. (Len(box) - Told) |-> Told + i]
<1>1. batch = <<>> /\ batch' = answer /\ offset' = NextOffset(answer) /\ confirmed' = Told
      /\ UNCHANGED <<box, doc, pending>>
  BY DEF Poll
<1>2. Told = Handled /\ Told \in 0 .. Len(box) /\ confirmed <= Told /\ offset - 1 <= Told
  BY <1>1 DEF Order, Told, Handled, Later
<1>3. n \in Nat /\ Len(box) \in Nat /\ Len(box) <= MaxSent /\ Told \in Nat
  BY <1>2 DEF Order
<1>4. Told + n <= MaxSent
  BY <1>2, <1>3, TgBotAssumption
<1>5. answer \in Seq(Ids) /\ Len(answer) = n /\ \A i \in 1 .. n : answer[i] = Told + i
  BY <1>3, <1>4, AnswerIsSeq
<1> HIDE DEF answer
<1>6. doc \in [pc : {"none", "taken", "used"}, as : Requests \cup {None}] /\ doc.pc = "none"
  BY <1>1 DEF Order
<1>7. CASE n = 0
  <2>1. batch' = <<>> /\ offset' = offset
    BY <1>1, <1>3, <1>5, <1>7 DEF NextOffset
  <2>2. Order'
    BY <1>1, <1>2, <1>6, <2>1 DEF Order
  <2>3. Handled' = Later(Told, offset - 1)
    BY <1>1, <2>1 DEF Handled, Later
  <2>4. QED BY <1>1, <1>2, <2>2, <2>3 DEF Later, Order
<1>8. CASE n # 0
  <2>1. Len(batch') = n /\ n >= 1 /\ batch' # <<>>
    BY <1>1, <1>3, <1>5, <1>8
  <2>2. answer[n] = Len(box)
    BY <1>3, <1>5, <1>8
  <2>3. offset' = Len(box) + 1
    <3>1. offset' = Later(offset, answer[n] + 1)
      BY <1>1, <1>5, <2>1 DEF NextOffset
    <3>2. offset \in 0 .. Len(box) + 1
      BY DEF Order
    <3>3. QED BY <3>1, <3>2, <2>2, <1>3 DEF Later
  <2>4. \A i \in 1 .. Len(batch') : batch'[i] = offset' - 1 - Len(batch') + i
    BY <1>1, <1>3, <1>5, <2>1, <2>3
  <2>5. Len(batch') <= offset' - 1 - confirmed' /\ offset' - 1 - Len(batch') = Told
    BY <1>1, <1>3, <2>1, <2>3
  <2>6. batch' \in Seq(Ids)
    BY <1>1, <1>5
  <2>7. Order'
    BY <1>1, <1>2, <1>3, <1>6, <2>1, <2>3, <2>4, <2>5, <2>6 DEF Order
  <2>8. Handled' = Told
    BY <2>1, <2>5 DEF Handled
  <2>9. QED BY <1>1, <1>2, <2>7, <2>8
<1>9. QED BY <1>7, <1>8

LEMMA PollFailsOrder ==
  ASSUME Order, PollFails
  PROVE  Order' /\ Handled' = Handled /\ confirmed' = Handled /\ confirmed # Handled
<1>1. batch = <<>> /\ confirmed' = Told /\ confirmed # Told /\ UNCHANGED <<box, offset, batch, doc, pending>>
  BY DEF PollFails
<1>2. Told = Handled /\ Told \in 0 .. Len(box) /\ offset - 1 <= Told /\ offset \in Nat
  BY <1>1 DEF Order, Told, Handled, Later
<1>3. Order'
  BY <1>1, <1>2 DEF Order
<1>4. Handled' = Handled
  BY <1>1, <1>2, <1>3 DEF Handled, Later, Order
<1>5. QED BY <1>1, <1>2, <1>3, <1>4

\* A new life begins with the first update that is not confirmed.
LEMMA DownOrder ==
  ASSUME Order, Down, UNCHANGED <<box, confirmed>>, pending' \in Requests \cup {None}
  PROVE  Order' /\ Handled' = confirmed
<1>1. offset' = 0 /\ batch' = <<>> /\ doc' = NoDoc
  BY DEF Down
<1>2. Order'
  BY <1>1 DEF Order, NoDoc
<1>3. QED BY <1>1, <1>2 DEF Handled, Later, Order

LEMMA HandlerOrder ==
  ASSUME Order, Handler
  PROVE  /\ Order' /\ UNCHANGED <<box, confirmed>>
         /\ \/ batch # <<>> /\ Through /\ Handled' = Handled + 1
            \/ (Take \/ Use) /\ Handled' = Handled
<1>1. CASE Show \/ Restart \/ Request \/ Unasked \/ Refuse \/ Clear
  <2>1. batch # <<>> /\ Through
    BY <1>1 DEF Show, Restart, Request, Unasked, Refuse, Clear, Order
  <2>2. pending' \in Requests \cup {None}
    BY <1>1 DEF Show, Restart, Request, Unasked, Refuse, Clear, Order
  <2>3. QED BY <2>1, <2>2, ThroughOrder DEF Through
<1>2. CASE Take \/ Use
  <2>1. UNCHANGED <<box, confirmed, offset, batch>> /\ batch # <<>>
    BY <1>2 DEF Take, Use, Order
  <2>2. doc' \in [pc : {"none", "taken", "used"}, as : Requests \cup {None}] /\ pending' = pending
    BY <1>2 DEF Take, Use, Order
  <2>3. QED BY <1>2, <2>1, <2>2, StillOrder DEF Order
<1>3. QED BY <1>1, <1>2 DEF Handler

-----------------------------------------------------------------------------
(* The promise *)

LEMMA InitOrder == Init => Order /\ Handled = 0
  BY TgBotAssumption DEF Init, Order, Handled, Later, NoDoc

LEMMA NextOrder == Order /\ [Next]_vars => Order'
<1> SUFFICES ASSUME Order, [Next]_vars PROVE Order'
  OBVIOUS
<1>1. CASE Send
  BY <1>1, SendOrder
<1>2. CASE Poll \/ PollFails
  BY <1>2, PollOrder, PollFailsOrder
<1>3. CASE Handler
  BY <1>3, HandlerOrder
<1>4. CASE Kill \/ Reboot
  BY <1>4, DownOrder DEF Kill, Reboot, Order
<1>5. CASE Watchdog
  BY <1>5, StillOrder DEF Watchdog, Order
<1>6. CASE UNCHANGED vars
  BY <1>6, StillOrder DEF vars, Order
<1>7. QED BY <1>1, <1>2, <1>3, <1>4, <1>5, <1>6 DEF Next

LEMMA OrderHolds == Spec => []Order
  BY InitOrder, NextOrder, PTL DEF Spec

\* Promise's view of the bot.
View == Handled = IF batch # <<>> THEN Head(batch) - 1 ELSE Later(confirmed, offset - 1)

LEMMA ViewHolds == Spec => [](Order /\ View)
<1>1. Order => View
  BY HandledIsHead DEF Handled, View
<1>2. QED BY <1>1, OrderHolds, PTL

\* The bot implements the safety part of Inbox: every step handles the next
\* command, confirms what is handled, begins anew after the last confirmed one,
\* or is none of Inbox's business.
THEOREM ImplementsInbox == Spec => Promise!Init /\ [][Promise!Next]_(Promise!vars)
<1>1. Init => Promise!Init
  BY DEF Init, Promise!Init, Later
<1>2. ASSUME Order, View, View', [Next]_vars
      PROVE  [Promise!Next]_(Promise!vars)
  <2> DEFINE h == IF batch # <<>> THEN Head(batch) - 1 ELSE Later(confirmed, offset - 1)
  <2>1. h = Handled /\ h' = Handled'
    BY <1>2 DEF View
  <2>2. Handled \in Nat /\ confirmed \in Nat /\ confirmed <= Handled /\ Handled <= Len(box) /\ Len(box) \in Nat
    BY <1>2, HandledIsHead DEF Order
  <2>3. CASE Send
    <3>1. Promise!Send
      BY <1>2, <2>1, <2>3, SendOrder DEF Promise!Send, Send
    <3>2. QED BY <3>1 DEF Promise!Next
  <2>4. CASE Poll \/ PollFails
    <3>1. h' = h /\ confirmed' = h /\ Len(box') = Len(box)
      BY <1>2, <2>1, <2>4, PollOrder, PollFailsOrder DEF Poll, PollFails
    <3>2. CASE confirmed = h
      BY <3>1, <3>2 DEF Promise!vars
    <3>3. CASE confirmed # h
      <4>1. Promise!Confirm
        BY <2>1, <2>2, <3>1, <3>3 DEF Promise!Confirm
      <4>2. QED BY <4>1 DEF Promise!Next
    <3>4. QED BY <3>2, <3>3
  <2>5. CASE Handler
    <3>1. UNCHANGED <<box, confirmed>>
      BY <1>2, <2>5, HandlerOrder
    <3>2. CASE batch # <<>> /\ h' = h + 1
      <4>1. h < Len(box)
        BY <1>2, <2>1, <3>2, HandledIsHead, <2>2
      <4>2. Promise!Handle
        BY <3>1, <3>2, <4>1 DEF Promise!Handle
      <4>3. QED BY <4>2 DEF Promise!Next
    <3>3. CASE h' = h
      BY <3>1, <3>3 DEF Promise!vars
    <3>4. QED BY <1>2, <2>1, <2>5, <3>2, <3>3, HandlerOrder
  <2>6. CASE Kill \/ Reboot
    <3>1. h' = confirmed /\ UNCHANGED <<box, confirmed>>
      BY <1>2, <2>1, <2>6, DownOrder DEF Kill, Reboot, Order
    <3>2. Promise!Restart
      BY <3>1 DEF Promise!Restart
    <3>3. QED BY <3>2 DEF Promise!Next
  <2>7. CASE Watchdog \/ UNCHANGED vars
    <3>1. UNCHANGED <<box, confirmed, offset, batch>>
      BY <2>7 DEF Watchdog, vars
    <3>2. QED BY <3>1 DEF Promise!vars
  <2>8. QED BY <1>2, <2>3, <2>4, <2>5, <2>6, <2>7 DEF Next
<1>3. QED BY <1>1, <1>2, ViewHolds, PTL DEF Spec

-----------------------------------------------------------------------------
(* The announcements *)

FilesBefore(b, d) == {i \in 1 .. (d - 1) : b[i] \in Requests \cup Docs}
LastOf(S) == CHOOSE i \in S : \A j \in S : j <= i
AnnouncedIn(b, d) ==
    IF FilesBefore(b, d) = {} THEN None
    ELSE IF b[LastOf(FilesBefore(b, d))] \in Requests THEN b[LastOf(FilesBefore(b, d))] ELSE None
HasLast(S) == S = {} \/ \E m \in S : \A j \in S : j <= m

LEMMA AnnouncedIsIn == \A d : Announced(d) = AnnouncedIn(box, d)
  BY DEF Announced, AnnouncedIn, FilesBefore, LastOf

LEMMA LastIsIn ==
  ASSUME NEW S, S # {}, HasLast(S)
  PROVE  LastOf(S) \in S /\ \A j \in S : j <= LastOf(S)
  BY DEF HasLast, LastOf

\* The announcement for the update after d is d itself, none after a file, and
\* the same as before after anything else.
LEMMA AnnouncedNext ==
  ASSUME NEW b, NEW d \in Nat \ {0}
  PROVE  /\ b[d] \in Requests => AnnouncedIn(b, d + 1) = b[d]
         /\ b[d] \in Docs => AnnouncedIn(b, d + 1) = None
<1>1. FilesBefore(b, d + 1) \subseteq 1 .. d
  BY DEF FilesBefore
<1>2. ASSUME b[d] \in Requests \cup Docs
      PROVE  FilesBefore(b, d + 1) # {} /\ LastOf(FilesBefore(b, d + 1)) = d
  <2>1. d \in FilesBefore(b, d + 1)
    BY <1>2 DEF FilesBefore
  <2>2. \A j \in FilesBefore(b, d + 1) : j <= d
    BY <1>1
  <2>3. HasLast(FilesBefore(b, d + 1))
    BY <2>1, <2>2 DEF HasLast
  <2>4. LastOf(FilesBefore(b, d + 1)) \in 1 .. d /\ d <= LastOf(FilesBefore(b, d + 1))
    BY <2>1, <2>3, <1>1, LastIsIn
  <2>5. QED BY <2>1, <2>4
<1>3. Requests \cap Docs = {}
  BY DEF Requests, Docs
<1>4. QED BY <1>2, <1>3 DEF AnnouncedIn

LEMMA AnnouncedStays ==
  ASSUME NEW b, NEW c \in Nat, NEW h \in Nat, c <= h,
         \A i \in c + 1 .. h : b[i] \notin Requests \cup Docs
  PROVE  AnnouncedIn(b, c + 1) = AnnouncedIn(b, h + 1)
<1>1. FilesBefore(b, c + 1) = FilesBefore(b, h + 1)
  BY DEF FilesBefore
<1>2. QED BY <1>1 DEF AnnouncedIn

LEMMA AnnouncedAppended ==
  ASSUME NEW b \in Seq(Kinds), NEW k \in Kinds, NEW d \in 1 .. Len(b) + 1, HasLast(FilesBefore(b, d))
  PROVE  AnnouncedIn(Append(b, k), d) = AnnouncedIn(b, d)
<1>1. \A i \in 1 .. Len(b) : Append(b, k)[i] = b[i]
  OBVIOUS
<1>2. Len(b) \in Nat
  OBVIOUS
<1>3. FilesBefore(Append(b, k), d) = FilesBefore(b, d)
  BY <1>1, <1>2 DEF FilesBefore
<1>4. CASE FilesBefore(b, d) = {}
  BY <1>3, <1>4 DEF AnnouncedIn
<1>5. CASE FilesBefore(b, d) # {}
  <2>1. LastOf(FilesBefore(b, d)) \in 1 .. Len(b)
    <3>1. LastOf(FilesBefore(b, d)) \in FilesBefore(b, d)
      BY <1>5, LastIsIn
    <3>2. QED BY <1>2, <3>1 DEF FilesBefore
  <2>2. QED BY <1>1, <1>3, <2>1 DEF AnnouncedIn
<1>6. QED BY <1>4, <1>5

\* What is announced at position h will be replaced before d, or is right.
Right(b, p, h, d) ==
    \/ p \in {None, AnnouncedIn(b, h + 1)}
    \/ \E i \in h + 1 .. d - 1 : b[i] \in Requests \cup Docs
\* A file may come at d, or has come and was not used yet.
Coming(b, u, d) == d = Len(b) + 1 \/ (b[d] \in Docs /\ u[d] = "untried")

\* Docs handled were tried; the announcement kept is the one for the next file,
\* or is overwritten by the repeated updates before a file is tried.
Announcing ==
    /\ used \in [Ids -> Requests \cup {None, "untried"}]
    /\ \A d \in Ids : used[d] # "untried" => d <= Len(box)
    /\ \A d \in Ids : used[d] \in Requests => used[d] = AnnouncedIn(box, d)
    /\ \A d \in 1 .. Handled : box[d] \in Docs => used[d] # "untried"
    /\ \A d \in Handled + 1 .. Len(box) + 1 : Coming(box, used, d) => Right(box, pending, Handled, d)
    /\ doc.pc # "none" => /\ box[Handled + 1] \in Docs
                          /\ doc.as = pending /\ pending \in Requests
    /\ doc.pc = "used" => used[Handled + 1] # "untried"
    /\ \A d \in 1 .. Len(box) + 1 : HasLast(FilesBefore(box, d))

-----------------------------------------------------------------------------
LEMMA InitAnnouncing == Init => Announcing
<1> SUFFICES ASSUME Init PROVE Announcing
  OBVIOUS
<1>1. box = <<>> /\ Len(box) = 0 /\ Handled = 0 /\ pending = None /\ doc.pc = "none"
  BY InitOrder DEF Init, NoDoc
<1>2. used \in [Ids -> Requests \cup {None, "untried"}] /\ \A d \in Ids : used[d] = "untried"
  BY DEF Init
<1>3. "untried" \notin Requests
  BY DEF Requests
<1>4. FilesBefore(box, 1) = {}
  BY DEF FilesBefore
<1>5. QED BY <1>1, <1>2, <1>3, <1>4 DEF Announcing, Right, HasLast

LEMMA SendAnnouncing ==
  ASSUME Order, Announcing, Send
  PROVE  Announcing'
<1>1. PICK kind \in Kinds : box' = Append(box, kind)
  BY DEF Send
<1>2. /\ Len(box') = Len(box) + 1 /\ Handled' = Handled /\ UNCHANGED <<pending, used, doc>>
      /\ box \in Seq(Kinds) /\ Len(box) \in Nat /\ Handled \in Nat /\ Handled <= Len(box)
      /\ \A i \in 1 .. Len(box) : box'[i] = box[i]
  BY <1>1, SendOrder, HandledIsHead DEF Send, Order
<1>3. \A d \in 1 .. Len(box) + 1 : AnnouncedIn(box', d) = AnnouncedIn(box, d)
  BY <1>1, <1>2, AnnouncedAppended DEF Announcing
<1>4. ASSUME NEW d \in Ids
      PROVE  /\ used'[d] # "untried" => d <= Len(box')
             /\ used'[d] \in Requests => used'[d] = AnnouncedIn(box', d)
  <2>1. used[d] \in Requests => d <= Len(box)
    BY DEF Announcing, Requests
  <2>2. d \in Nat \ {0}
    BY DEF Ids
  <2>3. QED BY <1>2, <1>3, <2>1, <2>2 DEF Announcing
<1>5. \A d \in 1 .. Handled' : box'[d] \in Docs => used'[d] # "untried"
  BY <1>2 DEF Announcing
<1>6. ASSUME NEW d \in Handled' + 1 .. Len(box') + 1, Coming(box', used', d)
      PROVE  Right(box', pending', Handled', d)
  <2>1. AnnouncedIn(box', Handled + 1) = AnnouncedIn(box, Handled + 1)
    BY <1>2, <1>3
  <2>2. CASE d <= Len(box)
    <3>1. Right(box, pending, Handled, d)
      BY <1>2, <1>6, <2>2 DEF Announcing, Coming
    <3>2. QED BY <1>2, <2>1, <2>2, <3>1 DEF Right
  <2>3. CASE d > Len(box)
    <3>1. Right(box, pending, Handled, Len(box) + 1)
      BY <1>2 DEF Announcing, Coming
    <3>2. QED BY <1>2, <2>1, <2>3, <3>1 DEF Right
  <2>4. QED BY <1>2, <2>2, <2>3
<1>7. doc'.pc # "none" => /\ box'[Handled' + 1] \in Docs
                          /\ doc'.as = pending' /\ pending' \in Requests
  <2>1. doc.pc # "none" => Handled + 1 <= Len(box)
    BY HandledIsHead DEF Order
  <2>2. QED BY <1>2, <2>1 DEF Announcing
<1>8. ASSUME NEW d \in 1 .. Len(box') + 1 PROVE HasLast(FilesBefore(box', d))
  <2>1. CASE d <= Len(box) + 1
    <3>1. FilesBefore(box', d) = FilesBefore(box, d)
      BY <1>2, <2>1 DEF FilesBefore
    <3>2. QED BY <1>2, <2>1, <3>1 DEF Announcing
  <2>2. CASE d = Len(box) + 2 /\ box'[Len(box) + 1] \in Requests \cup Docs
    <3>1. Len(box) + 1 \in FilesBefore(box', d) /\ \A j \in FilesBefore(box', d) : j <= Len(box) + 1
      BY <1>2, <2>2 DEF FilesBefore
    <3>2. QED BY <3>1 DEF HasLast
  <2>3. CASE d = Len(box) + 2 /\ box'[Len(box) + 1] \notin Requests \cup Docs
    <3>1. FilesBefore(box', d) = FilesBefore(box, Len(box) + 1)
      BY <1>2, <2>3 DEF FilesBefore
    <3>2. QED BY <1>2, <3>1 DEF Announcing
  <2>4. QED BY <1>2, <2>1, <2>2, <2>3
<1>9. QED BY <1>2, <1>4, <1>5, <1>6, <1>7, <1>8 DEF Announcing

\* The next update is handled: the announcement is right for the one after it.
LEMMA ThroughAnnouncing ==
  ASSUME Order, Announcing, batch # <<>>, Through, Handled' = Handled + 1,
         used' \in [Ids -> Requests \cup {None, "untried"}],
         \A d \in Ids : used'[d] = used[d] \/ (d = Handled + 1 /\ used'[d] = None),
         box[Handled + 1] \in Docs => used'[Handled + 1] # "untried",
         pending' = None \/ pending' = AnnouncedIn(box, Handled + 2)
            \/ (pending' = pending /\ box[Handled + 1] \notin Requests \cup Docs)
  PROVE  Announcing'
<1>1. /\ Handled \in Nat /\ Handled + 1 <= Len(box) /\ Len(box) \in Nat
      /\ box' = box /\ doc' = NoDoc
  BY HandledIsHead DEF Order, Through
<1>2. None \notin Requests /\ Ids = 1 .. MaxSent /\ MaxSent \in Nat /\ Len(box) <= MaxSent
  BY TgBotAssumption DEF AllKinds, Ids, Order
<1>3. \A d \in Ids : used'[d] # "untried" => d <= Len(box')
  BY <1>1 DEF Announcing
<1>4. \A d \in Ids : used'[d] \in Requests => used'[d] = AnnouncedIn(box', d)
  BY <1>1, <1>2 DEF Announcing
<1>5. ASSUME NEW d \in Ids, used'[d] = "untried" PROVE used[d] = "untried"
  BY <1>5, TgBotAssumption
<1>6. \A d \in 1 .. Handled' : box'[d] \in Docs => used'[d] # "untried"
  <2> SUFFICES ASSUME NEW d \in 1 .. Handled', box[d] \in Docs PROVE used'[d] # "untried"
    BY <1>1
  <2>1. CASE d = Handled + 1
    BY <2>1
  <2>2. CASE d # Handled + 1
    <3>1. d \in 1 .. Handled /\ d \in Ids
      BY <1>1, <1>2, <2>2
    <3>2. QED BY <1>5, <3>1 DEF Announcing
  <2>3. QED BY <2>1, <2>2
<1>7. ASSUME NEW d \in Handled' + 1 .. Len(box') + 1, Coming(box', used', d)
      PROVE  Right(box', pending', Handled', d)
  <2>1. CASE pending' = None \/ pending' = AnnouncedIn(box, Handled + 2)
    BY <1>1, <2>1 DEF Right
  <2>2. CASE pending' = pending /\ box[Handled + 1] \notin Requests \cup Docs
    <3>1. Coming(box, used, d)
      <4>1. d = Len(box) + 1 \/ d \in Ids
        <5>1. d \in Handled + 2 .. Len(box) + 1
          BY <1>1
        <5>2. QED BY <1>1, <1>2, <5>1
      <4>2. QED BY <1>1, <1>5, <1>7, <4>1 DEF Coming
    <3>2. Right(box, pending, Handled, d)
      BY <1>1, <3>1 DEF Announcing
    <3>3. AnnouncedIn(box, Handled + 1) = AnnouncedIn(box, (Handled + 1) + 1)
      <4>1. \A i \in Handled + 1 .. Handled + 1 : box[i] \notin Requests \cup Docs
        BY <1>1, <2>2
      <4>2. Handled + 1 \in Nat /\ Handled <= Handled + 1
        BY <1>1
      <4>3. QED BY <1>1, <4>1, <4>2, AnnouncedStays
    <3>4. QED BY <1>1, <2>2, <3>2, <3>3 DEF Right
  <2>3. QED BY <2>1, <2>2
<1>8. QED BY <1>1, <1>3, <1>4, <1>6, <1>7 DEF Announcing, NoDoc

LEMMA HandlerAnnouncing ==
  ASSUME Order, Announcing, Handler
  PROVE  Announcing'
<1> DEFINE d1 == Handled + 1
<1>1. /\ Handled \in Nat /\ (batch # <<>> => Head(batch) = d1 /\ d1 <= Len(box)) /\ Len(box) \in Nat
      /\ Len(box) <= MaxSent /\ MaxSent \in Nat
  BY HandledIsHead, TgBotAssumption DEF Order
<1>2. doc.pc # "none" => batch # <<>>
  BY DEF Order
<1>3. batch # <<>> => d1 \in Ids
  BY <1>1 DEF Ids
<1>4. used \in [Ids -> Requests \cup {None, "untried"}] /\ None # "untried"
  BY TgBotAssumption DEF Announcing
<1>5. Requests \cap Docs = {} /\ "untried" \notin Requests /\ None \notin Requests
      /\ {"show", "foreign", "restart"} \cap (Requests \cup Docs) = {}
  BY TgBotAssumption DEF Requests, Docs, AllKinds
<1>6. CASE Show \/ Restart
  <2>1. /\ batch # <<>> /\ Through /\ UNCHANGED <<pending, used>>
        /\ box[d1] \in {"show", "foreign", "restart"}
    BY <1>1, <1>6 DEF Show, Restart, Current
  <2>2. Handled' = Handled + 1
    BY <2>1, ThroughOrder DEF Order
  <2>3. box[d1] \notin Requests \cup Docs
    BY <1>5, <2>1
  <2>4. QED BY <1>4, <2>1, <2>2, <2>3, ThroughAnnouncing
<1>7. CASE Request
  <2>1. /\ batch # <<>> /\ Through /\ used' = used
        /\ box[d1] \in Requests /\ pending' = box[d1]
    BY <1>1, <1>7 DEF Request, Current
  <2>2. Handled' = Handled + 1
    BY <2>1, ThroughOrder
  <2>3. pending' = AnnouncedIn(box, Handled + 2)
    BY <1>1, <2>1, AnnouncedNext
  <2>4. box[d1] \notin Docs
    BY <1>5, <2>1
  <2>5. QED BY <1>4, <2>1, <2>2, <2>3, <2>4, ThroughAnnouncing
<1>8. CASE Unasked \/ Refuse
  <2>1. /\ batch # <<>> /\ Through /\ FirstUse(None) /\ pending' = None
    BY <1>2, <1>8 DEF Unasked, Refuse
  <2>2. Handled' = Handled + 1
    BY <2>1, ThroughOrder
  <2>3. used' = [used EXCEPT ![d1] = IF @ = "untried" THEN None ELSE @]
    BY <1>1, <2>1 DEF FirstUse
  <2>4. QED BY <1>3, <1>4, <2>1, <2>2, <2>3, ThroughAnnouncing
<1>9. CASE Clear
  <2>1. batch # <<>> /\ Through /\ used' = used /\ pending' = None /\ doc.pc = "used"
    BY <1>2, <1>9 DEF Clear
  <2>2. Handled' = Handled + 1
    BY <2>1, ThroughOrder
  <2>3. used'[d1] # "untried"
    BY <2>1 DEF Announcing
  <2>4. QED BY <1>4, <2>1, <2>2, <2>3, ThroughAnnouncing
<1>10. CASE Take
  <2>1. /\ batch # <<>> /\ box[d1] \in Docs /\ pending # None /\ doc' = [pc |-> "taken", as |-> pending]
        /\ UNCHANGED <<box, confirmed, offset, batch, pending, used>>
    BY <1>1, <1>10 DEF Take, Current
  <2>2. Handled' = Handled /\ pending \in Requests
    BY <2>1 DEF Handled, Order
  <2>3. QED BY <2>1, <2>2 DEF Announcing
<1>11. CASE Use
  <2>1. /\ batch # <<>> /\ doc.pc = "taken" /\ doc' = [doc EXCEPT !.pc = "used"]
        /\ UNCHANGED <<box, confirmed, offset, batch, pending>>
        /\ used' = [used EXCEPT ![d1] = IF @ = "untried" THEN doc.as ELSE @]
    BY <1>1, <1>2, <1>11 DEF Use, FirstUse
  <2>2. Handled' = Handled /\ box[d1] \in Docs /\ doc.as = pending /\ pending \in Requests /\ d1 \in Ids
    BY <1>3, <2>1 DEF Handled, Announcing
  <2>3. doc'.pc = "used" /\ doc'.as = pending
    BY <2>1, <2>2 DEF Order
  <2>4. used[d1] = "untried" => pending = AnnouncedIn(box, d1)
    <3>1. used[d1] = "untried" => Right(box, pending, Handled, d1)
      BY <1>1, <2>1, <2>2 DEF Announcing, Coming
    <3>2. ~ \E i \in Handled + 1 .. d1 - 1 : box[i] \in Requests \cup Docs
      BY <1>1
    <3>3. QED BY <1>5, <2>2, <3>1, <3>2 DEF Right
  <2>5. used'[d1] = (IF used[d1] = "untried" THEN pending ELSE used[d1])
        /\ \A d \in Ids : d # d1 => used'[d] = used[d]
    BY <1>4, <2>1, <2>2
  <2>6. used'[d1] # "untried" /\ (used'[d1] \in Requests => used'[d1] = AnnouncedIn(box, d1))
    BY <1>5, <2>2, <2>4, <2>5 DEF Announcing
  <2>7. used' \in [Ids -> Requests \cup {None, "untried"}]
    BY <1>4, <2>1, <2>2
  <2>8. \A d \in Ids : used'[d] = "untried" => used[d] = "untried"
    BY <2>5, <2>6
  <2>9. \A d \in Ids : used'[d] # "untried" => d <= Len(box')
    BY <1>1, <2>1, <2>5 DEF Announcing
  <2>10. \A d \in Ids : used'[d] \in Requests => used'[d] = AnnouncedIn(box', d)
    BY <2>1, <2>5, <2>6 DEF Announcing
  <2>11. \A d \in 1 .. Len(box) : d \in Ids
    BY <1>1 DEF Ids
  <2>12. \A d \in 1 .. Handled' : box'[d] \in Docs => used'[d] # "untried"
    BY <1>1, <2>1, <2>2, <2>8, <2>11 DEF Announcing
  <2>13. ASSUME NEW d \in Handled' + 1 .. Len(box') + 1, Coming(box', used', d)
         PROVE  Right(box', pending', Handled', d)
    <3>1. d = Len(box) + 1 \/ d \in Ids
      BY <1>1, <2>1, <2>2, <2>11
    <3>2. Coming(box, used, d)
      BY <2>1, <2>8, <2>13, <3>1 DEF Coming
    <3>3. QED BY <2>1, <2>2, <3>2 DEF Announcing
  <2>14. QED
    BY <2>1, <2>2, <2>3, <2>6, <2>7, <2>9, <2>10, <2>12, <2>13 DEF Announcing
<1>12. QED BY <1>6, <1>7, <1>8, <1>9, <1>10, <1>11 DEF Handler

\* The bot dies: the updates from the last confirmed one come again.
LEMMA DownAnnouncing ==
  ASSUME Order, Announcing, Down, UNCHANGED <<box, confirmed, used>>, pending' \in {pending, None}
  PROVE  Announcing'
<1>1. /\ Handled' = confirmed /\ confirmed \in Nat /\ Handled \in Nat /\ confirmed <= Handled
      /\ Handled <= Len(box) /\ Len(box) \in Nat /\ doc'.pc = "none"
  <2>1. pending' \in Requests \cup {None}
    BY DEF Order
  <2>2. Handled' = confirmed
    BY <2>1, DownOrder
  <2>3. doc'.pc = "none"
    BY DEF Down, NoDoc
  <2>4. QED BY <2>2, <2>3, HandledIsHead DEF Order
<1>2. ASSUME NEW d \in Handled' + 1 .. Len(box') + 1, Coming(box', used', d)
      PROVE  Right(box', pending', Handled', d)
  <2>1. Coming(box, used, d) /\ d \in Nat
    BY <1>1, <1>2 DEF Coming
  <2>2. d > Handled
    BY <1>1, <1>2, <2>1 DEF Coming, Announcing
  <2>3. Right(box, pending, Handled, d)
    BY <1>1, <1>2, <2>1, <2>2 DEF Announcing
  <2>4. CASE \E i \in confirmed + 1 .. d - 1 : box[i] \in Requests \cup Docs
    BY <1>1, <2>4 DEF Right
  <2>5. CASE ~ \E i \in confirmed + 1 .. d - 1 : box[i] \in Requests \cup Docs
    <3>1. pending \in {None, AnnouncedIn(box, Handled + 1)}
      BY <1>1, <2>1, <2>3, <2>5 DEF Right
    <3>2. \A i \in confirmed + 1 .. Handled : box[i] \notin Requests \cup Docs
      BY <1>1, <2>1, <2>2, <2>5
    <3>3. AnnouncedIn(box, confirmed + 1) = AnnouncedIn(box, Handled + 1)
      BY <1>1, <3>2, AnnouncedStays
    <3>4. QED BY <1>1, <3>1, <3>3 DEF Right
  <2>6. QED BY <2>4, <2>5
<1>3. \A d \in 1 .. Handled' : box'[d] \in Docs => used'[d] # "untried"
  BY <1>1 DEF Announcing
<1>4. doc'.pc # "none" => FALSE
  BY <1>1
<1>5. /\ used' \in [Ids -> Requests \cup {None, "untried"}]
      /\ \A d \in Ids : used'[d] # "untried" => d <= Len(box')
      /\ \A d \in Ids : used'[d] \in Requests => used'[d] = AnnouncedIn(box', d)
      /\ \A d \in 1 .. Len(box') + 1 : HasLast(FilesBefore(box', d))
  BY DEF Announcing
<1>6. doc'.pc # "used"
  BY <1>1
<1>7. QED BY <1>2, <1>3, <1>4, <1>5, <1>6 DEF Announcing

LEMMA StillAnnouncing ==
  ASSUME Announcing, UNCHANGED <<box, used, pending, doc>>, Handled' = Handled
  PROVE  Announcing'
  BY DEF Announcing

LEMMA AnnouncingHolds == Spec => []Announcing
<1>1. ASSUME Order, Announcing, [Next]_vars PROVE Announcing'
  <2>1. CASE Send
    BY <1>1, <2>1, SendAnnouncing
  <2>2. CASE Poll \/ PollFails
    BY <1>1, <2>2, PollOrder, PollFailsOrder, StillAnnouncing DEF Poll, PollFails
  <2>3. CASE Handler
    BY <1>1, <2>3, HandlerAnnouncing
  <2>4. CASE Kill \/ Reboot
    BY <1>1, <2>4, DownAnnouncing DEF Kill, Reboot
  <2>5. CASE Watchdog \/ UNCHANGED vars
    <3>1. UNCHANGED <<box, confirmed, offset, batch, used, pending, doc>>
      BY <2>5 DEF Watchdog, vars
    <3>2. QED BY <1>1, <3>1, StillAnnouncing DEF Handled
  <2>6. QED BY <1>1, <2>1, <2>2, <2>3, <2>4, <2>5 DEF Next
<1>2. QED BY <1>1, InitAnnouncing, OrderHolds, PTL DEF Spec

\* A file is used the first time as what the operator announced it as, or not
\* at all, however many kills, reboots and repeated updates come in between.
THEOREM NeverMistaken == Spec => []UsedAsAnnounced
<1>1. Announcing => UsedAsAnnounced
  BY AnnouncedIsIn DEF Announcing, UsedAsAnnounced
<1>2. QED BY <1>1, AnnouncingHolds, PTL

-----------------------------------------------------------------------------
\* The remaining files and counters.
LEMMA RestHolds ==
  Spec => [](up \in BOOLEAN /\ core \in BOOLEAN /\ place \in [Requests -> 0 .. MaxSent] /\ kills \in 0 .. MaxKills)
<1> DEFINE Rest == /\ up \in BOOLEAN /\ core \in BOOLEAN
                   /\ place \in [Requests -> 0 .. MaxSent] /\ kills \in 0 .. MaxKills
<1>1. Init => Rest
  <2>1. 0 \in 0 .. MaxSent /\ 0 \in 0 .. MaxKills
    BY TgBotAssumption
  <2>2. QED BY <2>1 DEF Init
<1>2. ASSUME Rest, Order, Announcing, [Next]_vars PROVE Rest'
  <2>1. CASE Send \/ Poll \/ PollFails \/ Watchdog \/ UNCHANGED vars
    BY <1>2, <2>1 DEF Send, Poll, PollFails, Watchdog, vars
  <2>2. CASE Show \/ Restart \/ Request \/ Unasked \/ Take \/ Refuse \/ Clear
    BY <1>2, <2>2 DEF Show, Restart, Request, Unasked, Take, Refuse, Clear, Through
  <2>3. CASE Use
    <3>1. Head(batch) \in 0 .. MaxSent
      <4>1. batch # <<>>
        BY <1>2, <2>3 DEF Use, Order
      <4>2. QED BY <1>2, <4>1, HandledIsHead, TgBotAssumption DEF Order
    <3>2. QED BY <1>2, <2>3, <3>1 DEF Use
  <2>4. CASE Kill \/ Reboot
    <3>1. kills' \in 0 .. MaxKills
      BY <1>2, <2>4, TgBotAssumption DEF Kill, Reboot, Down
    <3>2. QED BY <1>2, <2>4, <3>1 DEF Kill, Reboot, Down
  <2>5. QED BY <1>2, <2>1, <2>2, <2>3, <2>4 DEF Next, Handler
<1>3. QED BY <1>1, <1>2, OrderHolds, AnnouncingHolds, PTL DEF Spec

\* Everything the bot and the server keep is of its kind.
THEOREM TypeCorrect == Spec => []TypeOK
<1>1. Order => /\ box \in UNION {[1 .. n -> Kinds] : n \in 0 .. MaxSent}
               /\ batch \in UNION {[1 .. n -> Ids] : n \in 0 .. MaxSent}
  <2> SUFFICES ASSUME Order
               PROVE  /\ box \in UNION {[1 .. n -> Kinds] : n \in 0 .. MaxSent}
                      /\ batch \in UNION {[1 .. n -> Ids] : n \in 0 .. MaxSent}
    OBVIOUS
  <2>1. box \in [1 .. Len(box) -> Kinds] /\ batch \in [1 .. Len(batch) -> Ids]
    BY LenProperties DEF Order
  <2>2. Len(box) \in 0 .. MaxSent /\ Len(batch) \in 0 .. MaxSent
    BY EmptySeq, TgBotAssumption DEF Order
  <2>3. QED BY <2>1, <2>2
<1>2. Order => /\ confirmed \in 0 .. Len(box) /\ offset \in 0 .. Len(box) + 1
               /\ doc \in [pc : {"none", "taken", "used"}, as : Requests \cup {None}]
               /\ pending \in Requests \cup {None}
  BY DEF Order
<1>3. Announcing => used \in [Ids -> Requests \cup {None, "untried"}]
  BY DEF Announcing
<1>4. QED BY <1>1, <1>2, <1>3, OrderHolds, AnnouncingHolds, RestHolds, PTL DEF TypeOK
=============================================================================
