--------------------------- MODULE OutboundService ---------------------------
(***************************************************************************)
(* Sending from the browser (services/OutboundService.ts): the notices     *)
(* about the messages a user has sent, and how the delivery receipts that  *)
(* come in later find the notice they are about.                           *)
(*                                                                         *)
(* JavaScript runs one callback at a time.  What is concurrent is the rest *)
(* of the way: the server sends a message part by part and answers when it *)
(* has sent the last one, while the SMSC may deliver, and report, the      *)
(* first.  So a receipt may reach the browser before the answer.           *)
(*                                                                         *)
(* The SMSC gives each part it accepts an id.  The answer has a text for   *)
(* it, which the browser reads as a hexadecimal number, and a receipt has  *)
(* a text, in which the browser looks for the decimal digits of the        *)
(* number.  Nothing is assumed of these texts: an id may not be a number,  *)
(* be rounded, or occur inside another one.                                *)
(***************************************************************************)
EXTENDS Integers, FiniteSets, SequencesExt

CONSTANTS
    Messages,       \* the messages that the user sends
    Ids,            \* the ids that the SMSC gives
    AnswerText,     \* per id: the text that the answer to sendMessage has for it
    ReceiptText,    \* per id: the text that its receipts have for it
    Exact,          \* the largest number up to which all are exact, 2^53 in JavaScript
    MaxParts,       \* bound: parts of a message
    MaxReceipts     \* bound: receipts that come in

\* A text is a sequence of characters: 0 to 9 are the digits, 10 to 15 the letters a to f.
ASSUME IdsAssumption ==
    /\ AnswerText \in [Ids -> Seq(Nat)]
    /\ ReceiptText \in [Ids -> Seq(Nat)]
    /\ Exact \in Nat

ASSUME PartsAssumption == MaxParts \in Nat /\ MaxReceipts \in Nat

Final == {"Delivered", "Undeliverable"}
Failures == {"ESME_RSUBMITFAIL", "Failed"}
Statuses == {"Submitted"} \cup Final \cup Failures

VARIABLES
    call,           \* what has become of each call of sendMessage
    parts,          \* the number of parts of each message
    sent,           \* per message: the id and the error code of each part sent so far
    receipts,       \* the number of receipts that have reached the browser, for the bound
    notifications,  \* NotificationService.notifications
    expected        \* history: what the notice of each message should show, if anything

serverVars == <<call, parts, sent>>
outVars == <<call, parts, sent, receipts, notifications, expected>>

\* The id of a notice is an array of numbers, with NaN for a part that was not accepted; an
\* array of one random number; or the text that a receipt brought.  Here it is the ids of
\* the SMSC that these numbers and this text have come from.
Notice == [type : {"numbers", "random", "text"}, id : SUBSET Ids, status : Statuses]

OutTypeOK ==
    /\ call \in [Messages -> {"new", "sending", "answered", "done", "failed"}]
    /\ parts \in [Messages -> 0..MaxParts]
    /\ sent \in [Messages -> Seq([id : SUBSET Ids, code : {"ESME_ROK"} \cup Failures])]
    /\ receipts \in 0..MaxReceipts
    /\ notifications \in Seq(Notice)
    /\ \A m \in Messages : Len(sent[m]) <= IF parts[m] = 0 THEN 1 ELSE parts[m]
    /\ \A i \in 1..Len(notifications) :
           /\ notifications[i].type = "text" => Cardinality(notifications[i].id) = 1
           /\ notifications[i].type = "random" => notifications[i].id = {}
    /\ expected \in [Messages -> {"nothing", "Submitted"} \cup Final]

OutInit ==
    /\ call = [m \in Messages |-> "new"]
    /\ parts = [m \in Messages |-> 0]
    /\ sent = [m \in Messages |-> <<>>]
    /\ receipts = 0
    /\ notifications = <<>>
    /\ expected = [m \in Messages |-> "nothing"]

IdsOf(results) == UNION {results[i].id : i \in 1..Len(results)}
Given == UNION {IdsOf(sent[m]) : m \in Messages}

(***************************************************************************)
(* From the texts of the ids to numbers, and back.                         *)
(***************************************************************************)
NaN == -1

\* Above Exact only even numbers are left, and above twice as much, which the texts here do
\* not reach, fewer still.  A tie goes to the one that is a multiple of four.
Rounded(n) ==
    IF n <= Exact \/ n % 2 = 0 THEN n ELSE IF n % 4 = 1 THEN n - 1 ELSE n + 1

\* parseInt("0x" + text) reads the hexadecimal digits at the beginning.
ParseInt(text) ==
    LET digits == Max({n \in 0..Len(text) : \A i \in 1..n : text[i] < 16})
    IN  IF digits = 0 THEN NaN
        ELSE Rounded(FoldLeft(LAMBDA n, digit : 16 * n + digit, 0, SubSeq(text, 1, digits)))

Number == [id \in Ids |-> ParseInt(AnswerText[id])]

\* The text of a number, which has no leading zeros.
Decimal[n \in Nat] == IF n < 10 THEN <<n>> ELSE Append(Decimal[n \div 10], n % 10)

\* text.indexOf(number): <<a, b>> if the number of a occurs in the text of b's receipts.
Inside == {e \in Ids \X Ids :
    /\ Number[e[1]] # NaN
    /\ LET digits == Decimal[Number[e[1]]]
           text == ReceiptText[e[2]]
       IN  \E i \in 0..(Len(text) - Len(digits)) : SubSeq(text, i + 1, i + Len(digits)) = digits}

\* text.indexOf(character), for the characters of another text.
Alike == {e \in Ids \X Ids : ToSet(ReceiptText[e[1]]) \cap ToSet(ReceiptText[e[2]]) # {}}

\* numbers.indexOf(number): NaN is not found, and different ids may give the same number.
Same == {e \in Ids \X Ids : Number[e[1]] = Number[e[2]] /\ Number[e[1]] # NaN}

(***************************************************************************)
(* NotificationService.                                                    *)
(***************************************************************************)

\* notification.id.indexOf(old.id[j]) for the members j of the old notice's id: a number is
\* looked for as a text in a text, the single characters of a text in a text, and a
\* number as itself among numbers.
Matches(new, old) ==
    \/ /\ new.type = "text" /\ old.type = "numbers"
       /\ \E a \in old.id, b \in new.id : <<a, b>> \in Inside
    \/ /\ new.type = "text" /\ old.type = "text"
       /\ \E a \in old.id, b \in new.id : <<a, b>> \in Alike
    \/ /\ new.type = "numbers" /\ old.type = "numbers"
       /\ \E a \in old.id, b \in new.id : <<a, b>> \in Same

\* Mutant: the search goes on after the first notice that matches.
AddToLast(new) ==
    LET matching == {i \in 1..Len(notifications) : Matches(new, notifications[i])}
    IN  IF matching = {}
        THEN notifications' = Append(notifications, new)
        ELSE notifications' = [notifications EXCEPT ![Max(matching)].status = new.status]

\* The first notice that matches takes the status of the new one, which is shown only if
\* there is none.  Whether the panel of the notices is open is left out.
AddNotification(new) ==
    LET matching == {i \in 1..Len(notifications) : Matches(new, notifications[i])}
    IN  IF matching = {}
        THEN notifications' = Append(notifications, new)
        ELSE notifications' = [notifications EXCEPT ![Min(matching)].status = new.status]

\* Notices are removed, and what they showed is nobody's business any more.
Forget(kept) ==
    /\ expected' = [m \in Messages |->
           IF \E notice \in kept : notice.type = "numbers" /\ notice.id = IdsOf(sent[m])
           THEN expected[m] ELSE "nothing"]
    /\ UNCHANGED <<serverVars, receipts>>

RemoveNotification(i) ==
    /\ notifications' = RemoveAt(notifications, i)
    /\ Forget({notifications[j] : j \in (1..Len(notifications)) \ {i}})

RemoveAll ==
    /\ notifications # <<>>
    /\ notifications' = <<>>
    /\ Forget({})

(***************************************************************************)
(* The server: OutboundHub.SendMessage and SmppConnection.SendParts.       *)
(***************************************************************************)

\* A browser without a connected client gets ("0", "Failed") at once.
SendMessage(m) ==
    /\ call[m] = "new"
    /\ \/ /\ call' = [call EXCEPT ![m] = "sending"]
          /\ \E n \in 1..MaxParts : parts' = [parts EXCEPT ![m] = n]
          /\ UNCHANGED sent
       \/ /\ call' = [call EXCEPT ![m] = "answered"]
          /\ sent' = [sent EXCEPT ![m] = <<[id |-> {}, code |-> "Failed"]>>]
          /\ UNCHANGED parts
    /\ UNCHANGED <<receipts, notifications, expected>>

SendPart(m) ==
    /\ call[m] = "sending"
    /\ \E result \in [id : {{id} : id \in Ids \ Given}, code : {"ESME_ROK"}]
                     \cup {[id |-> {}, code |-> "ESME_RSUBMITFAIL"]} :
           sent' = [sent EXCEPT ![m] = Append(sent[m], result)]
    /\ call' = [call EXCEPT ![m] = IF Len(sent[m]) + 1 = parts[m] THEN "answered" ELSE "sending"]
    /\ UNCHANGED <<parts, receipts, notifications, expected>>

\* A time-out or a lost connection is an exception: the call fails as a whole, and the
\* browser has no handler for that.
SendFails(m) ==
    /\ call[m] = "sending"
    /\ call' = [call EXCEPT ![m] = "failed"]
    /\ UNCHANGED <<parts, sent, receipts, notifications, expected>>

(***************************************************************************)
(* What reaches the browser.                                               *)
(***************************************************************************)

\* The answer to sendMessage.  Only the first part's code is looked at.
Response(m) ==
    LET accepted == sent[m][1].code = "ESME_ROK"
    IN  /\ call[m] = "answered"
        /\ call' = [call EXCEPT ![m] = "done"]
        /\ AddNotification(
               IF accepted
               THEN [type |-> "numbers", id |-> IdsOf(sent[m]), status |-> "Submitted"]
               ELSE [type |-> "random", id |-> {}, status |-> sent[m][1].code])
        /\ expected' =
               IF accepted /\ \A i \in 1..Len(notifications) : notifications[i].type # "text"
               THEN [expected EXCEPT ![m] = "Submitted"] ELSE expected
        /\ UNCHANGED <<parts, sent, receipts>>

MessageDelivered(id, status) ==
    /\ id \in Given
    /\ receipts < MaxReceipts
    /\ receipts' = receipts + 1
    /\ AddNotification([type |-> "text", id |-> {id}, status |-> status])
    /\ expected' = [m \in Messages |->
           IF id \in IdsOf(sent[m]) /\ expected[m] # "nothing" THEN status ELSE expected[m]]
    /\ UNCHANGED serverVars

OutNext ==
    \/ \E m \in Messages : SendMessage(m) \/ SendPart(m) \/ SendFails(m) \/ Response(m)
    \/ \E id \in Ids, status \in Final : MessageDelivered(id, status)
    \/ \E i \in 1..Len(notifications) : RemoveNotification(i)
    \/ RemoveAll

(***************************************************************************)
(* Properties.                                                             *)
(***************************************************************************)
\* What a browser can tell of a message: each of its receipts has one of its own numbers in
\* it, and none of its ids is taken for one that the SMSC has given to another message, in
\* an answer or in a receipt.
ToldApart(m) ==
    \A a \in IdsOf(sent[m]) :
        /\ \E c \in IdsOf(sent[m]) : <<c, a>> \in Inside
        /\ \A b \in Given \ IdsOf(sent[m]) : {<<a, b>>, <<b, a>>} \cap (Inside \cup Same) = {}

\* A message that can be told apart from all others, and was answered while no receipt was
\* on show as a notice of its own, has one notice until the user removes it, and the notice
\* shows the last receipt that has come for it since.  What comes for other messages,
\* early, twice or not at all, does not change that, also if these cannot be told apart
\* from one another (addNotification, sendMessage).  Nothing is said of the messages that
\* the condition leaves out: ids like 1 and 12, ids that are not hexadecimal, and a receipt
\* that comes before the answer do go wrong.
LastReceiptShown ==
    \A m \in Messages : expected[m] # "nothing" /\ ToldApart(m) =>
        LET own == {i \in 1..Len(notifications) :
                        /\ notifications[i].type = "numbers"
                        /\ notifications[i].id = IdsOf(sent[m])}
        IN  /\ Cardinality(own) = 1
            /\ \A i \in own : notifications[i].status = expected[m]
=============================================================================
