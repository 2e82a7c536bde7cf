---------------------------- MODULE BrowserProofs ----------------------------
(***************************************************************************)
(* For any number of messages, ids, parts and receipts, and whatever the   *)
(* texts of the ids: the notice of a message that can be told apart shows  *)
(* the last receipt that has come for it; the inbox goes on showing what   *)
(* it has shown; and all variables keep their types.                       *)
(***************************************************************************)
EXTENDS Browser, SequenceLemmas, FiniteSetTheorems

Result == [id : SUBSET Ids, code : {"ESME_ROK"} \cup Failures]

\* What LastReceiptShown needs to know of the types, without the bounds.
Types ==
    /\ call \in [Messages -> {"new", "sending", "answered", "done", "failed"}]
    /\ sent \in [Messages -> Seq(Result)]
    /\ notifications \in Seq(Notice)

\* A call that is answered has an answer, and one that is not made has none.
AnswerHasParts ==
    \A m \in Messages : /\ call[m] = "new" => sent[m] = <<>>
                        /\ call[m] = "answered" => Len(sent[m]) > 0

OutInv == Types /\ AnswerHasParts

\* A notice that takes a status keeps its type and its id.
LEMMA StatusTaken ==
    ASSUME NEW old \in Notice, NEW status \in Statuses
    PROVE  /\ [old EXCEPT !.status = status] \in Notice
           /\ [old EXCEPT !.status = status].type = old.type
           /\ [old EXCEPT !.status = status].id = old.id
           /\ [old EXCEPT !.status = status].status = status
    BY DEF Notice

\* A new notice is shown at the end, or the first notice that it matches takes its status.
LEMMA FirstMatchTakes ==
    ASSUME NEW new, AddNotification(new)
    PROVE  \/ /\ \A i \in 1..Len(notifications) : ~Matches(new, notifications[i])
              /\ notifications' = Append(notifications, new)
           \/ \E i \in 1..Len(notifications) :
                  /\ Matches(new, notifications[i])
                  /\ \A j \in 1..Len(notifications) : Matches(new, notifications[j]) => i <= j
                  /\ notifications' = [notifications EXCEPT ![i].status = new.status]
<1> DEFINE matching == {i \in 1..Len(notifications) : Matches(new, notifications[i])}
<1>1. CASE matching = {}
    BY <1>1 DEF AddNotification
<1>2. CASE matching # {}
    <2>1. notifications' = [notifications EXCEPT ![Min(matching)].status = new.status]
        BY <1>2 DEF AddNotification
    <2>2. matching \in SUBSET Nat
        OBVIOUS
    <2>3. Min(matching) \in matching /\ \A j \in matching : Min(matching) <= j
        BY <1>2, <2>2, MinOfNaturals
    <2>4. QED
        BY <2>1, <2>3
<1>3. QED
    BY <1>1, <1>2

\* What a change of the status at k leaves of a sequence of notices.
LEMMA StatusSet ==
    ASSUME NEW q \in Seq(Notice), NEW k \in 1..Len(q), NEW status \in Statuses
    PROVE  LET r == [q EXCEPT ![k].status = status]
           IN  /\ r \in Seq(Notice) /\ Len(r) = Len(q)
               /\ \A i \in 1..Len(q) :
                      /\ r[i].type = q[i].type /\ r[i].id = q[i].id
                      /\ r[i].status = IF i = k THEN status ELSE q[i].status
                      /\ r[i] = IF i = k THEN [q[k] EXCEPT !.status = status] ELSE q[i]
<1>1. q[k] \in Notice
    OBVIOUS
<1> DEFINE taken == [q[k] EXCEPT !.status = status]
<1>2. /\ taken \in Notice /\ taken.type = q[k].type /\ taken.id = q[k].id
      /\ taken.status = status
    BY <1>1, StatusTaken
<1> HIDE DEF taken
<1>3. [q EXCEPT ![k].status = status] = [q EXCEPT ![k] = taken]
    BY DEF taken
<1>4. /\ [q EXCEPT ![k] = taken] \in Seq(Notice)
      /\ Len([q EXCEPT ![k] = taken]) = Len(q)
      /\ \A i \in 1..Len(q) : [q EXCEPT ![k] = taken][i] = IF i = k THEN taken ELSE q[i]
    BY <1>2
<1>5. QED
    BY <1>2, <1>3, <1>4 DEF taken

\* Each notice afterwards is one from before, the new one, or one that it matches.
LEMMA NoticeAdded ==
    ASSUME notifications \in Seq(Notice),
           NEW new \in Notice,
           AddNotification(new)
    PROVE  /\ notifications' \in Seq(Notice)
           /\ \A i \in 1..Len(notifications') :
                  \/ i \in 1..Len(notifications) /\ notifications'[i] = notifications[i]
                  \/ notifications'[i] = new
                  \/ /\ i \in 1..Len(notifications)
                     /\ Matches(new, notifications[i])
                     /\ notifications'[i] = [notifications[i] EXCEPT !.status = new.status]
<1>1. CASE notifications' = Append(notifications, new)
    BY <1>1
<1>2. ASSUME NEW k \in 1..Len(notifications),
             Matches(new, notifications[k]),
             notifications' = [notifications EXCEPT ![k].status = new.status]
      PROVE  /\ notifications' \in Seq(Notice)
             /\ Len(notifications') = Len(notifications)
             /\ \A i \in 1..Len(notifications) : notifications'[i] =
                    IF i = k THEN [notifications[k] EXCEPT !.status = new.status]
                    ELSE notifications[i]
    <2>1. new.status \in Statuses
        BY DEF Notice
    <2>2. QED
        BY <1>2, <2>1, StatusSet
<1>3. QED
    BY <1>1, <1>2, FirstMatchTakes

LEMMA IdsOfParts ==
    ASSUME NEW results \in Seq(Result) PROVE IdsOf(results) \in SUBSET Ids
<1>1. \A i \in 1..Len(results) : results[i] \in Result
    OBVIOUS
<1>2. \A i \in 1..Len(results) : results[i].id \in SUBSET Ids
    BY <1>1 DEF Result
<1>3. QED
    BY <1>2 DEF IdsOf

LEMMA Refusals ==
    ASSUME NEW code \in Failures
    PROVE  [id |-> {}, code |-> code] \in Result
<1>1. {} \in SUBSET Ids /\ code \in {"ESME_ROK"} \cup Failures
    OBVIOUS
<1>2. QED
    BY <1>1 DEF Result

LEMMA ServerKeepsOutInv ==
    ASSUME OutInv, NEW m \in Messages, SendMessage(m) \/ SendPart(m) \/ SendFails(m)
    PROVE  OutInv'
<1> USE DEF OutInv, Types, AnswerHasParts
<1>2. CASE SendMessage(m)
    <2>1. [id |-> {}, code |-> "Failed"] \in Result
        BY Refusals DEF Failures
    <2>2. /\ <<[id |-> {}, code |-> "Failed"]>> \in Seq(Result)
          /\ Len(<<[id |-> {}, code |-> "Failed"]>>) = 1
        BY <2>1
    <2> HIDE DEF Result
    <2>3. CASE call' = [call EXCEPT ![m] = "sending"] /\ UNCHANGED sent
        BY <1>2, <2>3 DEF SendMessage
    <2>4. CASE /\ call' = [call EXCEPT ![m] = "answered"]
               /\ sent' = [sent EXCEPT ![m] = <<[id |-> {}, code |-> "Failed"]>>]
        <3>1. sent' \in [Messages -> Seq(Result)] /\ Len(sent'[m]) > 0
            BY <2>2, <2>4
        <3>2. \A n \in Messages \ {m} : call'[n] = call[n] /\ sent'[n] = sent[n]
            BY <2>4
        <3>3. AnswerHasParts'
            <4>1. call'[m] = "answered" /\ Len(sent'[m]) > 0
                BY <2>4, <3>1
            <4>2. ASSUME NEW n \in Messages
                  PROVE  /\ call'[n] = "new" => sent'[n] = <<>>
                         /\ call'[n] = "answered" => Len(sent'[n]) > 0
                <5>1. CASE n = m
                    BY <4>1, <5>1
                <5>2. CASE n # m
                    BY <3>2, <5>2
                <5>3. QED
                    BY <5>1, <5>2
            <4>3. QED
                BY <4>2
        <3>4. QED
            BY <1>2, <2>4, <3>1, <3>3 DEF SendMessage
    <2>5. QED
        BY <1>2, <2>3, <2>4 DEF SendMessage
<1>3. CASE SendPart(m)
    <2>1. PICK result \in [id : {{id} : id \in Ids \ Given}, code : {"ESME_ROK"}]
                          \cup {[id |-> {}, code |-> "ESME_RSUBMITFAIL"]} :
              sent' = [sent EXCEPT ![m] = Append(sent[m], result)]
        BY <1>3 DEF SendPart
    <2>2. result \in Result
        BY DEF Result, Failures
    <2>3. /\ Append(sent[m], result) \in Seq(Result)
          /\ Len(Append(sent[m], result)) > 0
        BY <2>2
    <2> HIDE DEF Result
    <2>4. sent' \in [Messages -> Seq(Result)] /\ Len(sent'[m]) > 0
        BY <2>1, <2>3
    <2>5. QED
        BY <1>3, <2>1, <2>4 DEF SendPart
<1>4. CASE SendFails(m)
    BY <1>4 DEF SendFails
<1>5. QED
    BY <1>2, <1>3, <1>4

\* The notice of an answer.
LEMMA AnswerIsNotice ==
    ASSUME OutInv, NEW m \in Messages, call[m] = "answered"
    PROVE  (IF sent[m][1].code = "ESME_ROK"
            THEN [type |-> "numbers", id |-> IdsOf(sent[m]), status |-> "Submitted"]
            ELSE [type |-> "random", id |-> {}, status |-> sent[m][1].code]) \in Notice
<1>1. sent[m] \in Seq(Result) /\ sent[m][1] \in Result
    BY DEF OutInv, Types, AnswerHasParts
<1>2. IdsOf(sent[m]) \in SUBSET Ids
    BY <1>1, IdsOfParts
<1>3. sent[m][1].code \in {"ESME_ROK"} \cup Failures
    BY <1>1 DEF Result
<1>4. CASE sent[m][1].code = "ESME_ROK"
    BY <1>2, <1>4 DEF Notice, Statuses
<1>5. CASE sent[m][1].code \in Failures
    BY <1>5 DEF Notice, Statuses, Failures
<1>6. QED
    BY <1>3, <1>4, <1>5

LEMMA ResponseKeepsOutInv ==
    ASSUME OutInv, NEW m \in Messages, Response(m)
    PROVE  OutInv'
<1> DEFINE new == IF sent[m][1].code = "ESME_ROK"
                  THEN [type |-> "numbers", id |-> IdsOf(sent[m]), status |-> "Submitted"]
                  ELSE [type |-> "random", id |-> {}, status |-> sent[m][1].code]
<1>1. /\ AddNotification(new)
      /\ call' = [call EXCEPT ![m] = "done"]
      /\ UNCHANGED sent
      /\ call[m] = "answered"
    BY DEF Response
<1>2. new \in Notice
    BY <1>1, AnswerIsNotice
<1> HIDE DEF new
<1>3. notifications' \in Seq(Notice)
    BY <1>1, <1>2, NoticeAdded DEF OutInv, Types
<1>4. QED
    BY <1>1, <1>3 DEF OutInv, Types, AnswerHasParts

LEMMA ReceiptKeepsOutInv ==
    ASSUME OutInv, NEW id \in Ids, NEW status \in Final, MessageDelivered(id, status)
    PROVE  OutInv'
<1> DEFINE new == [type |-> "text", id |-> {id}, status |-> status]
<1>1. AddNotification(new) /\ UNCHANGED <<call, sent>>
    BY DEF MessageDelivered, serverVars
<1>2. new \in Notice
    <2>1. status \in Statuses /\ {id} \in SUBSET Ids
        BY DEF Statuses
    <2>2. QED
        BY <2>1 DEF Notice
<1> HIDE DEF new
<1>3. notifications' \in Seq(Notice)
    BY <1>1, <1>2, NoticeAdded DEF OutInv, Types
<1>4. QED
    BY <1>1, <1>3 DEF OutInv, Types, AnswerHasParts

LEMMA RemovalKeepsOutInv ==
    ASSUME OutInv, RemoveAll \/ \E i \in 1..Len(notifications) : RemoveNotification(i)
    PROVE  OutInv'
<1>1. UNCHANGED <<call, sent>>
    BY DEF RemoveAll, RemoveNotification, Forget, serverVars
<1>2. Types /\ AnswerHasParts
    BY DEF OutInv
<1>3. /\ notifications' \in Seq(Notice)
      /\ \A j \in 1..Len(notifications') :
             \E k \in 1..Len(notifications) : notifications'[j] = notifications[k]
    <2>1. CASE RemoveAll
        BY <2>1 DEF RemoveAll
    <2>2. ASSUME NEW i \in 1..Len(notifications), RemoveNotification(i)
          PROVE  <1>3!1 /\ <1>3!2
        <3>1. notifications \in Seq(Notice)
            BY <1>2 DEF Types
        <3>2. notifications' = RemoveAt(notifications, i)
            BY <2>2 DEF RemoveNotification
        <3>3. RemoveAt(notifications, i) \in Seq(Notice)
            BY <3>1, RemoveAtElements
        <3>4. \A j \in 1..Len(RemoveAt(notifications, i)) :
                  \E k \in 1..Len(notifications) :
                      k # i /\ RemoveAt(notifications, i)[j] = notifications[k]
            BY <3>1, RemoveAtSurvivors
        <3>5. QED
            BY <3>2, <3>3, <3>4
    <2>3. QED
        BY <2>1, <2>2
<1>4. QED
    BY <1>1, <1>2, <1>3 DEF OutInv, Types, AnswerHasParts

LEMMA InboxKeepsOutInv ==
    ASSUME OutInv, UNCHANGED outVars PROVE OutInv'
    BY DEF outVars, OutInv, Types, AnswerHasParts

(***************************************************************************)
(* The last receipt is shown.  Shown says that, of the notices q, the one  *)
(* at i is the only one with these ids, has this status, and stands before *)
(* any notice that a stray receipt brought.                                *)
(***************************************************************************)
Own(notice, ids) == notice.type = "numbers" /\ notice.id = ids

Shown(q, i, ids, status) ==
    /\ i \in 1..Len(q)
    /\ Own(q[i], ids) /\ q[i].status = status
    /\ \A j \in 1..Len(q) : /\ Own(q[j], ids) => j = i
                            /\ q[j].type = "text" => i < j

LEMMA ShownAfterAppend ==
    ASSUME NEW q \in Seq(Notice), NEW new \in Notice, NEW ids, NEW status, NEW i,
           Shown(q, i, ids, status), ~Own(new, ids)
    PROVE  Shown(Append(q, new), i, ids, status)
    BY DEF Shown

LEMMA ShownAtTheEnd ==
    ASSUME NEW q \in Seq(Notice), NEW new \in Notice, NEW ids,
           Own(new, ids),
           \A j \in 1..Len(q) : ~Own(q[j], ids) /\ q[j].type # "text"
    PROVE  Shown(Append(q, new), Len(q) + 1, ids, new.status)
<1>1. new.type # "text"
    BY DEF Own
<1>2. QED
    BY <1>1 DEF Shown

LEMMA ShownAfterStatusSet ==
    ASSUME NEW q \in Seq(Notice), NEW new \in Statuses, NEW ids, NEW status, NEW i,
           NEW k \in 1..Len(q), Shown(q, i, ids, status)
    PROVE  Shown([q EXCEPT ![k].status = new], i, ids, IF i = k THEN new ELSE status)
<1> DEFINE r == [q EXCEPT ![k].status = new]
<1>1. /\ Len(r) = Len(q)
      /\ \A j \in 1..Len(q) : /\ r[j].type = q[j].type /\ r[j].id = q[j].id
                              /\ r[j].status = IF j = k THEN new ELSE q[j].status
    BY StatusSet
<1> HIDE DEF r
<1>2. Shown(r, i, ids, IF i = k THEN new ELSE status)
    BY <1>1 DEF Shown, Own
<1>3. QED
    BY <1>2 DEF r

LEMMA ShownAfterRemoval ==
    ASSUME NEW q \in Seq(Notice), NEW ids, NEW status, NEW i, Shown(q, i, ids, status),
           NEW k \in 1..Len(q), k # i
    PROVE  Shown(RemoveAt(q, k), IF i < k THEN i ELSE i - 1, ids, status)
<1>1. /\ Len(RemoveAt(q, k)) = Len(q) - 1
      /\ \A j \in 1..(Len(q) - 1) : RemoveAt(q, k)[j] = IF j < k THEN q[j] ELSE q[j + 1]
    BY RemoveAtElements
<1>2. i \in 1..Len(q) /\ Len(q) \in Nat
    BY DEF Shown
<1> DEFINE r == RemoveAt(q, k)
           i2 == IF i < k THEN i ELSE i - 1
<1>3. i2 \in 1..Len(r) /\ r[i2] = q[i]
    BY <1>1, <1>2
<1>4. ASSUME NEW j \in 1..Len(r)
      PROVE  /\ Own(r[j], ids) => j = i2
             /\ r[j].type = "text" => i2 < j
    <2>1. CASE j < k
        <3>1. j \in 1..Len(q) /\ r[j] = q[j]
            BY <1>1, <1>2, <1>4, <2>1
        <3>2. (Own(q[j], ids) => j = i) /\ (q[j].type = "text" => i < j)
            BY <3>1 DEF Shown
        <3>3. QED
            BY <1>2, <2>1, <3>1, <3>2
    <2>2. CASE j >= k
        <3>1. j + 1 \in 1..Len(q) /\ r[j] = q[j + 1]
            BY <1>1, <1>2, <1>4, <2>2
        <3>2. (Own(q[j + 1], ids) => j + 1 = i) /\ (q[j + 1].type = "text" => i < j + 1)
            BY <3>1 DEF Shown
        <3>3. QED
            BY <1>2, <2>2, <3>1, <3>2
    <2>3. QED
        BY <1>1, <1>2, <1>4, <2>1, <2>2
<1> HIDE DEF r, i2
<1>5. Shown(r, i2, ids, status)
    BY <1>3, <1>4 DEF Shown
<1>6. QED
    BY <1>5 DEF r, i2

Accepted(m) == Len(sent[m]) > 0 /\ sent[m][1].code = "ESME_ROK"

\* A part that was accepted has an id, which no other message has.
IdsAreUnique ==
    /\ \A m \in Messages : \A i \in 1..Len(sent[m]) :
           sent[m][i].code = "ESME_ROK" => sent[m][i].id # {}
    /\ \A m, n \in Messages : m # n => IdsOf(sent[m]) \cap IdsOf(sent[n]) = {}

\* A notice with numbers is that of a message that was accepted, and answered.
NoticesAreAnswers ==
    \A i \in 1..Len(notifications) : notifications[i].type = "numbers" =>
        \E m \in Messages : call[m] = "done" /\ Accepted(m) /\ Own(notifications[i], IdsOf(sent[m]))

ExpectedAreShown ==
    \A m \in Messages : expected[m] # "nothing" =>
        /\ call[m] = "done" /\ Accepted(m)
        /\ ToldApart(m) => \E i \in 1..Len(notifications) :
               Shown(notifications, i, IdsOf(sent[m]), expected[m])

ShowInv ==
    /\ OutInv
    /\ expected \in [Messages -> {"nothing", "Submitted"} \cup Final]
    /\ IdsAreUnique /\ NoticesAreAnswers /\ ExpectedAreShown

LEMMA AcceptedHasIds ==
    ASSUME Types, IdsAreUnique, NEW m \in Messages, Accepted(m)
    PROVE  IdsOf(sent[m]) # {}
<1>1. 1 \in 1..Len(sent[m]) /\ sent[m][1].id # {}
    BY DEF Types, IdsAreUnique, Accepted
<1>2. QED
    BY <1>1 DEF IdsOf

LEMMA IdsOfAppend ==
    ASSUME NEW results \in Seq(Result), NEW result \in Result
    PROVE  IdsOf(Append(results, result)) = IdsOf(results) \cup result.id
<1> DEFINE longer == Append(results, result)
<1>1. /\ Len(longer) = Len(results) + 1 /\ Len(results) \in Nat
      /\ longer[Len(longer)] = result
      /\ \A i \in 1..Len(results) : longer[i] = results[i]
    OBVIOUS
<1> HIDE DEF longer
<1>2. \A x : x \in IdsOf(results) <=> \E i \in 1..Len(results) : x \in results[i].id
    BY DEF IdsOf
<1>3. \A x : x \in IdsOf(longer) <=> \E i \in 1..Len(longer) : x \in longer[i].id
    BY DEF IdsOf
<1>4. \A x : x \in IdsOf(longer) <=> x \in IdsOf(results) \/ x \in result.id
    <2>1. 1..Len(longer) = (1..Len(results)) \cup {Len(longer)}
        BY <1>1
    <2>2. QED
        BY <1>1, <1>2, <1>3, <2>1
<1>5. IdsOf(longer) = IdsOf(results) \cup result.id
    BY <1>4
<1>6. QED
    BY <1>5 DEF longer

\* The SMSC only gives more ids: a message that can be told apart now always could.
LEMMA AlwaysApart ==
    ASSUME NEW m \in Messages, IdsOf(sent'[m]) = IdsOf(sent[m]),
           Given \subseteq Given', ToldApart(m)'
    PROVE  ToldApart(m)
    BY DEF ToldApart

LEMMA StillApart ==
    ASSUME UNCHANGED sent
    PROVE  \A m \in Messages : ToldApart(m)' => ToldApart(m)
<1>1. Given' = Given
    BY DEF Given
<1>2. QED
    BY <1>1, AlwaysApart

\* The server only adds to what is not answered yet, and an id it adds is new.
LEMMA ServerKeepsIds ==
    ASSUME Types, IdsAreUnique, NEW m \in Messages,
           SendMessage(m) \/ SendPart(m) \/ SendFails(m)
    PROVE  IdsAreUnique'
<1>1. CASE UNCHANGED sent
    BY <1>1 DEF IdsAreUnique
<1>2. ASSUME NEW result \in Result,
             result.code = "ESME_ROK" => result.id # {},
             \A n \in Messages : result.id \cap IdsOf(sent[n]) = {},
             NEW before \in Seq(Result),
             before = <<>> \/ before = sent[m],
             sent' = [sent EXCEPT ![m] = Append(before, result)]
      PROVE  IdsAreUnique'
    <2>1. /\ sent'[m] = Append(before, result)
          /\ \A n \in Messages \ {m} : sent'[n] = sent[n]
        BY <1>2 DEF Types
    <2>2. \A i \in 1..Len(before) : before[i].code = "ESME_ROK" => before[i].id # {}
        BY <1>2 DEF IdsAreUnique
    <2>3. \A i \in 1..Len(sent'[m]) : sent'[m][i].code = "ESME_ROK" => sent'[m][i].id # {}
        <3>1. \A i \in 1..Len(sent'[m]) :
                  \/ sent'[m][i] = result
                  \/ i \in 1..Len(before) /\ sent'[m][i] = before[i]
            BY <2>1
        <3>2. QED
            BY <1>2, <2>2, <3>1
    <2>4. IdsOf(before) \subseteq IdsOf(sent[m])
        BY <1>2 DEF IdsOf
    <2>5. IdsOf(sent'[m]) \subseteq IdsOf(sent[m]) \cup result.id
        BY <2>1, <2>4, IdsOfAppend
    <2>6. \A n \in Messages \ {m} : IdsOf(sent'[m]) \cap IdsOf(sent'[n]) = {}
        BY <1>2, <2>1, <2>5 DEF IdsAreUnique
    <2>7. \A n, l \in Messages \ {m} : n # l => IdsOf(sent'[n]) \cap IdsOf(sent'[l]) = {}
        BY <2>1 DEF IdsAreUnique
    <2>8. \A n \in Messages : \A i \in 1..Len(sent'[n]) :
              sent'[n][i].code = "ESME_ROK" => sent'[n][i].id # {}
        BY <2>1, <2>3 DEF IdsAreUnique
    <2> HIDE <1>2
    <2>9. \A n, l \in Messages : n # l => IdsOf(sent'[n]) \cap IdsOf(sent'[l]) = {}
        BY <2>6, <2>7
    <2>10. QED
        BY <2>8, <2>9 DEF IdsAreUnique, IdsOf
<1>3. CASE SendMessage(m)
    <2>1. CASE sent' = [sent EXCEPT ![m] = <<[id |-> {}, code |-> "Failed"]>>]
        <3> DEFINE result == [id |-> {}, code |-> "Failed"]
        <3>1. result \in Result /\ result.code # "ESME_ROK" /\ result.id = {}
            BY Refusals DEF Failures
        <3>2. <<result>> = Append(<<>>, result) /\ <<>> \in Seq(Result)
            OBVIOUS
        <3> HIDE DEF result
        <3>3. sent' = [sent EXCEPT ![m] = Append(<<>>, result)]
            BY <2>1, <3>2 DEF result
        <3>4. QED
            BY <1>2, <3>1, <3>2, <3>3
    <2>2. QED
        BY <1>1, <1>3, <2>1 DEF SendMessage
<1>4. CASE SendPart(m)
    <2>1. PICK result \in [id : {{id} : id \in Ids \ Given}, code : {"ESME_ROK"}]
                          \cup {[id |-> {}, code |-> "ESME_RSUBMITFAIL"]} :
              sent' = [sent EXCEPT ![m] = Append(sent[m], result)]
        BY <1>4 DEF SendPart
    <2>2. CASE result = [id |-> {}, code |-> "ESME_RSUBMITFAIL"]
        <3>1. result \in Result /\ result.code # "ESME_ROK" /\ result.id = {}
            BY <2>2, Refusals DEF Failures
        <3>2. sent[m] \in Seq(Result)
            BY DEF Types
        <3>3. QED
            BY <1>2, <2>1, <3>1, <3>2
    <2>3. CASE result \in [id : {{id} : id \in Ids \ Given}, code : {"ESME_ROK"}]
        <3>1. PICK id \in Ids \ Given : result.id = {id}
            BY <2>3
        <3>2. result.code = "ESME_ROK" /\ result = [id |-> result.id, code |-> result.code]
            BY <2>3
        <3>3. id \in Ids /\ \A n \in Messages : id \notin IdsOf(sent[n])
            BY <3>1 DEF Given
        <3>4. result \in Result
            BY <2>3, <3>3, <3>1, <3>2 DEF Result
        <3>5. sent[m] \in Seq(Result)
            BY DEF Types
        <3>6. QED
            BY <1>2, <2>1, <3>1, <3>3, <3>4, <3>5
    <2>4. QED
        BY <2>1, <2>2, <2>3
<1>5. CASE SendFails(m)
    BY <1>1, <1>5 DEF SendFails
<1>6. QED
    BY <1>3, <1>4, <1>5

LEMMA GivenGrows ==
    ASSUME Types, AnswerHasParts, NEW m \in Messages,
           SendMessage(m) \/ SendPart(m) \/ SendFails(m)
    PROVE  Given \subseteq Given'
<1>1. CASE UNCHANGED sent
    BY <1>1 DEF Given
<1>2. ASSUME NEW result \in Result, NEW before \in Seq(Result), before = sent[m],
             sent' = [sent EXCEPT ![m] = Append(before, result)]
      PROVE  Given \subseteq Given'
    <2>1. IdsOf(sent[m]) \subseteq IdsOf(sent'[m])
        <3>1. sent'[m] = Append(before, result)
            BY <1>2 DEF Types
        <3>2. QED
            BY <1>2, <3>1, IdsOfAppend
    <2>2. \A n \in Messages \ {m} : sent'[n] = sent[n]
        BY <1>2 DEF Types
    <2>3. ASSUME NEW n \in Messages PROVE IdsOf(sent[n]) \subseteq IdsOf(sent'[n])
        BY <2>1, <2>2
    <2>4. QED
        BY <2>3 DEF Given, IdsOf
<1>3. CASE SendMessage(m)
    <2>1. CASE sent' = [sent EXCEPT ![m] = <<[id |-> {}, code |-> "Failed"]>>]
        <3> DEFINE result == [id |-> {}, code |-> "Failed"]
        <3>1. result \in Result
            BY Refusals DEF Failures
        <3>2. <<result>> = Append(<<>>, result) /\ <<>> \in Seq(Result) /\ sent[m] = <<>>
            BY <1>3 DEF SendMessage, AnswerHasParts
        <3> HIDE DEF result
        <3>3. sent' = [sent EXCEPT ![m] = Append(<<>>, result)]
            BY <2>1, <3>2 DEF result
        <3>4. QED
            BY <1>2, <3>1, <3>2, <3>3
    <2>2. QED
        BY <1>1, <1>3, <2>1 DEF SendMessage
<1>4. CASE SendPart(m)
    <2>1. PICK result \in [id : {{id} : id \in Ids \ Given}, code : {"ESME_ROK"}]
                          \cup {[id |-> {}, code |-> "ESME_RSUBMITFAIL"]} :
              sent' = [sent EXCEPT ![m] = Append(sent[m], result)]
        BY <1>4 DEF SendPart
    <2>2. result \in Result
        BY DEF Result, Failures
    <2>3. sent[m] \in Seq(Result)
        BY DEF Types
    <2>4. QED
        BY <1>2, <2>1, <2>2, <2>3
<1>5. CASE SendFails(m)
    BY <1>1, <1>5 DEF SendFails
<1>6. QED
    BY <1>3, <1>4, <1>5

LEMMA ServerKeepsShowInv ==
    ASSUME ShowInv, NEW m \in Messages, SendMessage(m) \/ SendPart(m) \/ SendFails(m)
    PROVE  ShowInv'
<1>1. OutInv' /\ Types /\ AnswerHasParts /\ IdsAreUnique /\ NoticesAreAnswers /\ ExpectedAreShown
    BY ServerKeepsOutInv DEF ShowInv, OutInv
<1>2. IdsAreUnique'
    BY <1>1, ServerKeepsIds
<1>3. /\ UNCHANGED <<notifications, expected>>
      /\ \A n \in Messages : call[n] = "done" => call'[n] = "done" /\ sent'[n] = sent[n]
    BY <1>1 DEF Types, SendMessage, SendPart, SendFails
<1>4. NoticesAreAnswers'
    BY <1>1, <1>3 DEF NoticesAreAnswers, Accepted
<1>5. Given \subseteq Given'
    BY <1>1, GivenGrows
<1>6. ASSUME NEW n \in Messages, expected'[n] # "nothing"
      PROVE  /\ call'[n] = "done" /\ Accepted(n)'
             /\ ToldApart(n)' => \E i \in 1..Len(notifications') :
                    Shown(notifications', i, IdsOf(sent'[n]), expected'[n])
    <2>1. call[n] = "done" /\ call'[n] = "done" /\ sent'[n] = sent[n] /\ Accepted(n)
        BY <1>1, <1>3, <1>6 DEF ExpectedAreShown
    <2>2. IdsOf(sent'[n]) = IdsOf(sent[n]) /\ Accepted(n)'
        BY <2>1 DEF Accepted
    <2>3. ToldApart(n)' => ToldApart(n)
        BY <1>5, <2>2, AlwaysApart
    <2>4. QED
        BY <1>1, <1>3, <1>6, <2>1, <2>2, <2>3 DEF ExpectedAreShown
<1>7. ExpectedAreShown'
    BY <1>6 DEF ExpectedAreShown
<1>8. QED
    BY <1>1, <1>2, <1>3, <1>4, <1>7 DEF ShowInv

\* Whatever is added or takes a status, the messages that notices are about stay.
LEMMA AnswersKept ==
    ASSUME notifications \in Seq(Notice), NoticesAreAnswers,
           NEW new \in Notice, AddNotification(new),
           \A n \in Messages : call[n] = "done" => call'[n] = "done",
           UNCHANGED sent,
           new.type = "numbers" =>
               \E n \in Messages : call'[n] = "done" /\ Accepted(n) /\ Own(new, IdsOf(sent[n]))
    PROVE  NoticesAreAnswers'
<1>1. new.status \in Statuses
    BY DEF Notice
<1>2. ASSUME NEW i \in 1..Len(notifications'), notifications'[i].type = "numbers"
      PROVE  \E n \in Messages : /\ call'[n] = "done" /\ Accepted(n)
                                  /\ Own(notifications'[i], IdsOf(sent[n]))
    <2>1. CASE notifications'[i] = new
        BY <1>2, <2>1
    <2>2. CASE notifications'[i] # new
        <3>1. /\ i \in 1..Len(notifications) /\ notifications[i] \in Notice
              /\ \/ notifications'[i] = notifications[i]
                 \/ notifications'[i] = [notifications[i] EXCEPT !.status = new.status]
            BY <1>2, <2>2, NoticeAdded
        <3> DEFINE taken == [notifications[i] EXCEPT !.status = new.status]
        <3>2. taken.type = notifications[i].type /\ taken.id = notifications[i].id
            BY <1>1, <3>1, StatusTaken
        <3> HIDE DEF taken
        <3>3. /\ notifications'[i].type = notifications[i].type
              /\ notifications'[i].id = notifications[i].id
            BY <3>1, <3>2 DEF taken
        <3>4. QED
            BY <1>2, <3>1, <3>3 DEF NoticesAreAnswers, Own
    <2>3. QED
        BY <2>1, <2>2
<1>3. QED
    BY <1>2 DEF NoticesAreAnswers, Accepted

\* A notice stays shown unless the new one is taken for it, and one that takes its status
\* changes it.
LEMMA ShownKept ==
    ASSUME notifications \in Seq(Notice), NEW new \in Notice, AddNotification(new),
           NEW ids, NEW status, NEW i \in 1..Len(notifications),
           Shown(notifications, i, ids, status),
           ~Own(new, ids), ~Matches(new, notifications[i])
    PROVE  \E j \in 1..Len(notifications') : Shown(notifications', j, ids, status)
<1>1. CASE notifications' = Append(notifications, new)
    <2>1. Shown(notifications', i, ids, status) /\ i \in 1..Len(notifications')
        BY <1>1, ShownAfterAppend
    <2>2. QED
        BY <2>1
<1>2. ASSUME NEW k \in 1..Len(notifications), Matches(new, notifications[k]),
             notifications' = [notifications EXCEPT ![k].status = new.status]
      PROVE  \E j \in 1..Len(notifications') : Shown(notifications', j, ids, status)
    <2>1. k # i /\ new.status \in Statuses
        BY <1>2 DEF Notice
    <2>2. Shown(notifications', i, ids, status)
        BY <1>2, <2>1, ShownAfterStatusSet
    <2>3. i \in 1..Len(notifications')
        BY <2>2 DEF Shown
    <2>4. QED
        BY <2>2, <2>3
<1>3. QED
    BY <1>1, <1>2, FirstMatchTakes

\* Messages that can be told apart have no number in common.
LEMMA NoneTheSame ==
    ASSUME NEW m \in Messages, NEW n \in Messages, IdsAreUnique, m # n,
           ToldApart(m) \/ ToldApart(n),
           NEW a \in IdsOf(sent[m]), NEW b \in IdsOf(sent[n])
    PROVE  <<a, b>> \notin Inside \cup Same /\ <<b, a>> \notin Inside \cup Same
<1>1. a \in Given \ IdsOf(sent[n]) /\ b \in Given \ IdsOf(sent[m])
    BY DEF Given, IdsAreUnique
<1>2. {<<a, b>>, <<b, a>>} \cap (Inside \cup Same) = {}
    BY <1>1 DEF ToldApart
<1>3. QED
    BY <1>2

\* The notice of an answer is a new one, at the end, if the message can be told apart, and
\* does not match that of a message which can.
LEMMA ResponseKeepsShowInv ==
    ASSUME ShowInv, NEW m \in Messages, Response(m)
    PROVE  ShowInv'
<1> DEFINE new == IF sent[m][1].code = "ESME_ROK"
                  THEN [type |-> "numbers", id |-> IdsOf(sent[m]), status |-> "Submitted"]
                  ELSE [type |-> "random", id |-> {}, status |-> sent[m][1].code]
           stray == \E i \in 1..Len(notifications) : notifications[i].type = "text"
<1>1. OutInv' /\ OutInv /\ Types /\ IdsAreUnique /\ NoticesAreAnswers /\ ExpectedAreShown
    BY ResponseKeepsOutInv DEF ShowInv, OutInv
<1>2. /\ AddNotification(new)
      /\ call[m] = "answered" /\ call' = [call EXCEPT ![m] = "done"]
      /\ UNCHANGED sent
      /\ expected' = IF sent[m][1].code = "ESME_ROK" /\ ~stray
                     THEN [expected EXCEPT ![m] = "Submitted"] ELSE expected
    BY DEF Response
<1>3. /\ new.type = "numbers" => Own(new, IdsOf(sent[m])) /\ Accepted(m)
      /\ new.type = "numbers" => new.status = "Submitted"
      /\ sent[m][1].code = "ESME_ROK" => new.type = "numbers"
      /\ new.type \in {"numbers", "random"}
    BY <1>1, <1>2 DEF OutInv, AnswerHasParts, Own, Accepted
<1>4. new \in Notice
    BY <1>1, <1>2, AnswerIsNotice
<1> HIDE DEF new
<1>5. notifications \in Seq(Notice) /\ call \in [Messages -> {"new", "sending", "answered", "done", "failed"}]
    BY <1>1 DEF Types
<1>6. call'[m] = "done" /\ \A n \in Messages : call[n] = "done" => call'[n] = "done" /\ n # m
    BY <1>2, <1>5
<1>7. NoticesAreAnswers'
    BY <1>1, <1>2, <1>3, <1>4, <1>5, <1>6, AnswersKept
<1>8. ASSUME NEW i \in 1..Len(notifications), NEW n \in Messages,
             call[n] = "done", Own(notifications[i], IdsOf(sent[n])),
             ToldApart(m) \/ ToldApart(n)
      PROVE  ~Matches(new, notifications[i])
    <2>1. m # n
        BY <1>6, <1>8
    <2>2. \A a \in notifications[i].id, b \in IdsOf(sent[m]) : <<a, b>> \notin Same
        BY <1>1, <1>8, <2>1, NoneTheSame DEF Own
    <2>3. QED
        BY <1>3, <2>2 DEF Matches, Own
<1>9. ASSUME NEW n \in Messages, expected'[n] # "nothing"
      PROVE  /\ call'[n] = "done" /\ Accepted(n)
             /\ ToldApart(n) => \E i \in 1..Len(notifications') :
                    Shown(notifications', i, IdsOf(sent[n]), expected'[n])
    <2>1. expected \in [Messages -> {"nothing", "Submitted"} \cup Final]
        BY DEF ShowInv
    <2>2. CASE n = m
        <3>1. expected[m] = "nothing"
            BY <1>1, <1>2 DEF ExpectedAreShown
        <3>2. sent[m][1].code = "ESME_ROK" /\ ~stray /\ expected'[m] = "Submitted"
            BY <1>2, <1>9, <2>1, <2>2, <3>1
        <3>3. ASSUME ToldApart(m)
              PROVE  \E i \in 1..Len(notifications') :
                         Shown(notifications', i, IdsOf(sent[m]), "Submitted")
            <4>1. ASSUME NEW j \in 1..Len(notifications)
                  PROVE  /\ ~Matches(new, notifications[j])
                         /\ ~Own(notifications[j], IdsOf(sent[m]))
                <5>1. CASE notifications[j].type # "numbers"
                    BY <1>3, <3>2, <5>1 DEF Matches, Own
                <5>2. CASE notifications[j].type = "numbers"
                    <6>1. PICK k \in Messages : /\ call[k] = "done" /\ Accepted(k)
                                                /\ Own(notifications[j], IdsOf(sent[k]))
                        BY <1>1, <5>2 DEF NoticesAreAnswers
                    <6>2. k # m
                        BY <1>6, <6>1
                    <6>3. ~Own(notifications[j], IdsOf(sent[m]))
                        BY <1>1, <6>1, <6>2, AcceptedHasIds DEF IdsAreUnique, Own
                    <6>4. QED
                        BY <1>8, <3>3, <6>1, <6>3
                <5>3. QED
                    BY <5>1, <5>2
            <4>2. notifications' = Append(notifications, new)
                BY <1>2, <4>1, FirstMatchTakes
            <4>3. \A j \in 1..Len(notifications) :
                      ~Own(notifications[j], IdsOf(sent[m])) /\ notifications[j].type # "text"
                BY <3>2, <4>1
            <4>4. Shown(notifications', Len(notifications) + 1, IdsOf(sent[m]), "Submitted")
                BY <1>3, <1>4, <1>5, <3>2, <4>2, <4>3, ShownAtTheEnd
            <4>5. Len(notifications) + 1 \in 1..Len(notifications')
                BY <1>5, <4>2
            <4>6. QED
                BY <4>4, <4>5
        <3>4. Accepted(m)
            BY <1>3, <3>2
        <3>5. QED
            BY <1>6, <2>2, <3>2, <3>3, <3>4
    <2>3. CASE n # m
        <3>1. expected'[n] = expected[n] /\ expected[n] # "nothing"
            BY <1>2, <1>9, <2>1, <2>3
        <3>2. /\ call[n] = "done" /\ Accepted(n)
              /\ ToldApart(n) => \E i \in 1..Len(notifications) :
                     Shown(notifications, i, IdsOf(sent[n]), expected[n])
            BY <1>1, <3>1 DEF ExpectedAreShown
        <3>3. ~Own(new, IdsOf(sent[n]))
            BY <1>1, <1>3, <2>3, <3>2, AcceptedHasIds DEF IdsAreUnique, Own
        <3>4. ASSUME ToldApart(n)
              PROVE  \E j \in 1..Len(notifications') :
                         Shown(notifications', j, IdsOf(sent[n]), expected[n])
            <4>1. PICK i \in 1..Len(notifications) :
                      Shown(notifications, i, IdsOf(sent[n]), expected[n])
                BY <3>2, <3>4
            <4>2. ~Matches(new, notifications[i])
                BY <1>8, <3>2, <3>4, <4>1 DEF Shown
            <4>3. QED
                BY <1>2, <1>4, <1>5, <3>3, <4>1, <4>2, ShownKept
        <3>5. QED
            BY <1>6, <3>1, <3>2, <3>4
    <2>4. QED
        BY <2>2, <2>3
<1>10. ExpectedAreShown'
    BY <1>2, <1>9, StillApart DEF ExpectedAreShown, Accepted
<1>11. IdsAreUnique'
    BY <1>1, <1>2 DEF IdsAreUnique
<1>12. expected' \in [Messages -> {"nothing", "Submitted"} \cup Final]
    BY <1>2 DEF ShowInv
<1>13. QED
    BY <1>1, <1>7, <1>10, <1>11, <1>12 DEF ShowInv

\* Of the notices that a receipt for a message which can be told apart matches, that of the
\* message is the first, and a receipt for another one does not match it.
LEMMA ReceiptKeepsShowInv ==
    ASSUME ShowInv, NEW id \in Ids, NEW status \in Final, MessageDelivered(id, status)
    PROVE  ShowInv'
<1> DEFINE new == [type |-> "text", id |-> {id}, status |-> status]
<1>1. OutInv' /\ Types /\ IdsAreUnique /\ NoticesAreAnswers /\ ExpectedAreShown
    BY ReceiptKeepsOutInv DEF ShowInv, OutInv
<1>2. /\ AddNotification(new)
      /\ UNCHANGED <<call, sent>>
      /\ id \in Given
      /\ expected' = [m \in Messages |->
             IF id \in IdsOf(sent[m]) /\ expected[m] # "nothing" THEN status ELSE expected[m]]
    BY DEF MessageDelivered, serverVars
<1>3. notifications \in Seq(Notice)
    BY <1>1 DEF Types
<1>4. /\ new \in Notice
      /\ new.type = "text" /\ new.id = {id} /\ new.status = status /\ status \in Statuses
    <2>1. status \in Statuses /\ {id} \in SUBSET Ids
        BY DEF Statuses
    <2>2. QED
        BY <2>1 DEF Notice
<1> HIDE DEF new
<1>5. ASSUME NEW i \in 1..Len(notifications), notifications[i].type = "numbers"
      PROVE  Matches(new, notifications[i]) <=> \E a \in notifications[i].id : <<a, id>> \in Inside
    BY <1>4, <1>5 DEF Matches
<1>6. NoticesAreAnswers'
    BY <1>1, <1>2, <1>3, <1>4, AnswersKept
<1>7. ASSUME NEW n \in Messages, expected'[n] # "nothing"
      PROVE  /\ call[n] = "done" /\ Accepted(n)
             /\ ToldApart(n) => \E i \in 1..Len(notifications') :
                    Shown(notifications', i, IdsOf(sent[n]), expected'[n])
    <2>1. expected[n] # "nothing"
        BY <1>2, <1>7
    <2>2. expected'[n] = IF id \in IdsOf(sent[n]) THEN status ELSE expected[n]
        BY <1>2, <2>1
    <2>3. call[n] = "done" /\ Accepted(n)
        BY <1>1, <2>1 DEF ExpectedAreShown
    <2>4. ASSUME ToldApart(n)
          PROVE  \E i \in 1..Len(notifications') :
                     Shown(notifications', i, IdsOf(sent[n]), expected'[n])
        <3>1. PICK i \in 1..Len(notifications) :
                  Shown(notifications, i, IdsOf(sent[n]), expected[n])
            BY <1>1, <2>1, <2>4 DEF ExpectedAreShown
        <3>2. notifications[i].type = "numbers" /\ notifications[i].id = IdsOf(sent[n])
            BY <3>1 DEF Shown, Own
        <3>3. CASE id \notin IdsOf(sent[n])
            <4>1. \A a \in IdsOf(sent[n]) : <<a, id>> \notin Inside
                BY <1>2, <2>4, <3>3 DEF ToldApart
            <4>2. ~Matches(new, notifications[i]) /\ ~Own(new, IdsOf(sent[n]))
                BY <1>4, <1>5, <3>2, <4>1 DEF Own
            <4>3. \E j \in 1..Len(notifications') :
                      Shown(notifications', j, IdsOf(sent[n]), expected[n])
                BY <1>2, <1>3, <1>4, <3>1, <4>2, ShownKept
            <4>4. QED
                BY <2>2, <3>3, <4>3
        <3>4. CASE id \in IdsOf(sent[n])
            <4>1. Matches(new, notifications[i])
                <5>1. \E a \in IdsOf(sent[n]) : <<a, id>> \in Inside
                    BY <2>4, <3>4 DEF ToldApart
                <5>2. QED
                    BY <1>5, <3>2, <5>1
            <4>2. PICK k \in 1..Len(notifications) :
                      /\ Matches(new, notifications[k])
                      /\ \A j \in 1..Len(notifications) : Matches(new, notifications[j]) => k <= j
                      /\ notifications' = [notifications EXCEPT ![k].status = new.status]
                BY <1>2, <4>1, FirstMatchTakes
            <4>3. notifications[k].type = "numbers"
                <5>1. k <= i
                    BY <4>1, <4>2
                <5>2. notifications[k].type # "text"
                    BY <3>1, <5>1 DEF Shown
                <5>3. QED
                    BY <1>4, <4>2, <5>2 DEF Matches
            <4>4. PICK m \in Messages : Own(notifications[k], IdsOf(sent[m]))
                BY <1>1, <4>3 DEF NoticesAreAnswers
            <4>5. PICK a \in IdsOf(sent[m]) : <<a, id>> \in Inside
                BY <1>5, <4>2, <4>3, <4>4 DEF Own
            <4>6. m = n
                BY <1>1, <2>4, <3>4, <4>5, NoneTheSame
            <4>7. k = i
                BY <3>1, <4>4, <4>6 DEF Shown
            <4>8. Shown(notifications', i, IdsOf(sent[n]), status)
                BY <1>3, <1>4, <3>1, <4>2, <4>7, ShownAfterStatusSet
            <4>9. i \in 1..Len(notifications')
                BY <4>8 DEF Shown
            <4>10. QED
                BY <2>2, <3>4, <4>8, <4>9
        <3>5. QED
            BY <3>3, <3>4
    <2>5. QED
        BY <2>3, <2>4
<1>8. ExpectedAreShown'
    BY <1>2, <1>7, StillApart DEF ExpectedAreShown, Accepted
<1>9. IdsAreUnique'
    BY <1>1, <1>2 DEF IdsAreUnique
<1>10. expected' \in [Messages -> {"nothing", "Submitted"} \cup Final]
    BY <1>2 DEF ShowInv
<1>11. QED
    BY <1>1, <1>6, <1>8, <1>9, <1>10 DEF ShowInv

\* What is left of the notices stays in order.
LEMMA RemovalKeepsShowInv ==
    ASSUME ShowInv, RemoveAll \/ \E k \in 1..Len(notifications) : RemoveNotification(k)
    PROVE  ShowInv'
<1>1. OutInv' /\ Types /\ IdsAreUnique /\ NoticesAreAnswers /\ ExpectedAreShown
    BY RemovalKeepsOutInv DEF ShowInv, OutInv
<1>2. UNCHANGED <<call, sent>> /\ IdsAreUnique'
    BY <1>1 DEF RemoveAll, RemoveNotification, Forget, serverVars, IdsAreUnique
<1>3. expected' \in [Messages -> {"nothing", "Submitted"} \cup Final]
    BY DEF ShowInv, RemoveAll, RemoveNotification, Forget
<1>4. CASE RemoveAll
    <2>1. notifications' = <<>> /\ \A m \in Messages : expected'[m] = "nothing"
        BY <1>4 DEF RemoveAll, Forget
    <2>2. NoticesAreAnswers' /\ ExpectedAreShown'
        BY <2>1 DEF NoticesAreAnswers, ExpectedAreShown
    <2>3. QED
        BY <1>1, <1>2, <1>3, <2>2 DEF ShowInv
<1>5. ASSUME NEW k \in 1..Len(notifications), RemoveNotification(k)
      PROVE  ShowInv'
    <2> DEFINE kept == {notifications[j] : j \in (1..Len(notifications)) \ {k}}
    <2>1. /\ notifications' = RemoveAt(notifications, k)
          /\ expected' = [m \in Messages |->
                 IF \E notice \in kept : notice.type = "numbers" /\ notice.id = IdsOf(sent[m])
                 THEN expected[m] ELSE "nothing"]
        BY <1>5 DEF RemoveNotification, Forget
    <2>2. notifications \in Seq(Notice)
        BY <1>1 DEF Types
    <2>3. \A j \in 1..Len(notifications') :
              \E i \in 1..Len(notifications) : notifications'[j] = notifications[i]
        <3>1. \A j \in 1..Len(RemoveAt(notifications, k)) :
                  \E i \in 1..Len(notifications) :
                      i # k /\ RemoveAt(notifications, k)[j] = notifications[i]
            BY <2>2, RemoveAtSurvivors
        <3>2. QED
            BY <2>1, <3>1
    <2>4. NoticesAreAnswers'
        <3>1. SUFFICES ASSUME NEW j \in 1..Len(notifications'), notifications'[j].type = "numbers"
                       PROVE  \E m \in Messages : /\ call[m] = "done" /\ Accepted(m)
                                                  /\ Own(notifications'[j], IdsOf(sent[m]))
            BY <1>2 DEF NoticesAreAnswers, Accepted
        <3>2. PICK i \in 1..Len(notifications) : notifications'[j] = notifications[i]
            BY <2>3
        <3>3. QED
            BY <1>1, <3>1, <3>2 DEF NoticesAreAnswers
    <2>5. ASSUME NEW m \in Messages, expected'[m] # "nothing"
          PROVE  /\ call[m] = "done" /\ Accepted(m)
                 /\ ToldApart(m) => \E i \in 1..Len(notifications') :
                        Shown(notifications', i, IdsOf(sent[m]), expected'[m])
        <3>1. /\ expected'[m] = expected[m] /\ expected[m] # "nothing"
              /\ \E notice \in kept : Own(notice, IdsOf(sent[m]))
            BY <2>1, <2>5 DEF Own
        <3>2. PICK j \in (1..Len(notifications)) \ {k} : Own(notifications[j], IdsOf(sent[m]))
            BY <3>1
        <3>3. ASSUME ToldApart(m)
              PROVE  \E i \in 1..Len(notifications') :
                         Shown(notifications', i, IdsOf(sent[m]), expected[m])
            <4>1. PICK i \in 1..Len(notifications) :
                      Shown(notifications, i, IdsOf(sent[m]), expected[m])
                BY <1>1, <3>1, <3>3 DEF ExpectedAreShown
            <4>2. k # i
                BY <3>2, <4>1 DEF Shown
            <4>3. Shown(notifications', IF i < k THEN i ELSE i - 1, IdsOf(sent[m]), expected[m])
                BY <2>1, <2>2, <4>1, <4>2, ShownAfterRemoval
            <4>4. (IF i < k THEN i ELSE i - 1) \in 1..Len(notifications')
                BY <4>3 DEF Shown
            <4>5. QED
                BY <4>3, <4>4
        <3>4. call[m] = "done" /\ Accepted(m)
            BY <1>1, <3>1 DEF ExpectedAreShown
        <3>5. QED
            BY <3>1, <3>3, <3>4
    <2>6. ExpectedAreShown'
        BY <1>2, <2>5, StillApart DEF ExpectedAreShown, Accepted
    <2>7. QED
        BY <1>1, <1>2, <1>3, <2>4, <2>6 DEF ShowInv
<1>6. QED
    BY <1>4, <1>5

\* Whatever the texts of the ids: a message that can be told apart from all others given an
\* id so far, and that was answered while no receipt was on show as a notice of its own,
\* has one notice until the user removes it, and the notice shows the last receipt that has
\* come for it since (addNotification).
THEOREM LastReceiptIsShown == Spec => []LastReceiptShown
<1>1. Init => ShowInv
    <2> SUFFICES ASSUME Init PROVE ShowInv
        OBVIOUS
    <2>1. OutInv
        BY DEF Init, OutInit, OutInv, Types, AnswerHasParts
    <2>2. \A m \in Messages : sent[m] = <<>> /\ IdsOf(sent[m]) = {}
        BY DEF Init, OutInit, IdsOf
    <2>3. QED
        BY <2>1, <2>2 DEF Init, OutInit, ShowInv, IdsAreUnique, NoticesAreAnswers, ExpectedAreShown
<1>2. ShowInv /\ [Next]_vars => ShowInv'
    <2> SUFFICES ASSUME ShowInv, [Next]_vars PROVE ShowInv'
        OBVIOUS
    <2>1. CASE UNCHANGED outVars
        <3>1. OutInv'
            BY <2>1, InboxKeepsOutInv DEF ShowInv
        <3>2. QED
            <4> USE <2>1 DEF outVars, ShowInv
            <4>1. IdsAreUnique'
                BY DEF IdsAreUnique
            <4>2. NoticesAreAnswers' /\ ExpectedAreShown'
                BY StillApart DEF NoticesAreAnswers, ExpectedAreShown, Accepted
            <4>3. QED
                BY <3>1, <4>1, <4>2
    <2>2. CASE OutNext
        BY <2>2, ServerKeepsShowInv, ResponseKeepsShowInv, ReceiptKeepsShowInv,
           RemovalKeepsShowInv DEF OutNext
    <2>3. QED
        BY <2>1, <2>2 DEF Next, vars
<1>3. ShowInv => LastReceiptShown
    <2> SUFFICES ASSUME ShowInv, NEW m \in Messages, expected[m] # "nothing", ToldApart(m)
                 PROVE  LET own == {i \in 1..Len(notifications) :
                                        /\ notifications[i].type = "numbers"
                                        /\ notifications[i].id = IdsOf(sent[m])}
                        IN  /\ Cardinality(own) = 1
                            /\ \A i \in own : notifications[i].status = expected[m]
        BY DEF LastReceiptShown
    <2>1. PICK i \in 1..Len(notifications) : Shown(notifications, i, IdsOf(sent[m]), expected[m])
        BY DEF ShowInv, ExpectedAreShown
    <2> DEFINE own == {j \in 1..Len(notifications) : /\ notifications[j].type = "numbers"
                                                    /\ notifications[j].id = IdsOf(sent[m])}
    <2>2. own = {i} /\ notifications[i].status = expected[m]
        BY <2>1 DEF Shown, Own
    <2> HIDE DEF own
    <2>3. Cardinality(own) = 1
        BY <2>2, FS_Singleton
    <2>4. QED
        BY <2>2, <2>3 DEF own
<1>4. QED
    BY <1>1, <1>2, <1>3, PTL DEF Spec

\* The list arrives before the first message is added, and never a second time.
OneList ==
    /\ defined => inboxPromise = "resolved"
    /\ requests # {} => inboxPromise = "pending"
    /\ ~defined => messages = {}

\* What the inbox has shown it goes on showing, whenever its list and the messages pushed
\* to it arrive (getMessages, onMessageReceived).
THEOREM InboxKeepsMessages == Spec => NothingVanishes
<1>1. Init => OneList
    BY DEF Init, InInit, OneList
<1>2. OneList /\ [Next]_vars => OneList'
    BY DEF OneList, Next, vars, inVars, InNext, GetMessages, Loaded, LoadFails, MessageReceived
<1>3. OneList /\ [Next]_vars => [messages \subseteq messages']_inVars
    BY DEF OneList, Next, vars, inVars, InNext, GetMessages, Loaded, LoadFails, MessageReceived
<1>4. QED
    BY <1>1, <1>2, <1>3, PTL DEF Spec, NothingVanishes

(***************************************************************************)
(* The types, and the shape of an answer while it is put together.         *)
(***************************************************************************)

\* A notice from a receipt is about one id, one about a refused message about none.
WellTyped(notice) ==
    /\ notice \in Notice
    /\ notice.type = "text" => Cardinality(notice.id) = 1
    /\ notice.type = "random" => notice.id = {}

\* A message that is being sent has parts to go; the server does not answer twice.
PartsToGo ==
    \A m \in Messages :
        /\ call[m] = "new" => sent[m] = <<>> /\ parts[m] = 0
        /\ call[m] = "sending" => Len(sent[m]) < parts[m]
        /\ call[m] = "answered" => Len(sent[m]) > 0
        /\ Len(sent[m]) <= IF parts[m] = 0 THEN 1 ELSE parts[m]

TypeInv ==
    /\ Types /\ InTypeOK /\ OneList
    /\ parts \in [Messages -> 0..MaxParts]
    /\ receipts \in 0..MaxReceipts
    /\ expected \in [Messages -> {"nothing", "Submitted"} \cup Final]
    /\ PartsToGo
    /\ \A i \in 1..Len(notifications) : WellTyped(notifications[i])

LEMMA NoticesStayWellTyped ==
    ASSUME notifications \in Seq(Notice),
           \A i \in 1..Len(notifications) : WellTyped(notifications[i]),
           NEW new, WellTyped(new), AddNotification(new)
    PROVE  /\ notifications' \in Seq(Notice)
           /\ \A i \in 1..Len(notifications') : WellTyped(notifications'[i])
<1>1. new \in Notice /\ new.status \in Statuses
    BY DEF WellTyped, Notice
<1>2. ASSUME NEW old \in Notice, WellTyped(old)
      PROVE  WellTyped([old EXCEPT !.status = new.status])
    BY <1>1, <1>2, StatusTaken DEF WellTyped
<1>3. /\ notifications' \in Seq(Notice)
      /\ \A i \in 1..Len(notifications') :
             \/ i \in 1..Len(notifications) /\ notifications'[i] = notifications[i]
             \/ notifications'[i] = new
             \/ /\ i \in 1..Len(notifications)
                /\ notifications'[i] = [notifications[i] EXCEPT !.status = new.status]
    BY <1>1, NoticeAdded
<1>4. ASSUME NEW i \in 1..Len(notifications')
      PROVE  WellTyped(notifications'[i])
    <2>1. CASE i \in 1..Len(notifications) /\ notifications'[i] = notifications[i]
        BY <2>1
    <2>2. CASE notifications'[i] = new
        BY <2>2
    <2>3. CASE /\ i \in 1..Len(notifications)
               /\ notifications'[i] = [notifications[i] EXCEPT !.status = new.status]
        <3>1. notifications[i] \in Notice /\ WellTyped(notifications[i])
            BY <2>3
        <3>2. QED
            BY <1>2, <2>3, <3>1
    <2>4. QED
        BY <1>3, <2>1, <2>2, <2>3
<1>5. QED
    BY <1>3, <1>4

LEMMA ServerKeepsTypeInv ==
    ASSUME TypeInv, NEW m \in Messages, SendMessage(m) \/ SendPart(m) \/ SendFails(m),
           UNCHANGED inVars
    PROVE  TypeInv'
<1>1. UNCHANGED <<receipts, notifications, expected, inboxPromise, requests, messages, defined, arrived>>
    BY DEF SendMessage, SendPart, SendFails, inVars
<1>2. /\ call \in [Messages -> {"new", "sending", "answered", "done", "failed"}]
      /\ sent \in [Messages -> Seq(Result)] /\ parts \in [Messages -> 0..MaxParts] /\ PartsToGo
      /\ MaxParts \in Nat
    BY PartsAssumption DEF TypeInv, Types
<1>3. /\ call' \in [Messages -> {"new", "sending", "answered", "done", "failed"}]
      /\ sent' \in [Messages -> Seq(Result)] /\ parts' \in [Messages -> 0..MaxParts]
      /\ PartsToGo'
    <2>1. CASE SendMessage(m)
        <3> DEFINE failed == <<[id |-> {}, code |-> "Failed"]>>
        <3>1. failed \in Seq(Result) /\ Len(failed) = 1
            BY Refusals DEF Failures
        <3> HIDE DEF failed
        <3>2. CASE /\ call' = [call EXCEPT ![m] = "sending"] /\ UNCHANGED sent
                   /\ \E n \in 1..MaxParts : parts' = [parts EXCEPT ![m] = n]
            <4>1. PICK n \in 1..MaxParts : parts' = [parts EXCEPT ![m] = n]
                BY <3>2
            <4>2. /\ sent'[m] = <<>> /\ Len(<<>>) = 0 /\ call'[m] = "sending" /\ parts'[m] = n
                  /\ n \in 0..MaxParts /\ n > 0
                BY <1>2, <2>1, <3>2, <4>1 DEF SendMessage, PartsToGo
            <4>3. \A o \in Messages \ {m} :
                      call'[o] = call[o] /\ sent'[o] = sent[o] /\ parts'[o] = parts[o]
                BY <1>2, <3>2, <4>1
            <4>4. PartsToGo'
                BY <1>2, <4>2, <4>3 DEF PartsToGo
            <4>5. QED
                BY <1>2, <3>2, <4>1, <4>2, <4>4
        <3>3. CASE /\ call' = [call EXCEPT ![m] = "answered"] /\ UNCHANGED parts
                   /\ sent' = [sent EXCEPT ![m] = failed]
            <4>1. /\ sent'[m] = failed /\ call'[m] = "answered" /\ parts'[m] = 0
                  /\ sent' \in [Messages -> Seq(Result)]
                BY <1>2, <2>1, <3>1, <3>3 DEF SendMessage, PartsToGo
            <4>2. \A o \in Messages \ {m} :
                      call'[o] = call[o] /\ sent'[o] = sent[o] /\ parts'[o] = parts[o]
                BY <1>2, <3>3
            <4>3. PartsToGo'
                <5>1. Len(sent'[m]) = 1
                    BY <3>1, <4>1
                <5>2. ASSUME NEW o \in Messages
                      PROVE  /\ call'[o] = "new" => sent'[o] = <<>> /\ parts'[o] = 0
                             /\ call'[o] = "sending" => Len(sent'[o]) < parts'[o]
                             /\ call'[o] = "answered" => Len(sent'[o]) > 0
                             /\ Len(sent'[o]) <= IF parts'[o] = 0 THEN 1 ELSE parts'[o]
                    <6>1. CASE o = m
                        <7>1. call'[o] = "answered" /\ parts'[o] = 0 /\ Len(sent'[o]) = 1
                            BY <4>1, <5>1, <6>1
                        <7>2. QED
                            BY <7>1
                    <6>2. CASE o # m
                        BY <1>2, <4>2, <6>2 DEF PartsToGo
                    <6>3. QED
                        BY <6>1, <6>2
                <5>3. QED
                    BY <5>2 DEF PartsToGo
            <4>4. QED
                BY <1>2, <3>3, <4>1, <4>3
        <3>4. QED
            BY <2>1, <3>2, <3>3 DEF SendMessage, failed
    <2>2. CASE SendPart(m)
        <3>1. PICK result \in [id : {{id} : id \in Ids \ Given}, code : {"ESME_ROK"}]
                              \cup {[id |-> {}, code |-> "ESME_RSUBMITFAIL"]} :
                  sent' = [sent EXCEPT ![m] = Append(sent[m], result)]
            BY <2>2 DEF SendPart
        <3>2. result \in Result
            BY DEF Result, Failures
        <3> DEFINE longer == Append(sent[m], result)
        <3>3. longer \in Seq(Result) /\ Len(longer) = Len(sent[m]) + 1 /\ Len(sent[m]) \in Nat
            BY <1>2, <3>2
        <3>4. /\ Len(sent[m]) < parts[m] /\ parts[m] \in Nat /\ UNCHANGED parts
              /\ call' = [call EXCEPT ![m] = IF Len(sent[m]) + 1 = parts[m]
                                             THEN "answered" ELSE "sending"]
            BY <1>2, <2>2 DEF SendPart, PartsToGo
        <3> HIDE DEF longer
        <3>5. /\ sent' \in [Messages -> Seq(Result)] /\ sent'[m] = longer
              /\ call' \in [Messages -> {"new", "sending", "answered", "done", "failed"}]
              /\ call'[m] = IF Len(longer) = parts[m] THEN "answered" ELSE "sending"
              /\ \A n \in Messages \ {m} : sent'[n] = sent[n] /\ call'[n] = call[n]
            BY <1>2, <3>1, <3>3, <3>4 DEF longer
        <3>6. ASSUME NEW n \in Messages
              PROVE  /\ call'[n] = "new" => sent'[n] = <<>> /\ parts'[n] = 0
                     /\ call'[n] = "sending" => Len(sent'[n]) < parts'[n]
                     /\ call'[n] = "answered" => Len(sent'[n]) > 0
                     /\ Len(sent'[n]) <= IF parts'[n] = 0 THEN 1 ELSE parts'[n]
            <4>1. CASE n = m
                BY <3>3, <3>4, <3>5, <4>1
            <4>2. CASE n # m
                BY <1>2, <3>4, <3>5, <4>2 DEF PartsToGo
            <4>3. QED
                BY <4>1, <4>2
        <3>7. QED
            BY <1>2, <3>4, <3>5, <3>6 DEF PartsToGo
    <2>3. CASE SendFails(m)
        BY <1>2, <2>3 DEF SendFails, PartsToGo
    <2>4. QED
        BY <2>1, <2>2, <2>3
<1>4. QED
    BY <1>1, <1>3 DEF TypeInv, Types, InTypeOK, OneList

LEMMA ResponseKeepsTypeInv ==
    ASSUME TypeInv, NEW m \in Messages, Response(m), UNCHANGED inVars
    PROVE  TypeInv'
<1> DEFINE new == IF sent[m][1].code = "ESME_ROK"
                  THEN [type |-> "numbers", id |-> IdsOf(sent[m]), status |-> "Submitted"]
                  ELSE [type |-> "random", id |-> {}, status |-> sent[m][1].code]
<1>1. /\ AddNotification(new) /\ call[m] = "answered" /\ call' = [call EXCEPT ![m] = "done"]
      /\ UNCHANGED <<parts, sent, receipts, inboxPromise, requests, messages, defined, arrived>>
      /\ expected' = [expected EXCEPT ![m] = "Submitted"] \/ UNCHANGED expected
    BY DEF Response, inVars
<1>2. Types /\ PartsToGo
    BY DEF TypeInv
<1>3. sent[m] \in Seq(Result) /\ sent[m][1] \in Result
    BY <1>1, <1>2 DEF Types, PartsToGo
<1>4. WellTyped(new)
    <2>1. IdsOf(sent[m]) \in SUBSET Ids
        BY <1>3, IdsOfParts
    <2>2. sent[m][1].code \in {"ESME_ROK"} \cup Failures
        BY <1>3 DEF Result
    <2>3. CASE sent[m][1].code = "ESME_ROK"
        BY <2>1, <2>3 DEF WellTyped, Notice, Statuses
    <2>4. CASE sent[m][1].code \in Failures
        BY <2>4 DEF WellTyped, Notice, Statuses, Failures
    <2>5. QED
        BY <2>2, <2>3, <2>4
<1> HIDE DEF new
<1>5. /\ notifications' \in Seq(Notice)
      /\ \A i \in 1..Len(notifications') : WellTyped(notifications'[i])
    BY <1>1, <1>4, NoticesStayWellTyped DEF TypeInv, Types
<1>6. expected' \in [Messages -> {"nothing", "Submitted"} \cup Final]
    BY <1>1 DEF TypeInv
<1>7. QED
    BY <1>1, <1>5, <1>6 DEF TypeInv, Types, PartsToGo, InTypeOK, OneList

LEMMA ReceiptKeepsTypeInv ==
    ASSUME TypeInv, NEW id \in Ids, NEW status \in Final, MessageDelivered(id, status),
           UNCHANGED inVars
    PROVE  TypeInv'
<1> DEFINE new == [type |-> "text", id |-> {id}, status |-> status]
<1>1. /\ AddNotification(new)
      /\ UNCHANGED <<call, parts, sent, inboxPromise, requests, messages, defined, arrived>>
      /\ receipts < MaxReceipts /\ receipts' = receipts + 1
      /\ expected' = [m \in Messages |->
             IF id \in IdsOf(sent[m]) /\ expected[m] # "nothing" THEN status ELSE expected[m]]
    BY DEF MessageDelivered, inVars, serverVars
<1>2. WellTyped(new)
    <2>1. Cardinality({id}) = 1
        BY FS_Singleton
    <2>2. QED
        BY <2>1 DEF WellTyped, Notice, Statuses
<1> HIDE DEF new
<1>3. /\ notifications' \in Seq(Notice)
      /\ \A i \in 1..Len(notifications') : WellTyped(notifications'[i])
    BY <1>1, <1>2, NoticesStayWellTyped DEF TypeInv, Types
<1>4. expected' \in [Messages -> {"nothing", "Submitted"} \cup Final]
    BY <1>1 DEF TypeInv
<1>5. receipts' \in 0..MaxReceipts
    BY <1>1, PartsAssumption DEF TypeInv
<1>6. QED
    BY <1>1, <1>3, <1>4, <1>5 DEF TypeInv, Types, PartsToGo, InTypeOK, OneList

LEMMA RemovalKeepsTypeInv ==
    ASSUME TypeInv, RemoveAll \/ \E i \in 1..Len(notifications) : RemoveNotification(i),
           UNCHANGED inVars
    PROVE  TypeInv'
<1>1. UNCHANGED <<call, parts, sent, receipts, inboxPromise, requests, messages, defined, arrived>>
    BY DEF RemoveAll, RemoveNotification, Forget, serverVars, inVars
<1>2. expected' \in [Messages -> {"nothing", "Submitted"} \cup Final]
    BY DEF RemoveAll, RemoveNotification, Forget, TypeInv
<1>3. notifications \in Seq(Notice)
    BY DEF TypeInv, Types
<1>4. /\ notifications' \in Seq(Notice)
      /\ \A j \in 1..Len(notifications') :
             \E k \in 1..Len(notifications) : notifications'[j] = notifications[k]
    <2>1. CASE RemoveAll
        BY <2>1 DEF RemoveAll
    <2>2. ASSUME NEW i \in 1..Len(notifications), notifications' = RemoveAt(notifications, i)
          PROVE  <1>4!1 /\ <1>4!2
        BY <1>3, <2>2, RemoveAtElements, RemoveAtSurvivors
    <2>3. QED
        BY <2>1, <2>2 DEF RemoveNotification
<1>5. \A j \in 1..Len(notifications') : WellTyped(notifications'[j])
    BY <1>4 DEF TypeInv
<1>6. QED
    BY <1>1, <1>2, <1>4, <1>5 DEF TypeInv, Types, PartsToGo, InTypeOK, OneList

LEMMA InboxKeepsTypeInv ==
    ASSUME TypeInv, UNCHANGED outVars, InNext \/ UNCHANGED inVars
    PROVE  TypeInv'
<1>1. Types' /\ parts' \in [Messages -> 0..MaxParts] /\ PartsToGo'
    BY DEF TypeInv, Types, PartsToGo, outVars
<1>2. expected' \in [Messages -> {"nothing", "Submitted"} \cup Final]
    BY DEF TypeInv, outVars
<1>3. \A i \in 1..Len(notifications') : WellTyped(notifications'[i])
    BY DEF TypeInv, outVars
<1>4. InTypeOK' /\ OneList'
    BY DEF TypeInv, InTypeOK, OneList, InNext, inVars, GetMessages, Loaded, LoadFails, MessageReceived
<1>5. receipts' \in 0..MaxReceipts
    BY DEF TypeInv, outVars
<1>6. QED
    BY <1>1, <1>2, <1>3, <1>4, <1>5 DEF TypeInv

\* The types of what the page and the server know of each other: a message never gets more
\* results than parts, also when its call fails half-way; a notice from a receipt is about
\* one id; and the list of the inbox is defined when its promise is resolved.
THEOREM BrowserTypes == Spec => []TypeOK
<1>1. Init => TypeInv
    <2> SUFFICES ASSUME OutInit, InInit PROVE TypeInv
        BY DEF Init
    <2>1. Types
        BY DEF OutInit, Types
    <2>2. /\ PartsToGo /\ parts \in [Messages -> 0..MaxParts]
          /\ expected \in [Messages -> {"nothing", "Submitted"} \cup Final]
          /\ \A i \in 1..Len(notifications) : WellTyped(notifications[i])
          /\ receipts \in 0..MaxReceipts
        BY PartsAssumption DEF OutInit, PartsToGo
    <2>3. InTypeOK /\ OneList
        BY DEF InInit, InTypeOK, OneList
    <2>4. QED
        BY <2>1, <2>2, <2>3 DEF TypeInv
<1>2. TypeInv /\ [Next]_vars => TypeInv'
    <2> SUFFICES ASSUME TypeInv, [Next]_vars PROVE TypeInv'
        OBVIOUS
    <2>1. CASE UNCHANGED outVars /\ (InNext \/ UNCHANGED inVars)
        BY <2>1, InboxKeepsTypeInv
    <2>2. CASE OutNext /\ UNCHANGED inVars
        BY <2>2, ServerKeepsTypeInv, ResponseKeepsTypeInv, ReceiptKeepsTypeInv, RemovalKeepsTypeInv
           DEF OutNext
    <2>3. QED
        BY <2>1, <2>2 DEF Next, vars
<1>3. TypeInv => TypeOK
    <2> SUFFICES ASSUME TypeInv PROVE OutTypeOK /\ InTypeOK
        BY DEF TypeOK
    <2>1. sent \in [Messages -> Seq([id : SUBSET Ids, code : {"ESME_ROK"} \cup Failures])]
        BY DEF TypeInv, Types, Result
    <2>2. \A m \in Messages : Len(sent[m]) <= IF parts[m] = 0 THEN 1 ELSE parts[m]
        BY DEF TypeInv, PartsToGo
    <2>3. \A i \in 1..Len(notifications) :
              /\ notifications[i].type = "text" => Cardinality(notifications[i].id) = 1
              /\ notifications[i].type = "random" => notifications[i].id = {}
        BY DEF TypeInv, WellTyped
    <2>4. QED
        BY <2>1, <2>2, <2>3 DEF TypeInv, Types, OutTypeOK
<1>4. QED
    BY <1>1, <1>2, <1>3, PTL DEF Spec
=============================================================================
