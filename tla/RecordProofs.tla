---------------------------- MODULE RecordProofs ----------------------------
(***************************************************************************)
(* The pages of records and reports, for any vehicles, messages, rows,     *)
(* versions and answers: voice messages, the logbook and its fill-ups, the *)
(* caches of the service worker, the report, its schedules and the runtime *)
(* logs.  Each has an inductive invariant of its own, with what is under   *)
(* way and what an answer may carry; ManagementProofs puts them together.  *)
(***************************************************************************)
EXTENDS VoiceMessages, Logbook, ServiceWorker, ReportView, ScheduleTab, RuntimeLogs,
        SequenceLemmas

-----------------------------------------------------------------------------
(* Voice messages. *)
VoiceEvent == {<<"transmitting">>, <<"chunk">>, <<"done">>, <<"read_all">>} \cup {<<"read", id>> : id \in Voices}
VoicePages == 1..(MaxVoice + 1)
VoiceAnswer == [items : SUBSET Voices, read : SUBSET Voices, pages : 0..(MaxVoice + 1)]
VoiceLoad == [page : VoicePages, then : {"mark", "nothing"}, live : SUBSET Voices, before : SUBSET Voices,
              answer : VoiceAnswer]
\* What an answer may hold: at most a page, of which some are read.
AnswerFits(answer) ==
    answer.read \subseteq answer.items /\ Cardinality(answer.items) <= VoicePageSize /\ answer.pages \in VoicePages

VoiceMessagesInv ==
    /\ VoiceMessagesTypeOK /\ BadgeAgreesWithRows
    /\ voiceCount \in 0..MaxVoice /\ storing \in BOOLEAN /\ (storing => voiceCount < MaxVoice)
    /\ voiceWire \in Seq(VoiceEvent) /\ marks \subseteq Voices /\ histPages \in VoicePages
    /\ voiceLoads \subseteq VoiceLoad /\ \A l \in voiceLoads : l.answer # Unanswered => AnswerFits(l.answer)

\* No message is there at first.
LEMMA VoiceMessagesInvInit == VoiceMessagesInit => VoiceMessagesInv
<1> SUFFICES ASSUME VoiceMessagesInit PROVE VoiceMessagesInv
  OBVIOUS
<1>1. Cardinality({}) = 0
  BY FS_EmptySet
<1>2. storing \in BOOLEAN
  BY Zenon DEF VoiceMessagesInit
<1>3. <<>> \in Seq(VoiceEvent) /\ Len(<<>>) = 0
  BY EmptySeq
<1> QED
  BY <1>1, <1>2, <1>3, VoiceAssumption
  DEF VoiceMessagesInit, VoiceMessagesInv, VoiceMessagesTypeOK, BadgeAgreesWithRows, UnreadRows, VoicePages

\* A page holds no more than its size: as many messages come after each of its messages as the
\* page has places.
LEMMA PageFits ==
    ASSUME NEW p \in Nat \ {0}, voiceStored \subseteq Voices
    PROVE  PageAt(p) \subseteq Voices /\ Cardinality(PageAt(p)) <= VoicePageSize
<1> USE VoiceAssumption
<1> DEFINE After(id) == {x \in voiceStored : x > id}
           count == [id \in PageAt(p) |-> Cardinality(After(id))]
           from == (p - 1) * VoicePageSize
           Places == from..(from + VoicePageSize - 1)
<1>1. IsFiniteSet(Voices) /\ \A id \in Voices : id \in Nat
  BY FS_Interval DEF Voices
<1>2. IsFiniteSet(voiceStored)
  BY <1>1, FS_Subset
<1>3. from \in Nat
  OBVIOUS
<1>4. ASSUME NEW id \in voiceStored PROVE IsFiniteSet(After(id)) /\ Cardinality(After(id)) \in Nat
  BY <1>2, FS_Subset, FS_CardinalityType
<1>5. ASSUME NEW id \in PageAt(p) PROVE count[id] \in Places
  <2> DEFINE c == Cardinality(After(id))
  <2>1. c \in Nat /\ c \div VoicePageSize = p - 1
    BY <1>4, <1>5 DEF PageAt
  <2> HIDE DEF c
  <2>2. (c \div VoicePageSize) * VoicePageSize <= c /\ c < (c \div VoicePageSize) * VoicePageSize + VoicePageSize
    BY <2>1, DivisionIs
  <2>3. from <= c /\ c < from + VoicePageSize
    BY <2>1, <2>2
  <2> HIDE DEF from
  <2>4. c \in Places
    BY <1>3, <2>1, <2>3
  <2> QED
    BY <1>5, <2>4 DEF c
<1>6. ASSUME NEW a \in PageAt(p), NEW b \in PageAt(p), a < b PROVE Cardinality(After(b)) < Cardinality(After(a))
  <2>1. a \in voiceStored /\ b \in voiceStored /\ a \in Nat /\ b \in Nat
    BY <1>1 DEF PageAt
  <2>2. After(b) \subseteq After(a) /\ b \in After(a) /\ b \notin After(b)
    <3>1. \A x \in voiceStored : x \in Nat
      BY <1>1
    <3>2. ASSUME NEW x \in After(b) PROVE x \in After(a)
      <4>1. x \in voiceStored /\ x > b /\ x \in Nat
        BY <3>1
      <4>2. x > a
        BY <1>6, <2>1, <4>1
      <4> QED
        BY <4>1, <4>2
    <3>3. b > a /\ ~(b > b)
      BY <1>6, <2>1
    <3> QED
      BY <2>1, <3>2, <3>3
  <2>3. After(b) # After(a)
    BY <2>2
  <2> HIDE DEF After
  <2>4. Cardinality(After(b)) <= Cardinality(After(a)) /\ (Cardinality(After(a)) = Cardinality(After(b)) => After(a) = After(b))
    BY <1>4, <2>1, <2>2, FS_Subset
  <2> QED
    BY <1>4, <2>1, <2>3, <2>4
<1>7. count \in Injection(PageAt(p), Places)
  <2>1. ASSUME NEW a \in PageAt(p), NEW b \in PageAt(p), count[a] = count[b] PROVE a = b
    <3>1. a \in Nat /\ b \in Nat /\ a \in voiceStored /\ b \in voiceStored
      BY <1>1 DEF PageAt
    <3>2. Cardinality(After(a)) = Cardinality(After(b)) /\ Cardinality(After(a)) \in Nat
      BY <1>4, <2>1, <3>1
    <3> HIDE DEF After, count
    <3>3. ~(a < b) /\ ~(b < a)
      BY <1>4, <1>6, <3>1, <3>2
    <3> QED
      BY <3>1, <3>3
  <2>2. count \in [PageAt(p) -> Places]
    <3>1. \A id \in PageAt(p) : Cardinality(After(id)) \in Places
      BY <1>5
    <3> HIDE DEF After, Places
    <3> QED
      BY <3>1
  <2> HIDE DEF count, Places
  <2> QED
    BY <2>1, <2>2 DEF Injection, IsInjective
<1>8. IsFiniteSet(Places) /\ Cardinality(Places) = VoicePageSize
  <2> HIDE DEF from
  <2>1. from \in Int /\ from + VoicePageSize - 1 \in Int /\ from <= from + VoicePageSize - 1
    BY <1>3
  <2>2. /\ IsFiniteSet(Places)
        /\ Cardinality(Places) = IF from > from + VoicePageSize - 1 THEN 0 ELSE (from + VoicePageSize - 1) - from + 1
    BY <2>1, FS_Interval
  <2> HIDE DEF Places
  <2> QED
    BY <1>3, <2>1, <2>2
<1> HIDE DEF count, Places
<1>9. Cardinality(PageAt(p)) <= Cardinality(Places)
  BY <1>7, <1>8, FS_Injection
<1> QED
  BY <1>8, <1>9 DEF PageAt

\* There are as many pages as the messages fill.
LEMMA PagesFit == ASSUME voiceStored \subseteq Voices PROVE PagesOf \in VoicePages
<1> USE VoiceAssumption DEF VoicePages
<1> DEFINE c == Cardinality(voiceStored)
<1>1. CASE voiceStored = {}
  BY <1>1 DEF PagesOf
<1>2. CASE voiceStored # {}
  <2>1. IsFiniteSet(Voices) /\ Cardinality(Voices) = MaxVoice
    BY FS_Interval DEF Voices
  <2>2. IsFiniteSet(voiceStored) /\ c \in Nat /\ c <= MaxVoice
    BY <2>1, FS_Subset, FS_CardinalityType
  <2>3. c >= 1
    BY <1>2, <2>2, FS_EmptySet
  <2> HIDE DEF c
  <2> DEFINE a == c + VoicePageSize - 1
             q == a \div VoicePageSize
  <2>4. a \in Nat /\ a >= VoicePageSize
    BY <2>2, <2>3
  <2>5. q \in Nat /\ q * VoicePageSize <= a /\ q >= 1
    <3> HIDE DEF a
    <3> QED
      BY <2>4, DivisionIs
  <2>6. PagesOf = q
    BY <1>2 DEF PagesOf, c
  <2> HIDE DEF q
  <2>7. q <= c
    <3>1. SUFFICES ASSUME q >= c + 1 PROVE FALSE
      BY <2>2, <2>5
    <3>2. q * VoicePageSize >= (c + 1) * VoicePageSize
      BY <2>2, <2>5, <3>1
    <3>3. (c + 1) * VoicePageSize = c * VoicePageSize + VoicePageSize /\ c * VoicePageSize >= c
      BY <2>2
    <3> QED
      BY <2>2, <2>5, <3>2, <3>3
  <2> QED
    BY <2>2, <2>5, <2>6, <2>7
<1> QED
  BY <1>1, <1>2

\* What is told goes to the end of the wire, or is lost.
LEMMA ToldWell ==
    ASSUME VoiceMessagesInv, NEW event \in VoiceEvent, CanTell, Told(event)
    PROVE  voiceWire' \in Seq(VoiceEvent) /\ Len(voiceWire') <= MaxVoiceWire
<1> USE VoiceAssumption DEF VoiceMessagesInv, VoiceMessagesTypeOK, CanTell
<1> HIDE DEF VoiceEvent
<1>1. Append(voiceWire, event) \in Seq(VoiceEvent) /\ Len(Append(voiceWire, event)) = Len(voiceWire) + 1
  BY AppendProperties
<1>2. Len(voiceWire) \in Nat
  BY LenProperties
<1>3. Len(Append(voiceWire, event)) <= MaxVoiceWire
  BY <1>1, <1>2
<1> QED
  BY <1>1, <1>3 DEF Told

\* A request for a page is one of those that may be under way.
LEMMA AskingWell ==
    ASSUME VoiceMessagesInv, NEW p \in VoicePages, NEW then \in {"mark", "nothing"}, NEW live \in SUBSET Voices,
           NEW before \in SUBSET Voices
    PROVE  LoadMessages(p, then, live, before) \in VoiceLoad /\ LoadMessages(p, then, live, before).answer = Unanswered
<1>1. Unanswered \in VoiceAnswer
  BY VoiceAssumption DEF Unanswered, VoiceAnswer
<1> QED
  BY <1>1 DEF LoadMessages, VoiceLoad

\* Every step of the voice messages keeps the invariant.
LEMMA VoiceMessagesStep == ASSUME VoiceMessagesInv, VoiceMessagesNext PROVE VoiceMessagesInv'
<1> USE VoiceAssumption DEF VoiceMessagesInv, VoiceMessagesTypeOK
<1>a. /\ IsFiniteSet(messages) /\ Cardinality(messages) \in Nat /\ Cardinality({}) = 0
      /\ \A id \in Voices : id \in 1..MaxVoice
  <2>1. IsFiniteSet(Voices)
    BY FS_Interval DEF Voices
  <2>2. IsFiniteSet(messages)
    BY <2>1, FS_Subset
  <2> QED
    BY <2>2, FS_CardinalityType, FS_EmptySet DEF Voices
<1>b. \A id \in Voices : <<"read", id>> \in VoiceEvent
  BY DEF VoiceEvent
<1>1. ASSUME NEW event \in {"transmitting", "chunk", "done"}, Transmits(event) PROVE VoiceMessagesInv'
  <2>1. <<event>> \in VoiceEvent
    BY DEF VoiceEvent
  <2>2. voiceWire' \in Seq(VoiceEvent) /\ Len(voiceWire') <= MaxVoiceWire
    BY <1>1, <2>1, ToldWell DEF Transmits
  <2>3. storing' \in BOOLEAN
    <3>1. (event = "done") \in BOOLEAN
      OBVIOUS
    <3>2. storing' = (event = "done")
      BY <1>1 DEF Transmits
    <3> QED
      BY <3>1, <3>2, Zenon
  <2> HIDE DEF VoiceEvent
  <2> QED
    BY <1>1, <2>2, <2>3 DEF Transmits, listVoice, pageVoice, BadgeAgreesWithRows, UnreadRows
<1>2. CASE MessageStored
  <2>1. storing' \in BOOLEAN /\ ~storing'
    BY <1>2, Zenon DEF MessageStored
  <2>2. voiceCount' \in 0..MaxVoice /\ voiceCount' \in Voices
    BY <1>2 DEF MessageStored, Voices
  <2> QED
    BY <1>2, <2>1, <2>2 DEF MessageStored, socketVoice, listVoice, pageVoice, BadgeAgreesWithRows, UnreadRows
<1>3. CASE AllMarkedElsewhere
  <2>1. <<"read_all">> \in VoiceEvent
    BY DEF VoiceEvent
  <2>2. voiceWire' \in Seq(VoiceEvent) /\ Len(voiceWire') <= MaxVoiceWire
    BY <1>3, <2>1, ToldWell DEF AllMarkedElsewhere
  <2> HIDE DEF VoiceEvent
  <2> QED
    BY <1>3, <2>2 DEF AllMarkedElsewhere, listVoice, pageVoice, BadgeAgreesWithRows, UnreadRows
<1>4. CASE OpenVoiceModal
  <2> DEFINE l == LoadMessages(1, "nothing", {}, {})
  <2>1. l \in VoiceLoad /\ l.answer = Unanswered
    BY AskingWell DEF VoicePages
  <2>2. voiceLoads' = voiceLoads \cup {l}
    BY <1>4 DEF OpenVoiceModal, Asking
  <2> HIDE DEF l
  <2> QED
    BY <1>4, <2>1, <2>2 DEF OpenVoiceModal, serverVoice, socketVoice, listVoice, BadgeAgreesWithRows, UnreadRows
<1>5. ASSUME NEW l \in voiceLoads, PageServed(l) PROVE VoiceMessagesInv'
  <2> DEFINE items == PageAt(l.page)
             answer == [items |-> items, read |-> voiceRead \cap items, pages |-> PagesOf]
             m == [l EXCEPT !.answer = answer]
  <2>1. l.page \in Nat \ {0} /\ l \in VoiceLoad
    BY DEF VoiceLoad, VoicePages
  <2>2. items \subseteq Voices /\ Cardinality(items) <= VoicePageSize /\ PagesOf \in VoicePages
    BY <2>1, PageFits, PagesFit
  <2> HIDE DEF items
  <2>3. answer \in VoiceAnswer /\ AnswerFits(answer)
    <3>1. PagesOf \in 0..(MaxVoice + 1)
      BY <2>2 DEF VoicePages
    <3> QED
      BY <2>2, <3>1 DEF VoiceAnswer, AnswerFits
  <2> HIDE DEF answer
  <2>4. m \in VoiceLoad /\ m.answer = answer
    BY <2>1, <2>3 DEF VoiceLoad
  <2>5. voiceLoads' = (voiceLoads \ {l}) \cup {m}
    BY <1>5 DEF PageServed, answer, items
  <2> HIDE DEF m
  <2> QED
    BY <1>5, <2>3, <2>4, <2>5 DEF PageServed, serverVoice, socketVoice, listVoice, BadgeAgreesWithRows, UnreadRows
<1>6. ASSUME NEW l \in voiceLoads, PageArrives(l) PROVE VoiceMessagesInv'
  <2> DEFINE fresh == l.answer.items \ l.before
             m == LoadMessages(histPage, "nothing", fresh, {})
  <2>1. l \in VoiceLoad /\ AnswerFits(l.answer) /\ l.answer \in VoiceAnswer
    BY <1>6 DEF PageArrives, VoiceLoad
  <2>2. /\ l.answer.items \subseteq Voices /\ l.answer.read \subseteq l.answer.items /\ l.live \subseteq Voices
        /\ Cardinality(l.answer.items) <= VoicePageSize /\ l.answer.pages \in VoicePages
    BY <2>1 DEF VoiceLoad, VoiceAnswer, AnswerFits
  <2>3. fresh \subseteq Voices /\ histPage \in VoicePages
    BY <2>2 DEF VoicePages
  <2> HIDE DEF fresh
  <2>4. m \in VoiceLoad /\ m.answer = Unanswered
    BY <2>3, AskingWell
  <2> HIDE DEF m
  <2>5. voiceLoads' \subseteq voiceLoads \cup {m}
    BY <1>6 DEF PageArrives, fresh, m
  <2>6. voiceLoads' \subseteq VoiceLoad /\ \A k \in voiceLoads' : k.answer # Unanswered => AnswerFits(k.answer)
    BY <2>4, <2>5
  <2>7. /\ messages' = l.answer.items /\ messagesRead' = ReadHere(l.answer, l.live)
        /\ unreadIds' = MergedUnread(l.answer, l.live) /\ histPages' = l.answer.pages /\ marks' = marks \cup l.live
        /\ UNCHANGED <<serverVoice, socketVoice, histPage>>
    BY <1>6 DEF PageArrives
  <2>8. messagesRead' \subseteq messages' /\ unreadIds' \subseteq Voices /\ BadgeAgreesWithRows'
    BY <2>2, <2>7 DEF ReadHere, MergedUnread, BadgeAgreesWithRows, UnreadRows
  <2> QED
    BY <2>2, <2>6, <2>7, <2>8 DEF serverVoice, socketVoice
<1>7. ASSUME NEW l \in voiceLoads, PageFails(l) PROVE VoiceMessagesInv'
  BY <1>7 DEF PageFails, serverVoice, socketVoice, listVoice, BadgeAgreesWithRows, UnreadRows
<1>8. ASSUME NEW id \in Voices, PlayMessage(id) PROVE VoiceMessagesInv'
  BY <1>8 DEF PlayMessage, serverVoice, socketVoice, listVoice, BadgeAgreesWithRows, UnreadRows
<1>9. ASSUME NEW id \in Voices, DeleteMessage(id) PROVE VoiceMessagesInv'
  <2>1. Cardinality(messages \ {id}) <= VoicePageSize
    BY <1>a, OneLess
  <2> QED
    BY <1>9, <2>1 DEF DeleteMessage, socketVoice, pageVoice, BadgeAgreesWithRows, UnreadRows
<1>10. ASSUME NEW id \in marks, MarkServed(id) PROVE VoiceMessagesInv'
  <2>1. voiceWire' \in Seq(VoiceEvent) /\ Len(voiceWire') <= MaxVoiceWire
    BY <1>b, <1>10, ToldWell DEF MarkServed
  <2> HIDE DEF VoiceEvent
  <2> QED
    BY <1>10, <2>1 DEF MarkServed, listVoice, BadgeAgreesWithRows, UnreadRows
<1>11. ASSUME NEW p \in 1..histPages, GotoPage(p) PROVE VoiceMessagesInv'
  <2> DEFINE l == LoadMessages(p, "nothing", {}, {})
  <2>1. p \in VoicePages
    BY DEF VoicePages
  <2>2. l \in VoiceLoad /\ l.answer = Unanswered
    BY <2>1, AskingWell
  <2>3. voiceLoads' = voiceLoads \cup {l}
    BY <1>11 DEF GotoPage, Asking
  <2> HIDE DEF l
  <2> QED
    BY <1>11, <2>1, <2>2, <2>3
    DEF GotoPage, VoicePages, serverVoice, socketVoice, listVoice, BadgeAgreesWithRows, UnreadRows
<1>12. CASE OnJson
  <2> DEFINE event == Head(voiceWire)
  <2>1. voiceWire' \in Seq(VoiceEvent) /\ Len(voiceWire') <= MaxVoiceWire
    <3>1. Tail(voiceWire) \in Seq(VoiceEvent) /\ Len(Tail(voiceWire)) = Len(voiceWire) - 1 /\ Len(voiceWire) \in Nat
      BY <1>12, ToSetOfTail, LenProperties DEF OnJson
    <3> HIDE DEF VoiceEvent
    <3> QED
      BY <1>12, <3>1 DEF OnJson
  <2>2. UNCHANGED serverVoice
    BY <1>12 DEF OnJson
  <2> HIDE DEF VoiceEvent, event
  <2>3. ASSUME event \in {<<"read", id>> : id \in Voices}, event[2] \in messages,
               VoiceReadElsewhere(event[2]), UNCHANGED <<messages, incoming, pageVoice>>
        PROVE  VoiceMessagesInv'
    <3> DEFINE id == event[2]
    <3> HIDE DEF id
    <3>1. id \in messages /\ messagesRead' = messagesRead \cup {id} /\ unreadIds' = unreadIds \ {id}
      BY <2>3 DEF VoiceReadElsewhere, id
    <3> QED
      BY <2>1, <2>2, <2>3, <3>1 DEF pageVoice, serverVoice, BadgeAgreesWithRows, UnreadRows
  <2>4. ASSUME UNCHANGED <<listVoice, pageVoice>>, incoming' \in {incoming, "announced", "heard", "none"} PROVE VoiceMessagesInv'
    BY <2>1, <2>2, <2>4 DEF pageVoice, listVoice, serverVoice, BadgeAgreesWithRows, UnreadRows
  <2>5. ASSUME AllRead, UNCHANGED <<messages, incoming, pageVoice>> PROVE VoiceMessagesInv'
    BY <2>1, <2>2, <2>5 DEF AllRead, pageVoice, serverVoice, BadgeAgreesWithRows, UnreadRows
  <2>6. ASSUME incoming' = "none", histPage' = 1, UNCHANGED <<listVoice, histPages, marks>>,
               Asking(1, IF incoming = "heard" THEN "mark" ELSE "nothing", messages)
        PROVE  VoiceMessagesInv'
    <3> DEFINE then == IF incoming = "heard" THEN "mark" ELSE "nothing"
               l == LoadMessages(1, then, {}, messages)
    <3>1. then \in {"mark", "nothing"} /\ 1 \in VoicePages
      BY DEF VoicePages
    <3> HIDE DEF then
    <3>2. l \in VoiceLoad /\ l.answer = Unanswered
      BY <3>1, AskingWell
    <3>3. voiceLoads' = voiceLoads \cup {l}
      BY <2>6 DEF Asking, then
    <3> HIDE DEF l
    <3> QED
      BY <2>1, <2>2, <2>6, <3>2, <3>3 DEF listVoice, serverVoice, BadgeAgreesWithRows, UnreadRows
  <2> QED
    BY <1>12, <2>3, <2>4, <2>5, <2>6 DEF OnJson, event
<1>13. CASE ReadAll
  <2>1. <<"read_all">> \in VoiceEvent
    BY DEF VoiceEvent
  <2>2. voiceWire' \in Seq(VoiceEvent) /\ Len(voiceWire') <= MaxVoiceWire
    <3>1. CASE Told(<<"read_all">>)
      BY <1>13, <2>1, <3>1, ToldWell DEF ReadAll
    <3>2. CASE UNCHANGED voiceWire
      BY <3>2
    <3> QED
      BY <1>13, <3>1, <3>2 DEF ReadAll
  <2> HIDE DEF VoiceEvent
  <2> QED
    BY <1>13, <2>2 DEF ReadAll, AllRead, pageVoice, BadgeAgreesWithRows, UnreadRows
<1>14. CASE DeleteAll
  BY <1>14, <1>a DEF DeleteAll, socketVoice, BadgeAgreesWithRows, UnreadRows, VoicePages
<1> QED
  BY <1>1, <1>2, <1>3, <1>4, <1>5, <1>6, <1>7, <1>8, <1>9, <1>10, <1>11, <1>12, <1>13, <1>14 DEF VoiceMessagesNext

\* The invariant is about the variables of the voice messages.
LEMMA VoiceMessagesStutter == ASSUME VoiceMessagesInv, UNCHANGED voiceMessagesVars PROVE VoiceMessagesInv'
BY DEF VoiceMessagesInv, VoiceMessagesTypeOK, BadgeAgreesWithRows, UnreadRows, voiceMessagesVars, serverVoice,
       socketVoice, listVoice, pageVoice

-----------------------------------------------------------------------------
(* The entries of the logbook. *)
LogbookInv ==
    /\ LogbookTypeOK
    /\ lbStored \in [there : SUBSET Entry, edited : SUBSET Entry]
    /\ \A list \in lbLists : list.entries \subseteq Entry
    /\ IsFiniteSet(lbLists) /\ IsFiniteSet(lbCalls)

\* The logbook starts with its invariant.
LEMMA LogbookInvInit == LogbookInit => LogbookInv
<1> SUFFICES ASSUME LogbookInit PROVE LogbookInv
  OBVIOUS
<1>1. IsFiniteSet({}) /\ Cardinality({}) = 0
  BY FS_EmptySet
<1> QED
  BY <1>1, LogbookAssumption DEF LogbookInit, LogbookInv, LogbookTypeOK

\* A request that is accepted leaves entries, and takes or edits only the one it names, in the
\* logbook of its vehicle.
LEMMA AcceptedWell ==
    ASSUME LogbookInv, NEW c, Accepted(c)
    PROVE  /\ lbStored' \in [there : SUBSET Entry, edited : SUBSET Entry]
           /\ lbStored'.edited \subseteq lbStored'.there
           /\ \A e \in lbStored.there :
                 e \notin lbStored'.there \/ (e \in lbStored'.edited /\ e \notin lbStored.edited)
                   => c.of = EntryOf[e] /\ c.entry = e
BY DEF LogbookInv, LogbookTypeOK, Accepted, Found

\* Every step of the entries keeps the invariant, and the entries of the vehicles apart.
LEMMA LogbookStep ==
    ASSUME LogbookInv, LogbookNext
    PROVE  /\ LogbookInv'
           /\ \A e \in lbStored.there :
                e \notin lbStored'.there \/ (e \in lbStored'.edited /\ e \notin lbStored.edited)
                  => \E c \in lbCalls \ lbCalls' : c.of = EntryOf[e] /\ c.entry = e
<1> USE LogbookAssumption DEF LogbookInv, LogbookTypeOK
<1>1. ASSUME NEW list \in lbLists, EntriesArrive(list) \/ EntriesFail(list) PROVE LogbookInv' /\ UNCHANGED lbStored
  <2>1. IsFiniteSet(lbLists \ {list}) /\ Cardinality(lbLists \ {list}) <= MaxLists
    BY OneLess
  <2> QED
    BY <1>1, <2>1 DEF EntriesArrive, EntriesFail, lbWindow
<1>2. ASSUME NEW device \in LogbookVehicle, OpenLogbook(device) PROVE LogbookInv' /\ UNCHANGED lbStored
  <2>1. IsFiniteSet(lbLists') /\ Cardinality(lbLists') <= MaxLists
    BY <1>2, OneMore DEF OpenLogbook, LoadEntries
  <2> QED
    BY <1>2, <2>1 DEF OpenLogbook, LoadEntries, EntriesOf
<1>3. ASSUME NEW e \in Entry \cup {NoEntry}, OpenEntry(e) PROVE LogbookInv' /\ UNCHANGED lbStored
  BY <1>3 DEF OpenEntry, lbTable
<1>4. ASSUME NEW what \in {"save", "delete"}, AskEntry(what) PROVE LogbookInv' /\ UNCHANGED lbStored
  <2>1. IsFiniteSet(lbCalls')
    BY <1>4, OneMore DEF AskEntry
  <2> QED
    BY <1>4, <2>1 DEF AskEntry, lbTable, lbWindow
<1>5. ASSUME NEW c \in lbCalls, EntryRefused(c) PROVE LogbookInv' /\ UNCHANGED lbStored
  <2>1. IsFiniteSet(lbCalls \ {c}) /\ Cardinality(lbCalls \ {c}) <= MaxEntryCalls
    BY OneLess
  <2> QED
    BY <1>5, <2>1 DEF EntryRefused, lbTable, lbWindow
<1>6. CASE CloseLogbook \/ Escape \/ CloseEntry
  <2> QED
    BY <1>6 DEF CloseLogbook, Escape, CloseEntry, lbTable
<1>7. ASSUME NEW c \in lbCalls, EntryAnswered(c)
      PROVE  /\ LogbookInv'
             /\ \A e \in lbStored.there :
                  e \notin lbStored'.there \/ (e \in lbStored'.edited /\ e \notin lbStored.edited)
                    => \E d \in lbCalls \ lbCalls' : d.of = EntryOf[e] /\ d.entry = e
  <2>1. IsFiniteSet(lbCalls \ {c}) /\ Cardinality(lbCalls \ {c}) <= MaxEntryCalls
    BY OneLess
  <2>2. IsFiniteSet(lbLists')
    BY <1>7, OneMore DEF EntryAnswered
  <2>3. c \in lbCalls \ lbCalls' /\ Accepted(c)
    BY <1>7 DEF EntryAnswered
  <2>4. LogbookInv'
    BY <1>7, <2>1, <2>2, <2>3, AcceptedWell DEF EntryAnswered
  <2> QED
    BY <2>3, <2>4, AcceptedWell
<1> QED
  BY <1>1, <1>2, <1>3, <1>4, <1>5, <1>6, <1>7 DEF LogbookNext, CloseLogbook, Escape, CloseEntry

\* A step of another part leaves it.
LEMMA LogbookStutter == ASSUME LogbookInv, UNCHANGED logbookVars PROVE LogbookInv'
BY DEF LogbookInv, LogbookTypeOK, logbookVars

-----------------------------------------------------------------------------
(* The fill-ups. *)
\* The odometers that are known do not go back.
Rising(logs) ==
    \A i, j \in 1..Len(logs) :
        i < j /\ logs[i].odometer # 0 /\ logs[j].odometer # 0 => logs[i].odometer <= logs[j].odometer
FuelAsks ==
    {NotAsked} \cup [what : {"save"}, at : 0..MaxFillUps, trip : 0..MaxTripDistance]
               \cup [what : {"delete"}, at : 1..MaxFillUps]

FuelInv ==
    /\ FuelTypeOK /\ fuelAsked \in FuelAsks
    /\ Rising(fuelStored) /\ Rising(fuelLogs)

\* The lists of fill-ups are the bounded sequences of them.
LEMMA FillUpsIs == ASSUME NEW t PROVE t \in FillUps <=> t \in Seq(FillUp) /\ Len(t) <= MaxFillUps
<1>1. ASSUME t \in FillUps PROVE t \in Seq(FillUp) /\ Len(t) <= MaxFillUps
  <2>1. PICK n \in 0..MaxFillUps : t \in [1..n -> FillUp]
    BY <1>1 DEF FillUps
  <2> QED
    BY <2>1, SeqDef, LenProperties, FuelAssumption
<1>2. ASSUME t \in Seq(FillUp), Len(t) <= MaxFillUps PROVE t \in FillUps
  BY <1>2, LenProperties DEF FillUps
<1> QED
  BY <1>1, <1>2

\* There are no fill-ups at first.
LEMMA FuelInvInit == FuelInit => FuelInv
<1> SUFFICES ASSUME FuelInit PROVE FuelInv
  OBVIOUS
<1>1. <<>> \in FillUps
  <2>1. <<>> \in [1..0 -> FillUp] /\ 0 \in 0..MaxFillUps
    BY FuelAssumption
  <2> QED
    BY <2>1 DEF FillUps
<1> QED
  BY <1>1, FuelAssumption DEF FuelInit, FuelInv, FuelTypeOK, FuelAsks, Rising, NotAsked

\* Whatever is accepted leaves lists of fill-ups whose known odometers rise.
LEMMA ChangedWell == ASSUME FuelInv, FuelChanged PROVE fuelStored' \in FillUps /\ Rising(fuelStored')
<1> USE FuelAssumption DEF FuelInv, FuelTypeOK
<1> DEFINE n == Len(fuelStored)
<1>0. /\ fuelStored \in Seq(FillUp) /\ n <= MaxFillUps /\ n \in Nat /\ DOMAIN fuelStored = 1..n
      /\ \A i \in 1..n : fuelStored[i] \in FillUp
  BY FillUpsIs, LenProperties, ElementOfSeq
<1>a. 0 \in 0..MaxOdometer
  OBVIOUS
<1>1. ASSUME fuelAsked.what = "save", fuelAsked.at = 0, n < MaxFillUps, NEW at \in 1..n + 1,
             fuelStored' = InsertAt(fuelStored, at, [trip |-> fuelAsked.trip, odometer |-> 0])
      PROVE  fuelStored' \in FillUps /\ Rising(fuelStored')
  <2> DEFINE e == [trip |-> fuelAsked.trip, odometer |-> 0]
  <2>1. e \in FillUp /\ e.odometer = 0
    BY <1>1, <1>a DEF FillUp, FuelAsks, NotAsked
  <2> HIDE DEF e
  <2>2. /\ fuelStored' \in Seq(FillUp) /\ Len(fuelStored') = n + 1
        /\ \A k \in 1..(n + 1) :
              fuelStored'[k] = IF k < at THEN fuelStored[k] ELSE IF k = at THEN e ELSE fuelStored[k - 1]
    <3>1. fuelStored' = InsertAt(fuelStored, at, e) /\ at \in 1..(n + 1)
      BY <1>1 DEF e
    <3>2. /\ InsertAt(fuelStored, at, e) \in Seq(FillUp) /\ Len(InsertAt(fuelStored, at, e)) = n + 1
          /\ \A k \in 1..(n + 1) : InsertAt(fuelStored, at, e)[k]
                                   = IF k < at THEN fuelStored[k] ELSE IF k = at THEN e ELSE fuelStored[k - 1]
      <4>1. fuelStored \in Seq(FillUp) /\ at \in 1..(Len(fuelStored) + 1) /\ e \in FillUp
        BY <1>0, <2>1, <3>1
      <4> HIDE DEF FuelInv, FuelTypeOK
      <4> QED
        BY <4>1, InsertedAt
    <3> QED
      BY <3>1, <3>2
  <2>3. ASSUME NEW i \in 1..(n + 1), NEW j \in 1..(n + 1), i < j,
               fuelStored'[i].odometer # 0, fuelStored'[j].odometer # 0
        PROVE  fuelStored'[i].odometer <= fuelStored'[j].odometer
    <3> DEFINE f(k) == IF k < at THEN k ELSE k - 1
    <3>1. i # at /\ j # at
      BY <2>1, <2>2, <2>3
    <3>2. f(i) \in 1..n /\ f(j) \in 1..n /\ f(i) < f(j)
      BY <1>0, <2>3, <3>1
    <3>3. fuelStored'[i] = fuelStored[f(i)] /\ fuelStored'[j] = fuelStored[f(j)]
      BY <2>2, <3>1
    <3> HIDE DEF f
    <3> QED
      BY <2>3, <3>2, <3>3 DEF Rising
  <2> QED
    BY <1>0, <1>1, <2>2, <2>3, FillUpsIs DEF Rising
<1>2. ASSUME fuelAsked.what = "save", fuelAsked.at \in DOMAIN fuelStored, fuelStored' = FuelUpdated(fuelAsked.trip)
      PROVE  fuelStored' \in FillUps /\ Rising(fuelStored')
  <2>1. CASE fuelAsked.trip = 0
    BY <1>2, <2>1 DEF FuelUpdated
  <2>2. CASE fuelAsked.trip # 0
    <3> DEFINE at == fuelAsked.at
               e == [fuelStored[at] EXCEPT !.trip = fuelAsked.trip]
    <3>1. fuelStored' = [fuelStored EXCEPT ![at] = e]
      BY <1>2, <2>2 DEF FuelUpdated
    <3>2. fuelStored[at] \in FillUp /\ fuelAsked.trip \in 0..MaxTripDistance
      BY <1>0, <1>2 DEF FuelAsks, NotAsked
    <3>3. e \in FillUp /\ e.odometer = fuelStored[at].odometer
      BY <3>2 DEF FillUp
    <3> HIDE DEF e
    <3>4. fuelStored' \in Seq(FillUp) /\ Len(fuelStored') = n
      BY <1>0, <1>2, <3>1, <3>3, ExceptSeq
    <3>5. \A i \in 1..n : fuelStored'[i].odometer = fuelStored[i].odometer
      BY <1>0, <3>1, <3>3
    <3> QED
      BY <1>0, <3>4, <3>5, FillUpsIs DEF Rising
  <2> QED
    BY <2>1, <2>2
<1>3. ASSUME fuelAsked.at \in DOMAIN fuelStored, fuelStored' = RemoveAt(fuelStored, fuelAsked.at)
      PROVE  fuelStored' \in FillUps /\ Rising(fuelStored')
  <2> DEFINE at == fuelAsked.at
  <2>1. /\ fuelStored' \in Seq(FillUp) /\ Len(fuelStored') = n - 1
        /\ \A k \in 1..(n - 1) : fuelStored'[k] = IF k < at THEN fuelStored[k] ELSE fuelStored[k + 1]
    BY <1>0, <1>3, RemovedAt
  <2>2. ASSUME NEW i \in 1..(n - 1), NEW j \in 1..(n - 1), i < j,
               fuelStored'[i].odometer # 0, fuelStored'[j].odometer # 0
        PROVE  fuelStored'[i].odometer <= fuelStored'[j].odometer
    <3> DEFINE f(k) == IF k < at THEN k ELSE k + 1
    <3>1. f(i) \in 1..n /\ f(j) \in 1..n /\ f(i) < f(j)
      BY <1>0, <1>3, <2>2
    <3>2. fuelStored'[i] = fuelStored[f(i)] /\ fuelStored'[j] = fuelStored[f(j)]
      BY <2>1
    <3> HIDE DEF f
    <3> QED
      BY <2>2, <3>1, <3>2 DEF Rising
  <2> QED
    BY <1>0, <2>1, <2>2, FillUpsIs DEF Rising
<1> QED
  BY <1>1, <1>2, <1>3 DEF FuelChanged

\* Every step of the fill-ups keeps the invariant.
LEMMA FuelStep == ASSUME FuelInv, FuelNext PROVE FuelInv'
<1> USE FuelAssumption DEF FuelInv, FuelTypeOK
<1>0. /\ fuelStored \in Seq(FillUp) /\ Len(fuelStored) <= MaxFillUps /\ Len(fuelStored) \in Nat
      /\ fuelLogs \in Seq(FillUp) /\ Len(fuelLogs) <= MaxFillUps /\ Len(fuelLogs) \in Nat
      /\ DOMAIN fuelStored = 1..Len(fuelStored) /\ \A i \in 1..Len(fuelStored) : fuelStored[i] \in FillUp
  BY FillUpsIs, LenProperties, ElementOfSeq
<1>1. <<>> \in FillUps /\ Rising(<<>>)
  <2>1. <<>> \in [1..0 -> FillUp] /\ 0 \in 0..MaxFillUps /\ Len(<<>>) = 0
    OBVIOUS
  <2> QED
    BY <2>1 DEF FillUps, Rising
<1>2. CASE FuelArrives
  <2>1. fuelLoading' \in BOOLEAN
    BY <1>2, Zenon DEF FuelArrives
  <2> QED
    BY <1>1, <1>2, <2>1 DEF FuelArrives
<1>3. CASE CloseFuelLog
  BY <1>3 DEF CloseFuelLog
<1>4. CASE DeleteFuelLog
  BY <1>4 DEF DeleteFuelLog, FuelAsks
<1>5. CASE FuelAnswered
  <2>1. fuelLoading' \in BOOLEAN
    BY <1>5, Zenon DEF FuelAnswered
  <2>2. fuelStored' \in FillUps /\ Rising(fuelStored')
    BY <1>5, ChangedWell DEF FuelAnswered
  <2> QED
    BY <1>5, <2>1, <2>2 DEF FuelAnswered, FuelAsks, NotAsked
<1>6. CASE FuelRefused
  <2>1. fuelLoading' \in BOOLEAN
    BY <1>6, Zenon DEF FuelRefused
  <2> QED
    BY <1>6, <2>1 DEF FuelRefused, FuelAsks, NotAsked
<1>7. CASE ReloadFuel
  <2>1. fuelLoading' \in BOOLEAN
    BY <1>7, Zenon DEF ReloadFuel
  <2> QED
    BY <1>7, <2>1 DEF ReloadFuel
<1>8. ASSUME NEW i \in 0..MaxFillUps, OpenFuelLog(i) PROVE FuelInv'
  BY <1>8 DEF OpenFuelLog
<1>9. ASSUME NEW trip \in 0..MaxTripDistance, SaveFuelLog(trip) PROVE FuelInv'
  BY <1>9 DEF SaveFuelLog, FuelAsks
<1>10. ASSUME NEW fill \in FillUp, AddedElsewhere(fill) PROVE FuelInv'
  <2> DEFINE n == Len(fuelStored)
  <2>1. /\ fuelStored' = Append(fuelStored, fill) /\ n < MaxFillUps
        /\ \A i \in 1..n : fuelStored[i].odometer <= fill.odometer
    BY <1>0, <1>10 DEF AddedElsewhere
  <2>2. /\ fuelStored' \in Seq(FillUp) /\ Len(fuelStored') = n + 1
        /\ fuelStored'[n + 1] = fill /\ \A k \in 1..n : fuelStored'[k] = fuelStored[k]
    BY <1>0, <2>1, Appended
  <2>3. Rising(fuelStored')
    <3>1. ASSUME NEW i \in 1..(n + 1), NEW j \in 1..(n + 1), i < j,
                 fuelStored'[i].odometer # 0, fuelStored'[j].odometer # 0
          PROVE  fuelStored'[i].odometer <= fuelStored'[j].odometer
      <4>1. i \in 1..n /\ (j \in 1..n \/ j = n + 1)
        BY <1>0, <3>1
      <4> QED
        BY <2>1, <2>2, <3>1, <4>1 DEF Rising
    <3> QED
      BY <2>2, <3>1 DEF Rising
  <2>4. fuelStored' \in FillUps
    <3>1. Len(fuelStored') <= MaxFillUps
      BY <1>0, <2>1, <2>2
    <3> QED
      BY <2>2, <3>1, FillUpsIs
  <2> QED
    BY <1>10, <2>3, <2>4 DEF AddedElsewhere
<1> QED
  BY <1>2, <1>3, <1>4, <1>5, <1>6, <1>7, <1>8, <1>9, <1>10 DEF FuelNext

\* The invariant is about the variables of the fill-ups.
LEMMA FuelStutter == ASSUME FuelInv, UNCHANGED fuelVars PROVE FuelInv'
BY DEF FuelInv, FuelTypeOK, Rising, fuelVars

\* What SumOf adds up, term by term.
LEMMA SumIsRunning ==
    ASSUME NEW n \in Nat, NEW terms \in [1..n -> Int]
    PROVE  \E f \in [0..n -> Int] :
              f[0] = 0 /\ (\A i \in 1..n : f[i] = f[i - 1] + terms[i]) /\ SumOf(terms) = f[n]
<1> DEFINE added == [x \in Int \X (1..n) |-> x[1] + terms[x[2]]]
           Rec(f) == f = [i \in 0..n |-> IF i = 0 THEN 0 ELSE f[i - 1] + terms[i]]
           f == CHOOSE g : Rec(g)
<1>1. Len(terms) = n
  <2>1. terms \in Seq(Int)
    BY SeqDef
  <2>2. DOMAIN terms = 1..Len(terms) /\ DOMAIN terms = 1..n /\ Len(terms) \in Nat
    BY <2>1, LenProperties
  <2> QED
    BY <2>2
<1>2. SumOf(terms) = f[n]
  BY <1>1 DEF SumOf
<1>3. added \in Stepping(n, Int)
  <2>1. ASSUME NEW x \in Int \X (1..n) PROVE x[1] + terms[x[2]] \in Int
    OBVIOUS
  <2> QED
    BY <2>1 DEF Stepping
<1>4. PICK g : Folding(g, n, Int, 0, added)
  <2>1. 0 \in Int
    OBVIOUS
  <2> HIDE DEF added
  <2> QED
    BY <1>3, <2>1, FoldExists
<1>5. ASSUME NEW i \in 1..n PROVE g[i] = g[i - 1] + terms[i]
  <2>1. i - 1 \in 0..n
    OBVIOUS
  <2>2. g[i - 1] \in Int
    BY <1>4, <2>1 DEF Folding
  <2>3. <<g[i - 1], i>> \in Int \X (1..n)
    BY <2>2
  <2>4. added[<<g[i - 1], i>>] = g[i - 1] + terms[i]
    BY <2>3
  <2> HIDE DEF added
  <2> QED
    BY <1>4, <2>4 DEF Folding
<1>6. Rec(g)
  <2>1. \A i \in 0..n : g[i] = IF i = 0 THEN 0 ELSE g[i - 1] + terms[i]
    BY <1>4, <1>5 DEF Folding
  <2> QED
    BY <1>4, <2>1 DEF Folding
<1>7. Rec(f)
  <2> HIDE DEF Rec
  <2> QED
    BY <1>6
<1> HIDE DEF f
<1>8. f[0] = 0 /\ \A i \in 1..n : f[i] = f[i - 1] + terms[i]
  <2> DEFINE e(i) == IF i = 0 THEN 0 ELSE f[i - 1] + terms[i]
  <2>1. f = [i \in 0..n |-> e(i)]
    BY <1>7
  <2>2. 0 \in 0..n /\ \A i \in 1..n : i \in 0..n /\ i # 0
    OBVIOUS
  <2> HIDE DEF e
  <2>3. \A i \in 0..n : f[i] = e(i)
    BY <2>1
  <2> QED
    BY <2>2, <2>3 DEF e
<1>9. f \in [0..n -> Int]
  <2> DEFINE P == {i \in 0..n : f[i] \in Int}
  <2>1. 0 \in P
    BY <1>8
  <2>2. \A i \in 1..n : i - 1 \in P => i \in P
    BY <1>8
  <2>3. n \in Nat
    OBVIOUS
  <2> HIDE DEF P
  <2>4. 0..n \subseteq P
    BY <2>1, <2>2, <2>3, CountUp
  <2>5. \A i \in 0..n : f[i] \in Int
    BY <2>4 DEF P
  <2>6. DOMAIN f = 0..n /\ f = [i \in DOMAIN f |-> f[i]]
    BY <1>7
  <2> QED
    BY <2>5, <2>6
<1> QED
  BY <1>2, <1>8, <1>9

\* Of the terms from a trip or the odometer those of the odometer add up to no more than its
\* known readings are apart, as they rise.
LEMMA GapsWithinReadings ==
    ASSUME NEW logs \in Seq(FillUp), Rising(logs), NEW lo \in Nat,
           \A i \in 1..Len(logs) : logs[i].odometer # 0 => lo <= logs[i].odometer
    PROVE  LET over == TotalDistance(logs) - SumOf([i \in 1..Len(logs) |-> logs[i].trip]) IN
           over \in Int /\ (over <= 0 \/ \E j \in 1..Len(logs) : logs[j].odometer # 0 /\ over <= logs[j].odometer - lo)
<1> USE FuelAssumption
<1> DEFINE n == Len(logs)
           distances == [i \in 1..n |-> DistanceOf(logs, i)]
           trips == [i \in 1..n |-> logs[i].trip]
<1>1. n \in Nat
  BY LenProperties
<1>2. \A i \in 1..n : logs[i].trip \in Nat /\ logs[i].odometer \in Nat
  <2>1. \A i \in 1..n : logs[i] \in FillUp
    BY ElementOfSeq
  <2> QED
    BY <2>1 DEF FillUp
<1>3. ASSUME NEW i \in 1..n
      PROVE  /\ DistanceOf(logs, i) \in Int
             /\ DistanceOf(logs, i) - logs[i].trip <= 0
                \/ /\ i > 1 /\ i - 1 \in 1..n /\ logs[i - 1].odometer # 0 /\ logs[i].odometer # 0
                   /\ DistanceOf(logs, i) - logs[i].trip <= logs[i].odometer - logs[i - 1].odometer
  <2>1. CASE i > 1
    <3>1. i - 1 \in 1..n
      BY <1>1, <2>1
    <3> QED
      <4>1. CASE logs[i].trip > 0
        BY <1>2, <4>1 DEF DistanceOf
      <4>2. CASE ~(logs[i].trip > 0)
        <5>1. /\ DistanceOf(logs, i) = Gap(logs, i) /\ logs[i].trip = 0
              /\ logs[i].odometer \in Nat /\ logs[i - 1].odometer \in Nat
          BY <1>2, <3>1, <4>2 DEF DistanceOf
        <5>2. CASE logs[i - 1].odometer # 0 /\ logs[i].odometer > logs[i - 1].odometer
          BY <2>1, <3>1, <5>1, <5>2 DEF Gap
        <5>3. CASE ~(logs[i - 1].odometer # 0 /\ logs[i].odometer > logs[i - 1].odometer)
          BY <5>1, <5>3 DEF Gap
        <5> QED
          BY <5>2, <5>3
      <4> QED
        BY <4>1, <4>2
  <2>2. CASE ~(i > 1)
    BY <1>2, <2>2 DEF DistanceOf, Gap
  <2> QED
    BY <2>1, <2>2
<1>4. distances \in [1..n -> Int] /\ trips \in [1..n -> Int]
  <2> HIDE DEF n
  <2> QED
    BY <1>2, <1>3
<1> HIDE DEF n
<1>5. PICK d \in [0..n -> Int] :
          d[0] = 0 /\ (\A i \in 1..n : d[i] = d[i - 1] + distances[i]) /\ SumOf(distances) = d[n]
  <2> HIDE DEF distances
  <2> QED
    BY <1>1, <1>4, SumIsRunning
<1>6. PICK t \in [0..n -> Int] :
          t[0] = 0 /\ (\A i \in 1..n : t[i] = t[i - 1] + trips[i]) /\ SumOf(trips) = t[n]
  <2> HIDE DEF trips
  <2> QED
    BY <1>1, <1>4, SumIsRunning
<1> DEFINE Over(k) == d[k] - t[k]
           P == {k \in 0..n : Over(k) <= 0 \/ \E j \in 1..k : logs[j].odometer # 0 /\ Over(k) <= logs[j].odometer - lo}
<1>7. 0 \in P
  BY <1>1, <1>5, <1>6
<1>8. ASSUME NEW k \in 1..n, k - 1 \in P PROVE k \in P
  <2> DEFINE more == DistanceOf(logs, k) - logs[k].trip
  <2>1. d[k - 1] \in Int /\ t[k - 1] \in Int /\ d[k] \in Int /\ t[k] \in Int
    BY <1>1
  <2>2. Over(k) = Over(k - 1) + more /\ Over(k) \in Int /\ Over(k - 1) \in Int /\ more \in Int
    <3>1. d[k] = d[k - 1] + DistanceOf(logs, k) /\ t[k] = t[k - 1] + logs[k].trip
      BY <1>5, <1>6
    <3>2. DistanceOf(logs, k) \in Int /\ logs[k].trip \in Nat
      BY <1>2, <1>3
    <3> DEFINE x == DistanceOf(logs, k)
               y == logs[k].trip
               d0 == d[k - 1]
               t0 == t[k - 1]
    <3>3. x \in Int /\ y \in Int /\ d0 \in Int /\ t0 \in Int /\ d[k] = d0 + x /\ t[k] = t0 + y
      BY <2>1, <3>1, <3>2
    <3> HIDE DEF x, y, d0, t0
    <3>4. d[k] - t[k] = (d0 - t0) + (x - y) /\ d[k] - t[k] \in Int /\ d0 - t0 \in Int /\ x - y \in Int
      BY <3>3
    <3> QED
      BY <3>4 DEF x, y, d0, t0
  <2>3. \/ Over(k - 1) <= 0
        \/ \E j \in 1..(k - 1) : logs[j].odometer # 0 /\ Over(k - 1) <= logs[j].odometer - lo
    BY <1>8
  <2>4. \/ more <= 0
        \/ /\ k > 1 /\ k - 1 \in 1..n /\ logs[k - 1].odometer # 0 /\ logs[k].odometer # 0
           /\ more <= logs[k].odometer - logs[k - 1].odometer
    BY <1>3
  <2> HIDE DEF Over, more
  <2>5. CASE more <= 0
    <3>1. CASE Over(k - 1) <= 0
      BY <2>2, <2>5, <3>1
    <3>2. ASSUME NEW j \in 1..(k - 1), logs[j].odometer # 0, Over(k - 1) <= logs[j].odometer - lo PROVE k \in P
      <4>1. j \in 1..k /\ j \in 1..n /\ logs[j].odometer \in Nat
        BY <1>1, <1>2
      <4>2. Over(k) <= logs[j].odometer - lo
        BY <2>2, <2>5, <3>2, <4>1
      <4> QED
        BY <3>2, <4>1, <4>2
    <3> QED
      BY <2>3, <3>1, <3>2
  <2>6. CASE more > 0
    <3>1. /\ k > 1 /\ k - 1 \in 1..n /\ logs[k - 1].odometer # 0 /\ logs[k].odometer # 0
          /\ more <= logs[k].odometer - logs[k - 1].odometer
          /\ logs[k].odometer \in Nat /\ logs[k - 1].odometer \in Nat /\ lo <= logs[k - 1].odometer
      BY <1>2, <2>2, <2>4, <2>6 DEF n
    <3>2. Over(k - 1) <= logs[k - 1].odometer - lo
      <4>1. CASE Over(k - 1) <= 0
        BY <2>2, <3>1, <4>1
      <4>2. ASSUME NEW j \in 1..(k - 1), logs[j].odometer # 0, Over(k - 1) <= logs[j].odometer - lo
            PROVE  Over(k - 1) <= logs[k - 1].odometer - lo
        <5>0. j \in 1..n
          BY <1>1
        <5>1. j \in 1..n /\ logs[j].odometer \in Nat
          BY <1>2, <5>0
        <5>2. logs[j].odometer <= logs[k - 1].odometer
          <6>1. CASE j = k - 1
            BY <3>1, <6>1
          <6>2. CASE j # k - 1
            <7>1. j < k - 1
              BY <6>2
            <7> QED
              BY <3>1, <4>2, <5>1, <7>1 DEF Rising, n
          <6> QED
            BY <6>1, <6>2
        <5> QED
          <6> DEFINE o == Over(k - 1)
                     a == logs[j].odometer
                     b == logs[k - 1].odometer
          <6>1. o \in Int /\ a \in Nat /\ b \in Nat /\ o <= a - lo /\ a <= b
            BY <2>2, <3>1, <4>2, <5>1, <5>2
          <6> HIDE DEF o, a, b
          <6>2. o <= b - lo
            BY <6>1
          <6> QED
            BY <6>2 DEF o, b
      <4> QED
        BY <2>3, <4>1, <4>2
    <3>3. Over(k) <= logs[k].odometer - lo
      <4> DEFINE a == logs[k].odometer
                 b == logs[k - 1].odometer
      <4>1. a \in Nat /\ b \in Nat /\ more <= a - b /\ Over(k - 1) <= b - lo
        BY <3>1, <3>2
      <4> HIDE DEF a, b
      <4>2. Over(k) <= a - lo
        BY <2>2, <4>1
      <4> QED
        BY <4>2 DEF a
    <3>4. k \in 1..k
      OBVIOUS
    <3> QED
      BY <3>1, <3>3, <3>4
  <2> QED
    BY <2>2, <2>5, <2>6
<1>9. n \in P
  <2> HIDE DEF P
  <2>1. 0..n \subseteq P
    BY <1>1, <1>7, <1>8, CountUp
  <2> QED
    BY <1>1, <2>1
<1>10. Over(n) = TotalDistance(logs) - SumOf([i \in 1..Len(logs) |-> logs[i].trip])
  BY <1>5, <1>6 DEF TotalDistance, n
<1>11. Over(n) \in Int
  BY <1>1
<1> QED
  BY <1>9, <1>10, <1>11 DEF n

\* So what is counted besides the trips is no more than the odometer advanced.
LEMMA FuelInvGives == ASSUME FuelInv PROVE FuelTypeOK /\ DistancesCountOnce
<1> USE FuelAssumption DEF FuelInv, FuelTypeOK
<1> DEFINE n == Len(fuelLogs)
           known == {fuelLogs[i].odometer : i \in DOMAIN fuelLogs} \ {0}
           over == TotalDistance(fuelLogs) - SumOf([i \in 1..n |-> fuelLogs[i].trip])
<1>1. fuelLogs \in Seq(FillUp) /\ n \in Nat /\ DOMAIN fuelLogs = 1..n /\ \A i \in 1..n : fuelLogs[i] \in FillUp
  BY FillUpsIs, LenProperties, ElementOfSeq
<1>2. \A i \in 1..n : fuelLogs[i].odometer \in 0..MaxOdometer
  BY <1>1 DEF FillUp
<1>3. known \subseteq 0..MaxOdometer /\ known \in SUBSET Nat /\ IsFiniteSet(known)
  <2>1. known \subseteq 0..MaxOdometer
    BY <1>1, <1>2
  <2>2. 0..MaxOdometer \subseteq Nat
    OBVIOUS
  <2>3. IsFiniteSet(0..MaxOdometer)
    BY FS_Interval
  <2> HIDE DEF known
  <2>4. IsFiniteSet(known)
    BY <2>1, <2>3, FS_Subset
  <2> QED
    BY <2>1, <2>2, <2>4
<1>4. over <= IF known = {} THEN 0 ELSE Max(known) - Min(known)
  <2>1. CASE known = {}
    <3>1. \A i \in 1..n : fuelLogs[i].odometer = 0
      BY <1>1, <2>1
    <3>2. over \in Int /\ (over <= 0 \/ \E j \in 1..n : fuelLogs[j].odometer # 0 /\ over <= fuelLogs[j].odometer - 0)
      BY <1>1, <3>1, GapsWithinReadings
    <3> HIDE DEF over
    <3> QED
      BY <2>1, <3>1, <3>2
  <2>2. CASE known # {}
    <3> DEFINE lo == Min(known)
               hi == Max(known)
    <3>1. lo \in known /\ hi \in known /\ \A x \in known : lo <= x /\ x <= hi
      <4> HIDE DEF known
      <4> QED
        BY <1>3, <2>2, ExtremesExist
    <3>2. lo \in Nat /\ hi \in Nat /\ lo <= hi
      BY <1>3, <3>1
    <3>3. \A i \in 1..n : fuelLogs[i].odometer # 0 => lo <= fuelLogs[i].odometer /\ fuelLogs[i].odometer <= hi
      BY <1>1, <3>1
    <3> HIDE DEF known, lo, hi
    <3>4. over \in Int /\ (over <= 0 \/ \E j \in 1..n : fuelLogs[j].odometer # 0 /\ over <= fuelLogs[j].odometer - lo)
      BY <1>1, <3>2, <3>3, GapsWithinReadings
    <3>5. over <= hi - lo
      <4> HIDE DEF over
      <4>1. CASE over <= 0
        BY <3>2, <3>4, <4>1
      <4>2. ASSUME NEW j \in 1..n, fuelLogs[j].odometer # 0, over <= fuelLogs[j].odometer - lo PROVE over <= hi - lo
        BY <1>2, <3>2, <3>3, <3>4, <4>2
      <4> QED
        BY <3>4, <4>1, <4>2
    <3> QED
      BY <2>2, <3>5 DEF lo, hi
  <2> QED
    BY <2>1, <2>2
<1> QED
  BY <1>4 DEF DistancesCountOnce

-----------------------------------------------------------------------------
(* The tiles of the map. *)
\* There are no more tiles than a trim leaves and the puts since, or the last trim has still to
\* read them or has the others on its list.
Trimmed == Len(tiles) <= MaxTiles + tileInsertCount
LastTrim == trims[Len(trims)]
Leaves(keys) == Cardinality(ToSet(tiles) \ ToSet(keys)) <= MaxTiles + tileInsertCount

TileCacheInv ==
    /\ TileCacheTypeOK
    /\ \A i \in 1..Len(trims) : trims[i] = Unread \/ (trims[i] \in Seq(Tile) /\ trims[i] # <<>>)
    /\ (trims # <<>> \/ ~untrimmed) => Trimmed \/ (trims # <<>> /\ (LastTrim = Unread \/ Leaves(LastTrim)))

\* There are no tiles at first.
LEMMA TileCacheInvInit == TileCacheInit => TileCacheInv
<1> SUFFICES ASSUME TileCacheInit PROVE TileCacheInv
  OBVIOUS
<1>1. untrimmed \in BOOLEAN
  BY Zenon DEF TileCacheInit
<1>2. Len(<<>>) = 0 /\ <<>> \in Seq(Tile) /\ <<>> \in Seq(Seq(Tile) \cup {Unread}) /\ DOMAIN <<>> = {}
  OBVIOUS
<1>3. IsInjective(<<>>)
  BY <1>2 DEF IsInjective
<1> QED
  BY <1>1, <1>2, <1>3, TileCacheAssumption DEF TileCacheInit, TileCacheInv, TileCacheTypeOK, Trimmed

\* The keys beyond what the cache may hold, and how many tiles are not among them.
LEMMA SurplusLeaves ==
    ASSUME NEW keys \in Seq(Tile), IsInjective(keys), Surplus(keys) # <<>>
    PROVE  /\ Surplus(keys) \in Seq(Tile) /\ Len(keys) > MaxTiles
           /\ Cardinality(ToSet(keys) \ ToSet(Surplus(keys))) <= MaxTiles
<1> USE TileCacheAssumption
<1> DEFINE n == Len(keys)
           s == SubSeq(keys, 1, n - MaxTiles)
<1>1. n \in Nat /\ n > MaxTiles /\ Surplus(keys) = s
  BY LenProperties DEF Surplus
<1>2. \A i \in 1..n : keys[i] \in Tile
  BY ElementOfSeq
<1>3. s \in Seq(Tile) /\ Len(s) = n - MaxTiles /\ \A i \in 1..(n - MaxTiles) : s[i] = keys[i]
  <2> HIDE DEF n
  <2>1. \A i \in 1..(n - MaxTiles) : keys[i] \in Tile
    BY <1>1, <1>2
  <2>2. n - MaxTiles \in Int
    BY <1>1
  <2>3. /\ SubSeq(keys, 1, n - MaxTiles) \in Seq(Tile)
        /\ Len(SubSeq(keys, 1, n - MaxTiles)) = IF 1 <= n - MaxTiles THEN (n - MaxTiles) - 1 + 1 ELSE 0
        /\ \A i \in 1..((n - MaxTiles) - 1 + 1) : SubSeq(keys, 1, n - MaxTiles)[i] = keys[1 + i - 1]
    BY <2>1, <2>2, SubSeqProperties
  <2> QED
    BY <1>1, <2>3
<1> HIDE DEF s
<1>4. ToSet(keys) = {keys[i] : i \in 1..n} /\ ToSet(s) = {s[i] : i \in 1..(n - MaxTiles)}
  BY <1>3, ToSetOfSeq
<1>5. IsInjective(s)
  <2>1. DOMAIN s = 1..(n - MaxTiles) /\ DOMAIN keys = 1..n
    BY <1>3, LenProperties
  <2>2. \A i \in 1..(n - MaxTiles) : i \in 1..n
    BY <1>1
  <2> QED
    BY <1>3, <2>1, <2>2 DEF IsInjective
<1>6. /\ IsFiniteSet(ToSet(keys)) /\ Cardinality(ToSet(keys)) = n
      /\ IsFiniteSet(ToSet(s)) /\ Cardinality(ToSet(s)) = n - MaxTiles
  BY <1>3, <1>5, LengthOfInjective
<1>7. ToSet(s) \subseteq ToSet(keys)
  <2>1. \A i \in 1..(n - MaxTiles) : i \in 1..n
    BY <1>1
  <2> QED
    BY <1>3, <1>4, <2>1
<1>8. Cardinality(ToSet(keys) \ ToSet(s)) = Cardinality(ToSet(keys)) - Cardinality(ToSet(keys) \cap ToSet(s))
  BY <1>6, FS_Difference
<1>9. ToSet(keys) \cap ToSet(s) = ToSet(s)
  BY <1>7
<1>10. Cardinality(ToSet(keys) \cap ToSet(s)) = n - MaxTiles
  BY <1>6, <1>9
<1>11. Cardinality(ToSet(keys) \ ToSet(s)) = MaxTiles
  <2> HIDE DEF n
  <2> QED
    BY <1>1, <1>6, <1>8, <1>10
<1> QED
  BY <1>1, <1>3, <1>11

\* Every step of the cache of tiles keeps the invariant.
LEMMA TileCacheStep == ASSUME TileCacheInv, TileCacheNext PROVE TileCacheInv'
<1> USE TileCacheAssumption DEF TileCacheInv, TileCacheTypeOK
<1> DEFINE States == Seq(Tile) \cup {Unread}
           S == ToSet(tiles)
           n == Len(trims)
<1>0. /\ Len(tiles) \in Nat /\ n \in Nat /\ Len(puts) \in Nat /\ DOMAIN trims = 1..n /\ DOMAIN puts = 1..Len(puts)
      /\ IsFiniteSet(S) /\ Cardinality(S) = Len(tiles) /\ S \subseteq Tile
      /\ \A i \in 1..Len(puts) : puts[i] \in Tile
  <2>1. Len(tiles) \in Nat /\ n \in Nat /\ Len(puts) \in Nat /\ DOMAIN trims = 1..n /\ DOMAIN puts = 1..Len(puts)
    BY LenProperties
  <2>2. IsFiniteSet(S) /\ Cardinality(S) = Len(tiles) /\ S \subseteq Tile
    BY LengthOfInjective, ToSetOfSeq
  <2>3. \A i \in 1..Len(puts) : puts[i] \in Tile
    BY ElementOfSeq
  <2> QED
    BY <2>1, <2>2, <2>3
<1>a. trims # <<>> <=> n > 0
  BY <1>0, EmptySeq
<1>1. ASSUME NEW tile \in Tile, TileFetched(tile) PROVE TileCacheInv'
  <2>1. puts' \in Seq(Tile) /\ Len(puts') = Len(puts) + 1
    BY <1>1, AppendProperties DEF TileFetched
  <2>2. puts' \in Seq(Tile) /\ Len(puts') <= MaxPuts
    BY <1>0, <1>1, <2>1 DEF TileFetched
  <2> QED
    BY <1>1, <2>2 DEF TileFetched, Trimmed, LastTrim, Leaves
<1>2. ASSUME NEW i \in DOMAIN puts, TilePutFails(i) PROVE TileCacheInv'
  <2>1. puts' \in Seq(Tile) /\ Len(puts') = Len(puts) - 1
    BY <1>0, <1>2, RemovedAt DEF TilePutFails
  <2> QED
    BY <1>0, <1>2, <2>1 DEF TilePutFails, Trimmed, LastTrim, Leaves
<1>3. ASSUME NEW i \in DOMAIN puts, TilePut(i) PROVE TileCacheInv'
  <2> DEFINE x == puts[i]
             less == RemoveFirst(tiles, x)
  <2>1. puts' \in Seq(Tile) /\ Len(puts') = Len(puts) - 1
    BY <1>0, <1>3, RemovedAt DEF TilePut
  <2>2. x \in Tile /\ tiles' = Append(less, x)
    BY <1>0, <1>3 DEF TilePut
  <2>3. less \in Seq(Tile) /\ IsInjective(less) /\ ToSet(less) = S \ {x}
        /\ Len(less) = IF x \in S THEN Len(tiles) - 1 ELSE Len(tiles)
    BY RemovedFirst
  <2> HIDE DEF less, x
  <2>4. /\ tiles' \in Seq(Tile) /\ IsInjective(tiles') /\ ToSet(tiles') = S \cup {x}
        /\ Len(tiles') = Len(less) + 1
    <3>1. x \notin ToSet(less)
      BY <2>3
    <3>2. /\ tiles' \in Seq(Tile) /\ Len(tiles') = Len(less) + 1 /\ ToSet(tiles') = ToSet(less) \cup {x}
          /\ IsInjective(tiles')
      BY <2>2, <2>3, <3>1, Appended
    <3>3. (S \ {x}) \cup {x} = S \cup {x}
      OBVIOUS
    <3> QED
      BY <2>3, <3>2, <3>3
  <2>5. Len(tiles') <= Len(tiles) + 1
    BY <1>0, <2>3, <2>4
  <2>6. UNCHANGED untrimmed /\ tileInsertCount' = CountedPut(tileInsertCount) /\ Len(trims') <= MaxTrims
    BY <1>3 DEF TilePut
  <2>7. CASE tileInsertCount + 1 >= TrimEvery
    <3>1. tileInsertCount' = 0 /\ trims' = Append(trims, Unread)
      BY <1>3, <2>7 DEF TilePut, CountedPut
    <3>2. Unread \in States
      OBVIOUS
    <3>3. /\ trims' \in Seq(States) /\ Len(trims') = n + 1 /\ trims'[n + 1] = Unread
          /\ \A k \in 1..n : trims'[k] = trims[k]
      BY <3>1, <3>2, AppendProperties
    <3>4. trims' # <<>> /\ LastTrim' = Unread
      BY <1>0, <3>3, EmptySeq DEF LastTrim
    <3>5. \A k \in 1..(n + 1) : k \in 1..n \/ k = n + 1
      BY <1>0
    <3>6. \A k \in 1..Len(trims') : trims'[k] = Unread \/ (trims'[k] \in Seq(Tile) /\ trims'[k] # <<>>)
      BY <3>3, <3>5
    <3>7. 0 \in 0..(TrimEvery - 1) /\ Len(puts') <= MaxPuts
      BY <1>0, <2>1
    <3> QED
      BY <2>1, <2>4, <2>6, <3>1, <3>3, <3>4, <3>6, <3>7
  <2>8. CASE ~(tileInsertCount + 1 >= TrimEvery)
    <3>1. tileInsertCount' = tileInsertCount + 1 /\ trims' = trims /\ tileInsertCount' \in 0..(TrimEvery - 1)
      BY <1>3, <2>8 DEF TilePut, CountedPut
    <3>2. Trimmed => Trimmed'
      BY <1>0, <2>4, <2>5, <3>1 DEF Trimmed
    <3>3. ASSUME Leaves(LastTrim) PROVE Leaves(LastTrim)'
      <4> DEFINE R == S \ ToSet(LastTrim)
                 T == (S \cup {x}) \ ToSet(LastTrim)
      <4>1. T \subseteq R \cup {x} /\ R \subseteq S
        OBVIOUS
      <4>2. IsFiniteSet(R) /\ Cardinality(R) \in Nat
        BY <1>0, <4>1, FS_Subset, FS_CardinalityType
      <4>3. IsFiniteSet(R \cup {x}) /\ Cardinality(R \cup {x}) <= Cardinality(R) + 1 /\ Cardinality(R \cup {x}) \in Nat
        <5>1. IsFiniteSet(R \cup {x}) /\ Cardinality(R \cup {x}) \in {Cardinality(R), Cardinality(R) + 1}
          BY <4>2, FS_AddElement
        <5> HIDE DEF R
        <5> QED
          BY <4>2, <5>1
      <4>4. Cardinality(T) <= Cardinality(R \cup {x}) /\ Cardinality(T) \in Nat
        BY <4>1, <4>3, FS_Subset, FS_CardinalityType
      <4>5. Cardinality(R) <= MaxTiles + tileInsertCount
        BY <3>3 DEF Leaves
      <4>6. T = (ToSet(tiles) \ ToSet(LastTrim))'
        BY <2>4, <3>1 DEF LastTrim
      <4> HIDE DEF R, T
      <4> QED
        BY <3>1, <4>2, <4>3, <4>4, <4>5, <4>6 DEF Leaves
    <3>4. LastTrim' = LastTrim /\ Len(puts') <= MaxPuts
      BY <1>0, <2>1, <3>1 DEF LastTrim
    <3>5. (Leaves(LastTrim))' <=> Cardinality(ToSet(tiles') \ ToSet(LastTrim')) <= MaxTiles + tileInsertCount'
      BY DEF Leaves
    <3> QED
      BY <2>1, <2>4, <2>6, <3>1, <3>2, <3>3, <3>4
  <2> QED
    BY <2>7, <2>8
<1>4. ASSUME NEW i \in DOMAIN trims, TrimReads(i) PROVE TileCacheInv'
  <2> DEFINE s == Surplus(tiles)
  <2>0. UNCHANGED <<tiles, tileInsertCount, puts>> /\ untrimmed' \in BOOLEAN
    <3>1. (s # <<>>) \in BOOLEAN
      OBVIOUS
    <3>2. untrimmed' = (untrimmed /\ s # <<>>)
      BY <1>4 DEF TrimReads
    <3>3. untrimmed' \in BOOLEAN
      BY <3>1, <3>2, Zenon
    <3> QED
      BY <1>4, <3>3 DEF TrimReads
  <2>1. CASE s = <<>>
    <3>1. trims' = RemoveAt(trims, i)
      BY <1>4, <2>1 DEF TrimReads
    <3>2. /\ trims' \in Seq(States) /\ Len(trims') = n - 1
          /\ \A k \in 1..(n - 1) : trims'[k] = IF k < i THEN trims[k] ELSE trims[k + 1]
      <4>1. trims \in Seq(States) /\ i \in 1..Len(trims)
        BY <1>0
      <4> HIDE DEF States, TileCacheInv, TileCacheTypeOK
      <4> QED
        BY <3>1, <4>1, RemovedAt
    <3>3. \A k \in 1..Len(trims') : trims'[k] = Unread \/ (trims'[k] \in Seq(Tile) /\ trims'[k] # <<>>)
      <4>1. ASSUME NEW k \in 1..(n - 1) PROVE \E j \in 1..n : trims'[k] = trims[j]
        <5>1. k \in 1..n /\ k + 1 \in 1..n
          BY <1>0
        <5> QED
          BY <3>2, <5>1
      <4> QED
        BY <3>2, <4>1
    <3>4. Len(tiles) <= MaxTiles
      <4>1. SUFFICES ASSUME Len(tiles) > MaxTiles PROVE FALSE
        BY <1>0
      <4> DEFINE m == Len(tiles) - MaxTiles
      <4>2. s = SubSeq(tiles, 1, m) /\ m \in Nat /\ m >= 1 /\ \A k \in 1..m : tiles[k] \in Tile
        <5>1. s = SubSeq(tiles, 1, m) /\ m \in Nat /\ m >= 1
          BY <1>0, <4>1 DEF Surplus
        <5>2. \A k \in 1..Len(tiles) : tiles[k] \in Tile
          BY ElementOfSeq
        <5> QED
          BY <1>0, <5>1, <5>2
      <4> HIDE DEF m
      <4>3. Len(SubSeq(tiles, 1, m)) = m
        BY <4>2, SubSeqProperties
      <4> QED
        <5>1. Len(<<>>) = 0
          BY EmptySeq
        <5>2. Len(s) = m
          BY <4>2, <4>3
        <5> HIDE DEF s
        <5> QED
          BY <2>1, <4>2, <5>1, <5>2
    <3>5. Trimmed'
      BY <1>0, <2>0, <3>4 DEF Trimmed
    <3> QED
      BY <1>0, <2>0, <3>2, <3>3, <3>5
  <2>2. CASE s # <<>>
    <3>1. trims' = [trims EXCEPT ![i] = s]
      BY <1>4, <2>2 DEF TrimReads
    <3>2. s \in Seq(Tile) /\ Cardinality(S \ ToSet(s)) <= MaxTiles
      BY <2>2, SurplusLeaves
    <3> HIDE DEF s
    <3>3. trims' \in Seq(States) /\ Len(trims') = n /\ \A k \in 1..n : trims'[k] = IF k = i THEN s ELSE trims[k]
      <4>1. s \in States
        BY <3>2
      <4>2. trims' \in Seq(States) /\ Len(trims') = n
        BY <1>0, <3>1, <4>1, ExceptSeq
      <4> QED
        BY <1>0, <3>1, <4>2
    <3>4. \A k \in 1..Len(trims') : trims'[k] = Unread \/ (trims'[k] \in Seq(Tile) /\ trims'[k] # <<>>)
      BY <2>2, <3>2, <3>3
    <3>5. trims' # <<>> /\ n > 0
      BY <1>0, <3>3, EmptySeq
    <3>6. CASE i = n
      <4>1. LastTrim' = s
        BY <1>0, <3>3, <3>6 DEF LastTrim
      <4>2. Cardinality(S \ ToSet(s)) \in Nat
        BY <1>0, FS_Subset, FS_CardinalityType
      <4>3. Leaves(LastTrim)'
        BY <2>0, <3>2, <4>1, <4>2 DEF Leaves
      <4> QED
        BY <1>0, <2>0, <3>3, <3>4, <3>5, <4>3
    <3>7. CASE i # n
      <4>1. LastTrim' = LastTrim
        <5>1. n \in 1..n
          BY <1>0, <3>5
        <5> QED
          BY <3>3, <3>7, <5>1 DEF LastTrim
      <4>2. (Trimmed' <=> Trimmed) /\ (Leaves(LastTrim)' <=> Leaves(LastTrim))
        BY <2>0, <4>1 DEF Trimmed, Leaves
      <4> QED
        BY <1>0, <1>a, <2>0, <3>3, <3>4, <3>5, <4>1, <4>2
    <3> QED
      BY <3>6, <3>7
  <2> QED
    BY <2>1, <2>2
<1>5. ASSUME NEW i \in DOMAIN trims, TrimDeletes(i) PROVE TileCacheInv'
  <2> DEFINE q == trims[i]
             x == trims[i][1]
  <2>0. q \in Seq(Tile) /\ q # <<>> /\ n > 0 /\ Len(q) \in Nat /\ Len(q) >= 1 /\ Head(q) = x
    <3>1. q \in Seq(Tile) /\ q # <<>>
      BY <1>0, <1>5 DEF TrimDeletes
    <3> QED
      BY <1>0, <3>1, EmptySeq, LenProperties
  <2>1. UNCHANGED <<tileInsertCount, puts>> /\ untrimmed' \in BOOLEAN /\ tiles' = RemoveFirst(tiles, x)
    <3>1. (Len(trims[i]) > 1) \in BOOLEAN
      OBVIOUS
    <3>2. untrimmed' = (untrimmed /\ Len(trims[i]) > 1)
      BY <1>5 DEF TrimDeletes
    <3>3. untrimmed' \in BOOLEAN
      BY <3>1, <3>2, Zenon
    <3> QED
      BY <1>5, <3>3 DEF TrimDeletes
  <2>2. /\ tiles' \in Seq(Tile) /\ IsInjective(tiles') /\ ToSet(tiles') = S \ {x}
        /\ Len(tiles') <= Len(tiles) /\ Len(tiles') \in Nat
    <3>1. /\ tiles' \in Seq(Tile) /\ IsInjective(tiles') /\ ToSet(tiles') = S \ {x}
          /\ Len(tiles') = IF x \in S THEN Len(tiles) - 1 ELSE Len(tiles)
      BY <2>1, RemovedFirst
    <3> QED
      BY <1>0, <3>1, LenProperties
  <2>3. Trimmed => Trimmed'
    BY <1>0, <2>1, <2>2 DEF Trimmed
  <2>4. ASSUME NEW keys, NEW less, ToSet(keys) \subseteq ToSet(less) \cup {x}, Leaves(keys)
        PROVE  Cardinality(ToSet(tiles') \ ToSet(less)) <= MaxTiles + tileInsertCount'
    <3> DEFINE R == S \ ToSet(keys)
               T == (S \ {x}) \ ToSet(less)
    <3>1. T \subseteq R /\ R \subseteq S
      BY <2>4
    <3>2. IsFiniteSet(R) /\ Cardinality(R) \in Nat
      BY <1>0, <3>1, FS_Subset, FS_CardinalityType
    <3>3. Cardinality(T) <= Cardinality(R) /\ Cardinality(T) \in Nat
      BY <3>1, <3>2, FS_Subset, FS_CardinalityType
    <3>4. Cardinality(R) <= MaxTiles + tileInsertCount
      BY <2>4 DEF Leaves
    <3>5. ToSet(tiles') \ ToSet(less) = T
      BY <2>2
    <3>6. tileInsertCount' = tileInsertCount
      BY <2>1
    <3>7. Cardinality(T) <= MaxTiles + tileInsertCount
      <4> HIDE DEF R, T
      <4> QED
        BY <3>2, <3>3, <3>4
    <3> HIDE DEF R, T
    <3> QED
      BY <3>5, <3>6, <3>7
  <2>5. CASE Len(q) = 1
    <3>1. trims' = RemoveAt(trims, i)
      BY <1>5, <2>5 DEF TrimDeletes
    <3>2. /\ trims' \in Seq(States) /\ Len(trims') = n - 1
          /\ \A k \in 1..(n - 1) : trims'[k] = IF k < i THEN trims[k] ELSE trims[k + 1]
      <4>1. trims \in Seq(States) /\ i \in 1..Len(trims)
        BY <1>0
      <4> HIDE DEF States, TileCacheInv, TileCacheTypeOK
      <4> QED
        BY <3>1, <4>1, RemovedAt
    <3>3. \A k \in 1..Len(trims') : trims'[k] = Unread \/ (trims'[k] \in Seq(Tile) /\ trims'[k] # <<>>)
      <4>1. ASSUME NEW k \in 1..(n - 1) PROVE \E j \in 1..n : trims'[k] = trims[j]
        <5>1. k \in 1..n /\ k + 1 \in 1..n
          BY <1>0
        <5> QED
          BY <3>2, <5>1
      <4> QED
        BY <3>2, <4>1
    <3>4. CASE i = n
      <4>1. LastTrim = q /\ ToSet(q) \subseteq {x}
        <5>1. ToSet(q) = {q[k] : k \in 1..1}
          BY <2>0, <2>5, ToSetOfSeq
        <5> QED
          BY <3>4, <5>1 DEF LastTrim
      <4>2. q # Unread
        BY <1>5 DEF TrimDeletes
      <4>3. ASSUME Leaves(q) PROVE Trimmed'
        <5>1. ToSet(<<>>) = {}
          BY DEF ToSet
        <5>2. Cardinality(ToSet(tiles') \ ToSet(<<>>)) <= MaxTiles + tileInsertCount'
          BY <2>4, <4>1, <4>3, <5>1
        <5>3. ToSet(tiles') \ ToSet(<<>>) = ToSet(tiles')
          BY <5>1
        <5>4. Cardinality(ToSet(tiles')) = Len(tiles')
          BY <2>2, LengthOfInjective
        <5> QED
          BY <5>2, <5>3, <5>4 DEF Trimmed
      <4>4. Trimmed'
        BY <1>a, <2>0, <2>3, <4>1, <4>2, <4>3
      <4> QED
        BY <1>0, <2>1, <2>2, <3>2, <3>3, <4>4
    <3>5. CASE i # n
      <4>1. LastTrim' = LastTrim /\ trims' # <<>>
        <5>1. n - 1 \in 1..(n - 1) /\ ~(n - 1 < i) /\ n - 1 + 1 = n
          BY <1>0, <3>5
        <5>2. trims'[n - 1] = trims[n - 1 + 1]
          BY <3>2, <5>1
        <5>3. trims' # <<>>
          BY <3>2, <5>1, EmptySeq
        <5> QED
          BY <1>0, <3>2, <5>1, <5>2, <5>3 DEF LastTrim
      <4>2. ASSUME Leaves(LastTrim) PROVE Leaves(LastTrim)'
        BY <2>4, <4>1, <4>2 DEF Leaves
      <4>3. Trimmed' \/ LastTrim' = Unread \/ Leaves(LastTrim)'
        BY <1>a, <2>0, <2>3, <4>1, <4>2
      <4> QED
        BY <1>0, <2>1, <2>2, <3>2, <3>3, <4>1, <4>3
    <3> QED
      BY <3>4, <3>5
  <2>6. CASE Len(q) # 1
    <3>1. trims' = [trims EXCEPT ![i] = Tail(q)]
      BY <1>5, <2>6 DEF TrimDeletes
    <3>2. Tail(q) \in Seq(Tile) /\ Len(Tail(q)) = Len(q) - 1 /\ Tail(q) # <<>>
      <4>1. Tail(q) \in Seq(Tile) /\ Len(Tail(q)) = Len(q) - 1
        BY <2>0, ToSetOfTail
      <4>2. Len(Tail(q)) # 0
        BY <2>0, <2>6, <4>1
      <4>3. Len(<<>>) = 0
        BY EmptySeq
      <4> DEFINE t == Tail(q)
      <4> HIDE DEF t
      <4>4. t # <<>>
        BY <4>2, <4>3 DEF t
      <4> QED
        BY <4>1, <4>4 DEF t
    <3>3. ToSet(q) \subseteq ToSet(Tail(q)) \cup {x}
      <4>1. \A k \in 1..Len(Tail(q)) : Tail(q)[k] = q[k + 1]
        BY <2>0, HeadTailProperties
      <4>2. ToSet(q) = {q[k] : k \in 1..Len(q)} /\ ToSet(Tail(q)) = {Tail(q)[k] : k \in 1..Len(Tail(q))}
        BY <2>0, <3>2, ToSetOfSeq
      <4>3. ASSUME NEW k \in 1..Len(q) PROVE q[k] = x \/ q[k] \in ToSet(Tail(q))
        <5>1. CASE k = 1
          BY <5>1
        <5>2. CASE k # 1
          <6>1. k - 1 \in 1..Len(Tail(q)) /\ k - 1 + 1 = k
            BY <2>0, <3>2, <5>2
          <6>2. Tail(q)[k - 1] = q[k - 1 + 1]
            BY <4>1, <6>1
          <6> QED
            BY <4>2, <6>1, <6>2
        <5> QED
          BY <5>1, <5>2
      <4> QED
        BY <4>2, <4>3
    <3>4. trims' \in Seq(States) /\ Len(trims') = n /\ \A k \in 1..n : trims'[k] = IF k = i THEN Tail(q) ELSE trims[k]
      <4>1. Tail(q) \in States
        BY <3>2
      <4>2. trims' \in Seq(States) /\ Len(trims') = n
        BY <1>0, <3>1, <4>1, ExceptSeq
      <4> QED
        BY <1>0, <3>1, <4>2
    <3>5. \A k \in 1..Len(trims') : trims'[k] = Unread \/ (trims'[k] \in Seq(Tile) /\ trims'[k] # <<>>)
      BY <3>2, <3>4
    <3>6. trims' # <<>> /\ n \in 1..n
      BY <1>0, <2>0, <3>4, EmptySeq
    <3>7. CASE i = n
      <4>1. LastTrim = q /\ LastTrim' = Tail(q)
        BY <3>4, <3>6, <3>7 DEF LastTrim
      <4>2. q # Unread
        BY <1>5 DEF TrimDeletes
      <4>3. ASSUME Leaves(q) PROVE Leaves(LastTrim)'
        BY <2>4, <3>3, <4>1, <4>3 DEF Leaves
      <4>4. Trimmed' \/ Leaves(LastTrim)'
        BY <1>a, <2>0, <2>3, <4>1, <4>2, <4>3
      <4> QED
        BY <1>0, <2>1, <2>2, <3>4, <3>5, <3>6, <4>4
    <3>8. CASE i # n
      <4>1. LastTrim' = LastTrim
        BY <3>4, <3>6, <3>8 DEF LastTrim
      <4>2. ASSUME Leaves(LastTrim) PROVE Leaves(LastTrim)'
        BY <2>4, <4>1, <4>2 DEF Leaves
      <4>3. Trimmed' \/ LastTrim' = Unread \/ Leaves(LastTrim)'
        BY <1>a, <2>0, <2>3, <4>1, <4>2
      <4> QED
        BY <1>0, <2>1, <2>2, <3>4, <3>5, <3>6, <4>3
    <3> QED
      BY <3>7, <3>8
  <2> QED
    BY <2>5, <2>6
<1>6. CASE WorkerRestarts
  <2>1. untrimmed' \in BOOLEAN /\ untrimmed'
    BY <1>6, Zenon DEF WorkerRestarts
  <2>2. Len(<<>>) = 0 /\ <<>> \in Seq(Tile) /\ <<>> \in Seq(States)
    OBVIOUS
  <2> QED
    BY <1>6, <2>1, <2>2 DEF WorkerRestarts
<1> QED
  BY <1>1, <1>2, <1>3, <1>4, <1>5, <1>6 DEF TileCacheNext

\* The invariant is about the variables of the tiles.
LEMMA TileCacheStutter == ASSUME TileCacheInv, UNCHANGED tileCacheVars PROVE TileCacheInv'
BY DEF TileCacheInv, TileCacheTypeOK, Trimmed, LastTrim, Leaves, tileCacheVars

\* So the cache is bounded when no trim is under way.
LEMMA TileCacheInvGives == ASSUME TileCacheInv PROVE TileCacheTypeOK /\ TilesBounded
BY DEF TileCacheInv, TilesBounded, Trimmed

-----------------------------------------------------------------------------
(* The files of the service worker. *)
\* Versions of some files, and a cache of them.
FileVersions == UNION {[D -> Version] : D \in SUBSET File}
CacheRecord == [name : Version, files : FileVersions]
\* Caches of different names, with no file older than its cache.
CachesKept(all) ==
    /\ all \in Seq(CacheRecord)
    /\ \A i, j \in DOMAIN all : all[i].name = all[j].name => i = j
    /\ \A i \in DOMAIN all : \A f \in DOMAIN all[i].files : all[i].files[f] >= all[i].name

ServiceWorkerInv ==
    /\ ServiceWorkerTypeOK /\ IsFiniteSet(latePuts)
    /\ CachesKept(caches) /\ worker <= deployed /\ installing <= deployed
    /\ worker # 0 => Len(caches) >= 1 /\ caches[1].name = worker
    /\ worker = 0 => latePuts = {}
    /\ installing # 0 => \E i \in DOMAIN caches : caches[i].name = installing
    /\ \A put \in latePuts : put.by <= put.is

\* No worker is active at first, and there are no caches.
LEMMA ServiceWorkerInvInit == ServiceWorkerInit => ServiceWorkerInv
<1> SUFFICES ASSUME ServiceWorkerInit PROVE ServiceWorkerInv
  OBVIOUS
<1>1. IsFiniteSet({}) /\ Cardinality({}) = 0
  BY FS_EmptySet
<1>2. Len(caches) = 0 /\ DOMAIN caches = {} /\ caches \in Seq(CacheRecord)
  BY DEF ServiceWorkerInit
<1> QED
  BY <1>1, <1>2, ServiceWorkerAssumption
  DEF ServiceWorkerInit, ServiceWorkerInv, ServiceWorkerTypeOK, CachesKept, Version

\* What is put goes into the cache of its name, which comes after the others when there was none,
\* and the caches stay in their order.
LEMMA PutKeeps ==
    ASSUME NEW all, CachesKept(all), NEW name \in Version, NEW files \in FileVersions,
           \A f \in DOMAIN files : files[f] >= name
    PROVE  /\ CachesKept(Put(all, name, files)) /\ Len(Put(all, name, files)) >= Len(all)
           /\ \A i \in DOMAIN all : i \in DOMAIN Put(all, name, files) /\ Put(all, name, files)[i].name = all[i].name
           /\ \E i \in DOMAIN Put(all, name, files) : Put(all, name, files)[i].name = name
<1> USE ServiceWorkerAssumption DEF CachesKept, Version
<1> DEFINE at == {i \in DOMAIN all : all[i].name = name}
           merged(old) == [f \in DOMAIN old \cup DOMAIN files |-> IF f \in DOMAIN files THEN files[f] ELSE old[f]]
           p == Put(all, name, files)
<1>1. PICK D \in SUBSET File : files \in [D -> Version]
  BY DEF FileVersions
<1>2. Len(all) \in Nat /\ DOMAIN all = 1..Len(all) /\ \A i \in DOMAIN all : all[i] \in CacheRecord
  BY LenProperties, ElementOfSeq
<1>3. CASE at = {}
  <2> DEFINE c == [name |-> name, files |-> files]
  <2>1. p = Append(all, c) /\ c \in CacheRecord
    BY <1>3 DEF Put, CacheRecord
  <2>2. /\ p \in Seq(CacheRecord) /\ Len(p) = Len(all) + 1 /\ p[Len(all) + 1] = c
        /\ \A i \in 1..Len(all) : p[i] = all[i]
    BY <2>1, AppendProperties
  <2>3. DOMAIN p = 1..(Len(all) + 1)
    BY <2>2, LenProperties
  <2> HIDE DEF p
  <2>4. ASSUME NEW i \in DOMAIN p, NEW j \in DOMAIN p, p[i].name = p[j].name PROVE i = j
    BY <1>2, <1>3, <2>2, <2>3, <2>4
  <2>5. ASSUME NEW i \in DOMAIN p, NEW f \in DOMAIN p[i].files PROVE p[i].files[f] >= p[i].name
    BY <1>2, <2>2, <2>3
  <2>6. \A i \in DOMAIN all : i \in DOMAIN p /\ p[i].name = all[i].name
    BY <1>2, <2>2, <2>3
  <2>7. Len(all) + 1 \in DOMAIN p /\ p[Len(all) + 1].name = name
    BY <1>2, <2>2, <2>3
  <2> QED
    BY <1>2, <2>2, <2>4, <2>5, <2>6, <2>7 DEF p
<1>4. CASE at # {}
  <2>1. p = [i \in DOMAIN all |-> IF i \in at THEN [all[i] EXCEPT !.files = merged(@)] ELSE all[i]]
    BY <1>4 DEF Put
  <2>2. ASSUME NEW i \in DOMAIN all
        PROVE  /\ p[i] \in CacheRecord /\ p[i].name = all[i].name
               /\ \A f \in DOMAIN p[i].files : p[i].files[f] >= p[i].name
    <3>1. CASE i \notin at
      <4>1. p[i] = all[i]
        BY <2>1, <3>1
      <4> QED
        BY <1>2, <4>1
    <3>2. CASE i \in at
      <4>1. p[i] = [all[i] EXCEPT !.files = merged(all[i].files)]
        BY <2>1, <3>2
      <4>2. p[i].name = name /\ p[i].files = merged(all[i].files) /\ all[i].name = name
        BY <1>2, <3>2, <4>1 DEF CacheRecord
      <4>3. PICK E \in SUBSET File : all[i].files \in [E -> Version]
        <5>1. all[i].files \in FileVersions
          BY <1>2 DEF CacheRecord
        <5> QED
          BY <5>1 DEF FileVersions
      <4>4. merged(all[i].files) \in [E \cup D -> Version]
        BY <1>1, <4>3
      <4>5. merged(all[i].files) \in FileVersions
        BY <4>4 DEF FileVersions
      <4>6. p[i] \in CacheRecord
        BY <1>2, <4>1, <4>5 DEF CacheRecord
      <4>7. \A f \in DOMAIN merged(all[i].files) : merged(all[i].files)[f] >= name
        BY <4>2
      <4> HIDE DEF merged, p
      <4> QED
        BY <4>2, <4>6, <4>7
    <3> QED
      BY <3>1, <3>2
  <2>3. DOMAIN p = DOMAIN all /\ p \in Seq(CacheRecord) /\ Len(p) = Len(all)
    <3>1. p \in [1..Len(all) -> CacheRecord]
      <4>1. DOMAIN p = 1..Len(all) /\ p = [i \in 1..Len(all) |-> p[i]]
        BY <1>2, <2>1
      <4> HIDE DEF p
      <4> QED
        BY <1>2, <2>2, <4>1
    <3> HIDE DEF p
    <3> QED
      BY <1>2, <3>1, SeqDef, LenProperties
  <2>4. PICK i \in DOMAIN all : all[i].name = name
    BY <1>4
  <2> HIDE DEF p
  <2> QED
    BY <1>2, <2>2, <2>3, <2>4 DEF p
<1> QED
  BY <1>3, <1>4

\* Every step of the worker keeps the invariant.
LEMMA ServiceWorkerStep == ASSUME ServiceWorkerInv, ServiceWorkerNext PROVE ServiceWorkerInv'
<1> USE ServiceWorkerAssumption DEF ServiceWorkerInv, ServiceWorkerTypeOK, Version
<1>0. Len(caches) \in Nat /\ DOMAIN caches = 1..Len(caches) /\ \A i \in DOMAIN caches : caches[i] \in CacheRecord
  BY LenProperties, ElementOfSeq DEF CachesKept
<1>1. CASE Deploy
  BY <1>1 DEF Deploy
<1>2. CASE Install
  <2>1. PICK fetched \in SUBSET File : caches' = Put(caches, deployed, [f \in fetched |-> deployed])
    BY <1>2 DEF Install
  <2> DEFINE files == [f \in fetched |-> deployed]
  <2>2. files \in FileVersions /\ \A f \in DOMAIN files : files[f] >= deployed
    BY DEF FileVersions
  <2> HIDE DEF files
  <2>3. /\ CachesKept(caches') /\ Len(caches') >= Len(caches)
        /\ \A i \in DOMAIN caches : i \in DOMAIN caches' /\ caches'[i].name = caches[i].name
        /\ \E i \in DOMAIN caches' : caches'[i].name = deployed
    <3>1. caches' = Put(caches, deployed, files)
      BY <2>1 DEF files
    <3>2. CachesKept(caches) /\ deployed \in Version
      OBVIOUS
    <3> HIDE DEF ServiceWorkerInv, ServiceWorkerTypeOK, Version
    <3>3. /\ CachesKept(Put(caches, deployed, files)) /\ Len(Put(caches, deployed, files)) >= Len(caches)
          /\ \A i \in DOMAIN caches : /\ i \in DOMAIN Put(caches, deployed, files)
                                      /\ Put(caches, deployed, files)[i].name = caches[i].name
          /\ \E i \in DOMAIN Put(caches, deployed, files) : Put(caches, deployed, files)[i].name = deployed
      BY <2>2, <3>2, PutKeeps
    <3> QED
      BY <3>1, <3>3
  <2>4. UNCHANGED <<deployed, worker, latePuts>> /\ installing' = deployed
    BY <1>2 DEF Install
  <2>5. Len(caches') \in Nat /\ DOMAIN caches' = 1..Len(caches') /\ \A i \in DOMAIN caches' : caches'[i] \in CacheRecord
    BY <2>3, LenProperties, ElementOfSeq DEF CachesKept
  <2>6. \A i \in DOMAIN caches' : caches'[i].name \in Version /\ DOMAIN caches'[i].files \subseteq File
    BY <2>5 DEF CacheRecord, FileVersions
  <2> QED
    BY <1>0, <2>3, <2>4, <2>5, <2>6 DEF CachesKept
<1>3. CASE Activate
  <2> DEFINE at == {i \in DOMAIN caches : caches[i].name = installing}
             n == CHOOSE i \in at : TRUE
             c == caches[n]
  <2>1. at # {} /\ n \in at
    BY <1>3 DEF Activate
  <2>2. caches' = <<c>> /\ c \in CacheRecord /\ c.name = installing
    BY <1>0, <1>3, <2>1 DEF Activate, OthersDeleted
  <2>3. \A f \in DOMAIN c.files : c.files[f] >= c.name
    BY <2>1 DEF CachesKept
  <2>4. DOMAIN c.files \subseteq File /\ c.name \in Version
    BY <2>2 DEF CacheRecord, FileVersions
  <2> HIDE DEF c
  <2>5. caches' \in Seq(CacheRecord) /\ DOMAIN caches' = {1} /\ Len(caches') = 1 /\ caches'[1] = c
    BY <2>2
  <2>6. CachesKept(caches')
    BY <2>3, <2>5 DEF CachesKept
  <2>7. worker' = installing /\ installing' = 0 /\ UNCHANGED <<deployed, latePuts>> /\ installing # 0
    BY <1>3 DEF Activate
  <2> QED
    BY <2>2, <2>4, <2>5, <2>6, <2>7
<1>4. ASSUME NEW file \in File, FileFetched(file) PROVE ServiceWorkerInv'
  <2> DEFINE late == [by |-> worker, file |-> file, is |-> deployed]
  <2>1. late \in [by : Version, file : File, is : Version] /\ late.by <= late.is
    BY <1>4 DEF FileFetched
  <2>2. IsFiniteSet(latePuts \cup {late})
    BY OneMore
  <2> HIDE DEF late
  <2> QED
    BY <1>4, <2>1, <2>2 DEF FileFetched, late
<1>5. ASSUME NEW put \in latePuts, LatePut(put) PROVE ServiceWorkerInv'
  <2> DEFINE files == [f \in {put.file} |-> put.is]
  <2>1. put \in [by : Version, file : File, is : Version] /\ put.by <= put.is
    OBVIOUS
  <2>2. files \in FileVersions /\ \A f \in DOMAIN files : files[f] >= put.by
    <3>2. {put.file} \in SUBSET File /\ put.is \in Version
      BY <2>1
    <3>3. files \in [{put.file} -> Version]
      BY <3>2
    <3>4. files \in FileVersions
      <4> HIDE DEF files
      <4>1. [{put.file} -> Version] \in {[D -> Version] : D \in SUBSET File}
        BY <3>2
      <4> QED
        BY <3>3, <4>1 DEF FileVersions
    <3>5. \A f \in DOMAIN files : files[f] = put.is
      OBVIOUS
    <3> HIDE DEF files
    <3> QED
      BY <2>1, <3>4, <3>5
  <2> HIDE DEF files
  <2>3. /\ CachesKept(caches') /\ Len(caches') >= Len(caches)
        /\ \A i \in DOMAIN caches : i \in DOMAIN caches' /\ caches'[i].name = caches[i].name
    <3>1. caches' = Put(caches, put.by, files) /\ put.by \in Version
      BY <1>5, <2>1 DEF files, LatePut
    <3>2. CachesKept(caches)
      OBVIOUS
    <3> HIDE DEF ServiceWorkerInv, ServiceWorkerTypeOK, Version
    <3>3. /\ CachesKept(Put(caches, put.by, files)) /\ Len(Put(caches, put.by, files)) >= Len(caches)
          /\ \A i \in DOMAIN caches : /\ i \in DOMAIN Put(caches, put.by, files)
                                      /\ Put(caches, put.by, files)[i].name = caches[i].name
      BY <2>2, <3>1, <3>2, PutKeeps
    <3> QED
      BY <3>1, <3>3
  <2>4. UNCHANGED <<deployed, worker, installing>> /\ latePuts' = latePuts \ {put}
    BY <1>5 DEF LatePut
  <2>5. Len(caches') \in Nat /\ DOMAIN caches' = 1..Len(caches') /\ \A i \in DOMAIN caches' : caches'[i] \in CacheRecord
    BY <2>3, LenProperties, ElementOfSeq DEF CachesKept
  <2>6. \A i \in DOMAIN caches' : caches'[i].name \in Version /\ DOMAIN caches'[i].files \subseteq File
    BY <2>5 DEF CacheRecord, FileVersions
  <2>7. IsFiniteSet(latePuts \ {put}) /\ Cardinality(latePuts \ {put}) <= MaxLatePuts
    BY OneLess
  <2>8. worker' # 0 => Len(caches') >= 1 /\ caches'[1].name = worker'
    BY <1>0, <2>3, <2>4, <2>5
  <2>9. installing' # 0 => \E i \in DOMAIN caches' : caches'[i].name = installing'
    BY <2>3, <2>4
  <2>10. \A i, j \in DOMAIN caches' : caches'[i].name = caches'[j].name => i = j
    BY <2>3 DEF CachesKept
  <2>11. latePuts' \subseteq [by : Version, file : File, is : Version] /\ \A p \in latePuts' : p.by <= p.is
    BY <2>4
  <2>12. worker' = 0 => latePuts' = {}
    BY <2>4
  <2> QED
    BY <2>3, <2>4, <2>6, <2>7, <2>8, <2>9, <2>10, <2>11, <2>12
<1>6. ASSUME NEW put \in latePuts, PutLost(put) PROVE ServiceWorkerInv'
  <2>1. IsFiniteSet(latePuts \ {put}) /\ Cardinality(latePuts \ {put}) <= MaxLatePuts
    BY OneLess
  <2> QED
    BY <1>6, <2>1 DEF PutLost
<1> QED
  BY <1>1, <1>2, <1>3, <1>4, <1>5, <1>6 DEF ServiceWorkerNext

\* The invariant is about the variables of the worker.
LEMMA ServiceWorkerStutter == ASSUME ServiceWorkerInv, UNCHANGED serviceWorkerVars PROVE ServiceWorkerInv'
BY DEF ServiceWorkerInv, ServiceWorkerTypeOK, CachesKept, serviceWorkerVars

\* The cache of the active worker comes first, so its files are those that are served.
LEMMA ServiceWorkerInvGives == ASSUME ServiceWorkerInv PROVE ServiceWorkerTypeOK /\ ServiceWorkerSound
<1> USE ServiceWorkerAssumption DEF ServiceWorkerInv, ServiceWorkerTypeOK, Version
<1> DEFINE own == {i \in DOMAIN caches : caches[i].name = worker}
<1>1. DOMAIN caches = 1..Len(caches) /\ Len(caches) \in Nat
  BY LenProperties DEF CachesKept
<1>2. CASE worker = 0
  <2>1. own = {}
    BY <1>2
  <2>2. CacheOf(caches, worker) = <<>>
    BY <2>1 DEF CacheOf
  <2> QED
    BY <2>2 DEF ServiceWorkerSound
<1>3. CASE worker # 0
  <2>1. 1 \in DOMAIN caches /\ own = {1}
    BY <1>1, <1>3 DEF CachesKept
  <2>2. (CHOOSE i \in own : TRUE) = 1
    BY <2>1
  <2>3. CacheOf(caches, worker) = caches[1].files
    BY <2>1, <2>2 DEF CacheOf
  <2>4. ASSUME NEW file \in DOMAIN caches[1].files
        PROVE  Match(caches, file) = caches[1].files[file] /\ caches[1].files[file] >= worker
    <3> DEFINE at == {i \in DOMAIN caches : file \in DOMAIN caches[i].files}
    <3>1. 1 \in at /\ \A j \in at : 1 <= j
      BY <1>1, <2>1
    <3>2. (CHOOSE i \in at : \A j \in at : i <= j) = 1
      <4>1. \A i \in at : (\A j \in at : i <= j) => i = 1
        BY <1>1, <3>1
      <4> HIDE DEF at
      <4> QED
        BY <3>1, <4>1
    <3>3. Match(caches, file) = caches[1].files[file]
      BY <3>1, <3>2 DEF Match
    <3>4. caches[1].files[file] >= caches[1].name
      BY <2>1 DEF CachesKept
    <3> QED
      BY <1>3, <3>3, <3>4
  <2> QED
    BY <2>3, <2>4 DEF ServiceWorkerSound
<1> QED
  BY <1>2, <1>3

-----------------------------------------------------------------------------
(* The report. *)
ReportShown == Reports \cup {NoRows}
ReportRow == {<<report.id, dir, at>> : report \in ReportShown, dir \in {-1, 1}, at \in Int}
Render == [stage : {"frame", "chunk"}, live : BOOLEAN, rows : Seq(ReportRow), total : Nat]
\* Rows of one report and order that follow each other.
RowsInARow(rows) ==
    /\ rows \in Seq(ReportRow)
    /\ \A i \in 1..(Len(rows) - 1) :
          rows[i][1] = rows[i + 1][1] /\ rows[i][2] = rows[i + 1][2] /\ rows[i][3] + 1 = rows[i + 1][3]
PageRows == RowsOf(reportData, sortDir, FirstRow(reportPage), LastRow(reportPage, reportData.rows))
Settled == \A r \in renders : r.live => r.stage = "chunk"
PagerWell == pager.last \in Nat /\ ButtonsReachEveryPage

ReportViewInv ==
    /\ ReportViewTypeOK /\ renders \subseteq Render
    /\ \A r, s \in renders : r.live /\ s.live => r = s
    /\ RowsInARow(tableBody) /\ PagerWell
    /\ \A r \in renders : r.live /\ r.stage = "chunk" => RowsInARow(tableBody \o r.rows)
    /\ tableShown /\ Settled => reportPage \in 1..Pages(reportData.rows)
    /\ tableShown /\ (\A r \in renders : ~r.live) => tableBody = PageRows
    /\ \A r \in renders : tableShown /\ r.live /\ r.stage = "chunk" =>
                              tableBody \o r.rows = PageRows /\ r.total = reportData.rows

\* There are no rows and no renders at first.
LEMMA ReportViewInvInit == ReportViewInit => ReportViewInv
<1> SUFFICES ASSUME ReportViewInit PROVE ReportViewInv
  OBVIOUS
<1>1. {tableShown, smallScreen, viewingRun, runAsked} \subseteq BOOLEAN
  BY Zenon DEF ReportViewInit
<1>2. <<>> \in Seq(ReportRow) /\ Len(<<>>) = 0
  BY EmptySeq
<1>3. RowsInARow(<<>>)
  BY <1>2 DEF RowsInARow
<1>4. pager.buttons = <<>> /\ pager.last = 0
  BY DEF ReportViewInit, NoPager
<1>5. ~tableShown /\ renders = {} /\ tableBody = <<>>
  BY DEF ReportViewInit
<1> QED
  BY <1>1, <1>3, <1>4, <1>5
  DEF ReportViewInit, ReportViewInv, ReportViewTypeOK, PagerWell, ButtonsReachEveryPage

-----------------------------------------------------------------------------
\* A page is within the pages of the rows, once clamped.
LEMMA PagesOfRows ==
    ASSUME reportPageSize \in PageSizes \cup {All}, NEW n \in Nat, NEW p \in Int
    PROVE  /\ Pages(n) \in Nat \ {0} /\ Clamped(p, n) \in 1..Pages(n)
           /\ p \in 1..Pages(n) => Clamped(p, n) = p
<1> USE ReportViewAssumption
<1>1. Pages(n) \in Nat \ {0}
  <2>1. CASE IsAll \/ n = 0
    BY <2>1 DEF Pages
  <2>2. CASE ~IsAll /\ n # 0
    <3>1. reportPageSize \in Nat \ {0} /\ n + reportPageSize - 1 \in Nat
      BY <2>2 DEF IsAll
    <3> DEFINE a == n + reportPageSize - 1
    <3>2. a \in Nat /\ a >= reportPageSize
      BY <2>2, <3>1
    <3> HIDE DEF a
    <3>3. a \div reportPageSize \in Nat /\ a \div reportPageSize >= 1
      BY <3>1, <3>2, DivisionIs
    <3>4. Pages(n) = a \div reportPageSize
      BY <2>2 DEF Pages, a
    <3> QED
      BY <3>3, <3>4
  <2> QED
    BY <2>1, <2>2
<1> QED
  BY <1>1 DEF Clamped

\* The rows of a page follow each other.
LEMMA RowsFollow ==
    ASSUME NEW report \in ReportShown, NEW dir \in {-1, 1}, NEW from \in Int, NEW to \in Int
    PROVE  RowsInARow(RowsOf(report, dir, from, to))
<1> DEFINE m == IF to - from + 1 < 0 THEN 0 ELSE to - from + 1
           rows == RowsOf(report, dir, from, to)
<1>1. m \in Nat /\ 1..m = 1..(to - from + 1)
  OBVIOUS
<1>2. rows = [i \in 1..m |-> <<report.id, dir, from + i - 1>>]
  BY <1>1 DEF RowsOf
<1> HIDE DEF m, rows
<1>3. \A i \in 1..m : rows[i] = <<report.id, dir, from + i - 1>> /\ rows[i] \in ReportRow
  <2> SUFFICES ASSUME NEW i \in 1..m PROVE rows[i] = <<report.id, dir, from + i - 1>> /\ rows[i] \in ReportRow
    OBVIOUS
  <2>1. from + i - 1 \in Int
    BY <1>1
  <2> QED
    BY <1>2, <2>1 DEF ReportRow
<1>4. rows \in Seq(ReportRow) /\ Len(rows) = m
  <2>1. rows \in [1..m -> ReportRow]
    BY <1>2, <1>3
  <2> QED
    BY <1>1, <2>1, SeqDef, LenProperties
<1>5. ASSUME NEW i \in 1..(m - 1)
      PROVE  rows[i][1] = rows[i + 1][1] /\ rows[i][2] = rows[i + 1][2] /\ rows[i][3] + 1 = rows[i + 1][3]
  <2>1. i \in 1..m /\ i + 1 \in 1..m
    BY <1>1
  <2>2. rows[i] = <<report.id, dir, from + i - 1>> /\ rows[i + 1] = <<report.id, dir, from + (i + 1) - 1>>
    BY <1>3, <2>1
  <2> QED
    BY <1>1, <2>2
<1> QED
  BY <1>4, <1>5 DEF RowsInARow, rows

\* A part of the rows from the first, and the rest.
LEMMA RowsParted ==
    ASSUME NEW rows \in Seq(ReportRow), NEW k \in 0..Len(rows)
    PROVE  /\ SubSeq(rows, 1, k) \in Seq(ReportRow) /\ SubSeq(rows, k + 1, Len(rows)) \in Seq(ReportRow)
           /\ SubSeq(rows, 1, k) \o SubSeq(rows, k + 1, Len(rows)) = rows
<1>1. Len(rows) \in Nat /\ \A i \in 1..Len(rows) : rows[i] \in ReportRow
  BY LenProperties, ElementOfSeq
<1>2. SubSeq(rows, 1, k) \in Seq(ReportRow) /\ SubSeq(rows, k + 1, Len(rows)) \in Seq(ReportRow)
  <2> DEFINE n == Len(rows)
  <2> HIDE DEF n
  <2>1. n \in Nat /\ k \in 0..n /\ \A i \in 1..n : rows[i] \in ReportRow
    BY <1>1 DEF n
  <2>2. (\A i \in 1..k : rows[i] \in ReportRow) /\ (\A i \in (k + 1)..n : rows[i] \in ReportRow)
    BY <2>1
  <2>3. SubSeq(rows, 1, k) \in Seq(ReportRow)
    BY <2>1, <2>2, SubSeqProperties
  <2>4. SubSeq(rows, k + 1, n) \in Seq(ReportRow)
    BY <2>1, <2>2, SubSeqProperties
  <2> QED
    BY <2>3, <2>4 DEF n
<1>3. SubSeq(rows, 1, k) \o SubSeq(rows, k + 1, Len(rows)) = SubSeq(rows, 1, Len(rows))
  <2>1. 1 \in 1..(Len(rows) + 1) /\ k \in (1 - 1)..Len(rows) /\ Len(rows) \in k..Len(rows)
    BY <1>1
  <2> QED
    BY <2>1, ConcatAdjacentSubSeq
<1>4. SubSeq(rows, 1, Len(rows)) = rows
  BY SubSeqFull
<1> QED
  BY <1>2, <1>3, <1>4

\* What stands before other rows in a row is in a row.
LEMMA RowsBefore ==
    ASSUME NEW p \in Seq(ReportRow), NEW q \in Seq(ReportRow), RowsInARow(p \o q)
    PROVE  RowsInARow(p)
<1> DEFINE n == Len(p)
           s == p \o q
<1>1. n \in Nat /\ Len(q) \in Nat
  BY LenProperties
<1>2. Len(s) = n + Len(q) /\ \A i \in 1..n : s[i] = p[i]
  <2>1. Len(s) = n + Len(q) /\ \A i \in 1..(n + Len(q)) : s[i] = IF i <= n THEN p[i] ELSE q[i - n]
    BY ConcatProperties
  <2> HIDE DEF n, s
  <2>2. \A i \in 1..n : i \in 1..(n + Len(q)) /\ i <= n
    BY <1>1
  <2> QED
    BY <2>1, <2>2
<1>3. ASSUME NEW i \in 1..(n - 1)
      PROVE  p[i][1] = p[i + 1][1] /\ p[i][2] = p[i + 1][2] /\ p[i][3] + 1 = p[i + 1][3]
  <2> HIDE DEF n, s
  <2>1. i \in 1..(Len(s) - 1) /\ i \in 1..n /\ i + 1 \in 1..n
    BY <1>1, <1>2
  <2>2. s[i][1] = s[i + 1][1] /\ s[i][2] = s[i + 1][2] /\ s[i][3] + 1 = s[i + 1][3]
    BY <2>1 DEF RowsInARow, s
  <2> QED
    BY <1>2, <2>1, <2>2
<1> QED
  BY <1>3 DEF RowsInARow

-----------------------------------------------------------------------------
\* A button has a number; the buttons b of n pages with the current page p reach every page.
ButtonNo == Int
Reach(b, p, n) ==
    /\ b[1] = 1 /\ b[Len(b)] = n /\ p \in ToSet(b)
    /\ \A i \in 1..(Len(b) - 1) : b[i] # 0 =>
           IF b[i + 1] # 0 THEN b[i + 1] = b[i] + 1 ELSE b[i + 2] > b[i] + 1
\* The m numbers from one, and the m elements of a sequence with the k of another behind.
Counts(u, from, m) == u \in Seq(ButtonNo) /\ Len(u) = m /\ \A i \in 1..m : u[i] = from + i - 1
Joined(b, a, c, m, k) ==
    /\ b \in Seq(ButtonNo) /\ Len(b) = m + k
    /\ (\A i \in 1..m : b[i] = a[i]) /\ (\A i \in 1..k : b[m + i] = c[i])

\* The numbers from one to another.
LEMMA UpToIs ==
    ASSUME NEW from \in Int, NEW to \in Int, NEW m \in Nat, m = to - from + 1
    PROVE  Counts(UpTo(from, to), from, m)
<1> DEFINE u == UpTo(from, to)
<1>1. u = [i \in 1..m |-> from + i - 1]
  BY DEF UpTo
<1>2. u \in [1..m -> ButtonNo]
  BY <1>1 DEF ButtonNo
<1>3. \A i \in 1..m : u[i] = from + i - 1
  BY <1>1
<1> HIDE DEF u
<1>4. u \in Seq(ButtonNo) /\ Len(u) = m
  BY <1>2, SeqDef, LenProperties
<1>5. Counts(u, from, m)
  BY <1>3, <1>4 DEF Counts
<1> QED
  BY <1>5 DEF u

\* Two sequences of numbers in a row.
LEMMA TwoOf ==
    ASSUME NEW a \in Seq(ButtonNo), NEW c \in Seq(ButtonNo), NEW m \in Nat, NEW k \in Nat, Len(a) = m, Len(c) = k
    PROVE  Joined(a \o c, a, c, m, k)
<1> DEFINE b == a \o c
<1>1. b \in Seq(ButtonNo) /\ Len(b) = m + k /\ \A i \in 1..(m + k) : b[i] = IF i <= m THEN a[i] ELSE c[i - m]
  BY ConcatProperties
<1> HIDE DEF b
<1>2. ASSUME NEW i \in 1..m PROVE b[i] = a[i]
  <2>1. i \in 1..(m + k) /\ i <= m
    OBVIOUS
  <2> QED
    BY <1>1, <2>1
<1>3. ASSUME NEW i \in 1..k PROVE b[m + i] = c[i]
  <2>1. m + i \in 1..(m + k) /\ ~(m + i <= m) /\ m + i - m = i
    OBVIOUS
  <2> QED
    BY <1>1, <2>1
<1>4. Joined(b, a, c, m, k)
  BY <1>1, <1>2, <1>3 DEF Joined
<1> QED
  BY <1>4 DEF b

\* The numbers of all pages.
LEMMA AllReach == ASSUME NEW n \in Nat \ {0}, NEW p \in 1..n PROVE Reach(UpTo(1, n), p, n)
<1> DEFINE b == UpTo(1, n)
<1>1. Counts(b, 1, n)
  <2>1. n \in Nat /\ n = n - 1 + 1
    OBVIOUS
  <2> QED
    BY <2>1, UpToIs
<1> HIDE DEF b
<1>2. b \in Seq(ButtonNo) /\ Len(b) = n /\ \A i \in 1..n : b[i] = i
  BY <1>1 DEF Counts
<1>3. p \in ToSet(b)
  <2>1. p \in 1..Len(b) /\ b[p] = p
    BY <1>2
  <2> QED
    BY <1>2, <2>1, MemberAt
<1>4. \A i \in 1..(n - 1) : i \in 1..n /\ i + 1 \in 1..n
  OBVIOUS
<1>5. b[1] = 1 /\ b[Len(b)] = n
  BY <1>2
<1>6. \A i \in 1..(n - 1) : b[i + 1] # 0 /\ b[i + 1] = b[i] + 1
  BY <1>2, <1>4
<1>7. Len(b) - 1 = n - 1
  BY <1>2
<1> QED
  BY <1>3, <1>5, <1>6, <1>7 DEF Reach, b

\* The buttons of a small screen.
LEMMA SmallReach == ASSUME NEW n \in Nat \ {0}, NEW p \in 1..n PROVE Reach(SmallButtons(p, n), p, n)
<1>1. CASE n <= 5
  BY <1>1, AllReach DEF SmallButtons
<1>2. CASE n > 5 /\ p <= 3
  <2> DEFINE b == <<1, 2, 3, 0, n>>
  <2>1. SmallButtons(p, n) = b
    BY <1>2 DEF SmallButtons
  <2>2. Len(b) = 5 /\ b[1] = 1 /\ b[2] = 2 /\ b[3] = 3 /\ b[4] = 0 /\ b[5] = n
    OBVIOUS
  <2>3. b \in Seq(ButtonNo)
    BY DEF ButtonNo
  <2> HIDE DEF b
  <2>4. p \in ToSet(b)
    <3>1. \E i \in 1..5 : b[i] = p
      BY <1>2, <2>2
    <3> QED
      BY <2>2, <2>3, <3>1, MemberAt
  <2>5. \A i \in 1..4 : i = 1 \/ i = 2 \/ i = 3 \/ i = 4
    OBVIOUS
  <2> QED
    BY <1>2, <2>1, <2>2, <2>4, <2>5 DEF Reach
<1>3. CASE n > 5 /\ p > 3 /\ p >= n - 2
  <2> DEFINE a == <<1, 0>>
             c == UpTo(n - 2, n)
             b == a \o c
  <2>1. SmallButtons(p, n) = b
    BY <1>3 DEF SmallButtons
  <2>2. Len(a) = 2 /\ a[1] = 1 /\ a[2] = 0
    OBVIOUS
  <2>3. a \in Seq(ButtonNo)
    BY DEF ButtonNo
  <2>4. Counts(c, n - 2, 3)
    <3>1. 3 = n - (n - 2) + 1 /\ n - 2 \in Int
      OBVIOUS
    <3> QED
      BY <3>1, UpToIs
  <2> HIDE DEF a, c
  <2>5. c \in Seq(ButtonNo) /\ Len(c) = 3 /\ c[1] = n - 2 /\ c[2] = n - 1 /\ c[3] = n
    BY <2>4 DEF Counts
  <2>6. Joined(b, a, c, 2, 3)
    BY <2>2, <2>3, <2>5, TwoOf
  <2> HIDE DEF b
  <2>7. b \in Seq(ButtonNo) /\ Len(b) = 5 /\ b[1] = 1 /\ b[2] = 0 /\ b[3] = n - 2 /\ b[4] = n - 1 /\ b[5] = n
    <3>1. b[1] = a[1] /\ b[2] = a[2] /\ b[2 + 1] = c[1] /\ b[2 + 2] = c[2] /\ b[2 + 3] = c[3]
      BY <2>6 DEF Joined
    <3> QED
      BY <2>2, <2>5, <2>6, <3>1 DEF Joined
  <2>8. p \in ToSet(b)
    <3>1. \E i \in 1..5 : b[i] = p
      BY <1>3, <2>7
    <3> QED
      BY <2>7, <3>1, MemberAt
  <2>9. \A i \in 1..4 : i = 1 \/ i = 2 \/ i = 3 \/ i = 4
    OBVIOUS
  <2> QED
    BY <1>3, <2>1, <2>7, <2>8, <2>9 DEF Reach
<1>4. CASE n > 5 /\ p > 3 /\ p < n - 2
  <2> DEFINE b == <<1, 0, p, 0, n>>
  <2>1. SmallButtons(p, n) = b
    BY <1>4 DEF SmallButtons
  <2>2. Len(b) = 5 /\ b[1] = 1 /\ b[2] = 0 /\ b[3] = p /\ b[4] = 0 /\ b[5] = n
    OBVIOUS
  <2>3. b \in Seq(ButtonNo)
    BY DEF ButtonNo
  <2> HIDE DEF b
  <2>4. p \in ToSet(b)
    <3>1. \E i \in 1..5 : b[i] = p
      BY <1>4, <2>2
    <3> QED
      BY <2>2, <2>3, <3>1, MemberAt
  <2>5. \A i \in 1..4 : i = 1 \/ i = 2 \/ i = 3 \/ i = 4
    OBVIOUS
  <2> QED
    BY <1>4, <2>1, <2>2, <2>4, <2>5 DEF Reach
<1> QED
  BY <1>1, <1>2, <1>3, <1>4

\* The buttons of a wide screen.
LEMMA WideReach == ASSUME NEW n \in Nat \ {0}, NEW p \in 1..n PROVE Reach(WideButtons(p, n), p, n)
<1>1. CASE n <= 9
  BY <1>1, AllReach DEF WideButtons
<1>2. CASE n > 9 /\ p <= 5
  <2> DEFINE a == UpTo(1, 6)
             c == <<0, n>>
             b == a \o c
  <2>1. WideButtons(p, n) = b
    BY <1>2 DEF WideButtons
  <2>2. Counts(a, 1, 6)
    BY UpToIs
  <2>3. Len(c) = 2 /\ c[1] = 0 /\ c[2] = n
    OBVIOUS
  <2>4. c \in Seq(ButtonNo)
    BY DEF ButtonNo
  <2> HIDE DEF a, c
  <2>5. a \in Seq(ButtonNo) /\ Len(a) = 6 /\ \A i \in 1..6 : a[i] = i
    BY <2>2 DEF Counts
  <2>6. Joined(b, a, c, 6, 2)
    BY <2>3, <2>4, <2>5, TwoOf
  <2> HIDE DEF b
  <2>7. b \in Seq(ButtonNo) /\ Len(b) = 8 /\ (\A i \in 1..6 : b[i] = i) /\ b[7] = 0 /\ b[8] = n
    <3>1. (\A i \in 1..6 : b[i] = a[i]) /\ b[6 + 1] = c[1] /\ b[6 + 2] = c[2]
      BY <2>6 DEF Joined
    <3> QED
      BY <2>3, <2>5, <2>6, <3>1 DEF Joined
  <2>8. p \in ToSet(b)
    <3>1. p \in 1..8 /\ b[p] = p
      BY <1>2, <2>7
    <3> QED
      BY <2>7, <3>1, MemberAt
  <2>9. \A i \in 1..7 : i \in 1..5 \/ i = 6 \/ i = 7
    OBVIOUS
  <2>10. \A i \in 1..5 : b[i] = i /\ b[i + 1] = i + 1
    BY <2>7
  <2>11. b[1] = 1 /\ b[6] = 6
    BY <2>7
  <2> QED
    BY <1>2, <2>1, <2>7, <2>8, <2>9, <2>10, <2>11 DEF Reach
<1>3. CASE n > 9 /\ p > 5 /\ p >= n - 4
  <2> DEFINE a == <<1, 0>>
             c == UpTo(n - 5, n)
             b == a \o c
  <2>1. WideButtons(p, n) = b
    BY <1>3 DEF WideButtons
  <2>2. Len(a) = 2 /\ a[1] = 1 /\ a[2] = 0
    OBVIOUS
  <2>3. a \in Seq(ButtonNo)
    BY DEF ButtonNo
  <2>4. Counts(c, n - 5, 6)
    <3>1. 6 = n - (n - 5) + 1 /\ n - 5 \in Int
      OBVIOUS
    <3> QED
      BY <3>1, UpToIs
  <2> HIDE DEF a, c
  <2>5. c \in Seq(ButtonNo) /\ Len(c) = 6 /\ \A i \in 1..6 : c[i] = n - 6 + i
    BY <2>4 DEF Counts
  <2>6. Joined(b, a, c, 2, 6)
    BY <2>2, <2>3, <2>5, TwoOf
  <2> HIDE DEF b
  <2>7. b \in Seq(ButtonNo) /\ Len(b) = 8 /\ b[1] = 1 /\ b[2] = 0
    <3>1. b[1] = a[1] /\ b[2] = a[2]
      BY <2>6 DEF Joined
    <3> QED
      BY <2>2, <2>6, <3>1 DEF Joined
  <2>8. ASSUME NEW i \in 3..8 PROVE b[i] = n - 8 + i
    <3> DEFINE k == i - 2
    <3>1. k \in 1..6 /\ i = 2 + k /\ n - 6 + k = n - 8 + i
      OBVIOUS
    <3> HIDE DEF k
    <3> QED
      BY <2>5, <2>6, <3>1 DEF Joined
  <2>9. p \in ToSet(b)
    <3> DEFINE k == p - n + 8
    <3>1. k \in 3..8 /\ k \in 1..8 /\ n - 8 + k = p
      BY <1>3
    <3> HIDE DEF k
    <3>2. k \in 1..8 /\ b[k] = p
      BY <2>8, <3>1
    <3> QED
      BY <2>7, <3>2, MemberAt
  <2>10. \A i \in 1..7 : i = 1 \/ i = 2 \/ i \in 3..7
    OBVIOUS
  <2>11. ASSUME NEW i \in 3..7 PROVE b[i] = n - 8 + i /\ b[i + 1] = n - 8 + i + 1
    <3>1. i \in 3..8 /\ i + 1 \in 3..8 /\ n - 8 + (i + 1) = n - 8 + i + 1
      OBVIOUS
    <3> QED
      BY <2>8, <3>1
  <2>12. b[3] = n - 5 /\ b[8] = n
    BY <2>8
  <2> QED
    BY <1>3, <2>1, <2>7, <2>9, <2>10, <2>11, <2>12 DEF Reach
<1>4. CASE n > 9 /\ p > 5 /\ p < n - 4
  <2> DEFINE a == <<1, 0>>
             c == UpTo(p - 2, p + 2)
             d == <<0, n>>
             e == a \o c
             b == e \o d
  <2>1. WideButtons(p, n) = b
    BY <1>4 DEF WideButtons
  <2>2. Len(a) = 2 /\ a[1] = 1 /\ a[2] = 0 /\ Len(d) = 2 /\ d[1] = 0 /\ d[2] = n
    OBVIOUS
  <2>3. a \in Seq(ButtonNo) /\ d \in Seq(ButtonNo)
    BY DEF ButtonNo
  <2>4. Counts(c, p - 2, 5)
    <3>1. 5 = (p + 2) - (p - 2) + 1 /\ p - 2 \in Int /\ p + 2 \in Int
      OBVIOUS
    <3> QED
      BY <3>1, UpToIs
  <2> HIDE DEF a, c, d
  <2>5. c \in Seq(ButtonNo) /\ Len(c) = 5 /\ \A i \in 1..5 : c[i] = p - 3 + i
    BY <2>4 DEF Counts
  <2>6. Joined(e, a, c, 2, 5)
    BY <2>2, <2>3, <2>5, TwoOf
  <2> HIDE DEF e
  <2>7. e \in Seq(ButtonNo) /\ Len(e) = 7
    BY <2>6 DEF Joined
  <2>8. Joined(b, e, d, 7, 2)
    BY <2>2, <2>3, <2>7, TwoOf
  <2> HIDE DEF b
  <2>9. b \in Seq(ButtonNo) /\ Len(b) = 9 /\ b[1] = 1 /\ b[2] = 0 /\ b[8] = 0 /\ b[9] = n
    <3>1. b[1] = e[1] /\ b[2] = e[2] /\ b[7 + 1] = d[1] /\ b[7 + 2] = d[2]
      BY <2>8 DEF Joined
    <3>2. e[1] = a[1] /\ e[2] = a[2]
      BY <2>6 DEF Joined
    <3> QED
      BY <2>2, <2>8, <3>1, <3>2 DEF Joined
  <2>10. ASSUME NEW i \in 3..7 PROVE b[i] = p - 5 + i
    <3> DEFINE k == i - 2
    <3>1. k \in 1..5 /\ i = 2 + k /\ i \in 1..7 /\ p - 3 + k = p - 5 + i
      OBVIOUS
    <3> HIDE DEF k
    <3>2. b[i] = e[2 + k]
      BY <2>8, <3>1 DEF Joined
    <3>3. e[2 + k] = c[k]
      BY <2>6, <3>1 DEF Joined
    <3> QED
      BY <2>5, <3>1, <3>2, <3>3
  <2>11. p \in ToSet(b)
    <3>1. 5 \in 1..9 /\ b[5] = p
      BY <2>10
    <3> QED
      BY <2>9, <3>1, MemberAt
  <2>12. \A i \in 1..8 : i = 1 \/ i = 2 \/ i \in 3..6 \/ i = 7 \/ i = 8
    OBVIOUS
  <2>13. ASSUME NEW i \in 3..6 PROVE b[i] = p - 5 + i /\ b[i + 1] = p - 5 + i + 1
    <3>1. i \in 3..7 /\ i + 1 \in 3..7 /\ p - 5 + (i + 1) = p - 5 + i + 1
      OBVIOUS
    <3> QED
      BY <2>10, <3>1
  <2>14. b[3] = p - 2 /\ b[7] = p + 2
    BY <2>10
  <2> QED
    BY <1>4, <2>1, <2>9, <2>11, <2>12, <2>13, <2>14 DEF Reach
<1> QED
  BY <1>1, <1>2, <1>3, <1>4

\* What is drawn below the table leads to every page, and the page is within them.
LEMMA PagerReaches ==
    ASSUME reportPageSize \in PageSizes \cup {All}, NEW n \in Nat, NEW p \in Nat \ {0}, NEW small, PagerDrawn(p, n, small)
    PROVE  /\ PagerWell' /\ reportPage' \in Nat \ {0}
           /\ n # 0 => reportPage' \in 1..Pages(n)
           /\ (p \in 1..Pages(n)) => reportPage' = p
<1>1. Pages(n) \in Nat \ {0} /\ Clamped(p, n) \in 1..Pages(n) /\ (p \in 1..Pages(n) => Clamped(p, n) = p)
  BY PagesOfRows
<1>2. CASE n = 0
  <2>1. pager' = NoPager /\ reportPage' = p
    BY <1>2 DEF PagerDrawn
  <2>2. pager'.buttons = <<>> /\ pager'.last = 0
    BY <2>1 DEF NoPager
  <2> QED
    BY <1>2, <2>1, <2>2 DEF PagerWell, ButtonsReachEveryPage
<1>3. CASE n # 0
  <2> DEFINE c == Clamped(p, n)
             m == Pages(n)
             b == IF m = 1 THEN <<>> ELSE IF small THEN SmallButtons(c, m) ELSE WideButtons(c, m)
  <2>1. pager' = [buttons |-> b, current |-> c, last |-> m] /\ reportPage' = c
    BY <1>3 DEF PagerDrawn
  <2> HIDE DEF c, m
  <2>2. m \in Nat \ {0} /\ c \in 1..m
    BY <1>1 DEF c, m
  <2>3. Reach(SmallButtons(c, m), c, m) /\ Reach(WideButtons(c, m), c, m)
    BY <2>2, SmallReach, WideReach
  <2>4. b = <<>> \/ Reach(b, c, m)
    BY <2>3
  <2> HIDE DEF b
  <2>5. pager'.buttons = b /\ pager'.current = c /\ pager'.last = m
    BY <2>1
  <2>6. PagerWell'
    BY <2>2, <2>4, <2>5 DEF PagerWell, ButtonsReachEveryPage, Reach
  <2> QED
    BY <1>1, <1>3, <2>1, <2>2, <2>6 DEF c, m
<1> QED
  BY <1>2, <1>3

\* What a begun render leaves: no chunk is awaited, and what is shown waits for a frame.
Redrawing ==
    /\ renders \subseteq Render /\ PagerWell
    /\ \A r, s \in renders : r.live /\ s.live => r = s
    /\ \A r \in renders : r.live => r.stage = "frame"
    /\ tableShown => \E r \in renders : r.live

\* Every render that is begun ends the one before it.
LEMMA RedrawingIs ==
    ASSUME ReportViewInv, NEW data, RenderBegun(data)
    PROVE  Redrawing' /\ tableShown' \in BOOLEAN
<1> USE DEF ReportViewInv
<1> DEFINE f == [stage |-> "frame", live |-> TRUE, rows |-> <<>>, total |-> 0]
<1>1. f \in Render
  <2>1. <<>> \in Seq(ReportRow)
    BY EmptySeq
  <2> QED
    BY <2>1 DEF Render
<1>2. \A q \in Superseded : q \in Render /\ ~q.live
  BY DEF Superseded, Render
<1>3. PagerWell'
  <2>1. pager' = NoPager \/ pager' = pager
    BY DEF RenderBegun
  <2>2. CASE pager' = NoPager
    <3>1. pager'.buttons = <<>> /\ pager'.last = 0
      BY <2>2 DEF NoPager
    <3> QED
      BY <3>1 DEF PagerWell, ButtonsReachEveryPage
  <2>3. CASE pager' = pager
    BY <2>3 DEF PagerWell, ButtonsReachEveryPage
  <2> QED
    BY <2>1, <2>2, <2>3
<1>4. CASE data.rows = 0
  <2>1. renders' = Superseded /\ tableShown' = FALSE
    BY <1>4 DEF RenderBegun
  <2> QED
    BY <1>2, <1>3, <2>1 DEF Redrawing
<1>5. CASE data.rows # 0
  <2>1. renders' = Superseded \cup {f} /\ tableShown' = tableShown
    BY <1>5 DEF RenderBegun
  <2>2. f.live /\ f.stage = "frame"
    OBVIOUS
  <2>3. tableShown \in BOOLEAN
    BY DEF ReportViewTypeOK
  <2> HIDE DEF f
  <2>4. \A q \in renders' : q.live => q = f
    BY <1>2, <2>1
  <2>5. tableShown' \in BOOLEAN
    BY <2>1, <2>3
  <2>6. renders' \subseteq Render
    BY <1>1, <1>2, <2>1
  <2>7. f \in renders'
    BY <2>1
  <2> QED
    BY <1>3, <2>2, <2>4, <2>5, <2>6, <2>7 DEF Redrawing
<1> QED
  BY <1>4, <1>5

\* No report has less than no rows.
LEMMA RowsAreCounted == \A report \in ReportShown : report.rows \in Nat
BY ReportViewAssumption DEF ReportShown, NoRows

\* Every action keeps the rows those of the page.
LEMMA ReportViewStep == ASSUME ReportViewInv, ReportViewNext PROVE ReportViewInv'
<1> USE ReportViewAssumption DEF ReportViewInv, ReportViewTypeOK
<1>0. /\ tableShown \in BOOLEAN /\ smallScreen \in BOOLEAN /\ viewingRun \in BOOLEAN /\ runAsked \in BOOLEAN
      /\ reportData \in ReportShown /\ reportData.rows \in Nat
  BY RowsAreCounted DEF ReportShown
<1>1. ASSUME ReportViewTypeOK', Redrawing', tableBody' = tableBody
      PROVE  ReportViewInv'
  <2>1. RowsInARow(tableBody')
    BY <1>1
  <2>2. (tableShown /\ Settled)' => FALSE
    BY <1>1 DEF Redrawing, Settled
  <2> QED
    BY <1>1, <2>1, <2>2 DEF Redrawing
<1>2. reportData' = reportData /\ sortDir' = sortDir /\ reportPageSize' = reportPageSize /\ reportPage' = reportPage
        => PageRows' = PageRows
  BY DEF PageRows, RowsOf, FirstRow, LastRow, IsAll
<1>3. ASSUME NEW r \in renders, FrameArrives(r) PROVE ReportViewInv'
  <2> DEFINE n == reportData.rows
             p == Clamped(reportPage, n)
             rows == RowsOf(reportData, sortDir, FirstRow(p), LastRow(p, n))
             tail == SubSeq(rows, Chunk + 1, Len(rows))
             q == [r EXCEPT !.stage = "chunk", !.rows = tail, !.total = n]
  <2>1. /\ r.stage = "frame" /\ r.live /\ tableShown' = TRUE
        /\ UNCHANGED <<reportData, reportPageSize, sortDir, settings>>
    BY <1>3 DEF FrameArrives
  <2>2. n \in Nat /\ p \in 1..Pages(n) /\ Pages(n) \in Nat
    <3>1. n \in Nat /\ reportPage \in Int /\ reportPageSize \in PageSizes \cup {All}
      BY <1>0
    <3> HIDE DEF n, ReportViewInv, ReportViewTypeOK
    <3> QED
      BY <3>1, PagesOfRows
  <2>3. RowsInARow(rows) /\ rows \in Seq(ReportRow) /\ Len(rows) \in Nat
    <3>1. FirstRow(p) \in Int /\ LastRow(p, n) \in Int
      BY <2>2 DEF FirstRow, LastRow, IsAll
    <3>2. RowsInARow(rows)
      BY <1>0, <3>1, RowsFollow
    <3> QED
      BY <3>2, LenProperties DEF RowsInARow
  <2>4. \A s \in renders \ {r} : ~s.live
    BY <2>1
  <2>5. reportPage' = p => PageRows' = rows /\ reportPage' \in Nat \ {0} /\ reportPage' \in 1..Pages(reportData.rows)'
    <3> SUFFICES ASSUME reportPage' = p PROVE PageRows' = rows /\ reportPage' \in Nat \ {0} /\ reportPage' \in 1..Pages(reportData.rows)'
      OBVIOUS
    <3>1. reportData' = reportData /\ sortDir' = sortDir /\ reportPageSize' = reportPageSize
      BY <2>1
    <3>2. PageRows' = rows
      BY <3>1 DEF PageRows, RowsOf, FirstRow, LastRow, IsAll
    <3>3. Pages(reportData.rows)' = Pages(n)
      BY <3>1 DEF Pages, IsAll
    <3> QED
      BY <2>2, <3>2, <3>3
  <2>6. UNCHANGED <<smallScreen, generating, viewingRun, runAsked>>
    BY <2>1 DEF settings
  <2>7. CASE Len(rows) > Large
    <3>1. tableBody' = SubSeq(rows, 1, Chunk) /\ renders' = (renders \ {r}) \cup {q} /\ reportPage' = p /\ pager' = pager
      BY <1>3, <2>7 DEF FrameArrives
    <3>2. Chunk \in 0..Len(rows)
      BY <2>3, <2>7
    <3> DEFINE head == SubSeq(rows, 1, Chunk)
    <3>3. q.stage = "chunk" /\ q.live = r.live /\ q.rows = tail /\ q.total = n /\ q \in Render
      <4>1. tail \in Seq(ReportRow)
        BY <2>3, <3>2, RowsParted
      <4>2. r \in Render /\ n \in Nat
        BY <2>2
      <4> HIDE DEF tail, n, rows, ReportViewInv, ReportViewTypeOK
      <4> QED
        BY <4>1, <4>2 DEF Render
    <3>4. head \in Seq(ReportRow) /\ tail \in Seq(ReportRow) /\ head \o tail = rows
      BY <2>3, <3>2, RowsParted
    <3>5. RowsInARow(head)
      <4> HIDE DEF rows, head, tail
      <4> QED
        BY <2>3, <3>4, RowsBefore
    <3>6. tableBody' = head
      BY <3>1
    <3> HIDE DEF q, n, p, rows, head, tail
    <3>7. \A s \in renders' : s.live => s = q
      BY <2>4, <3>1
    <3>8. PagerWell'
      BY <3>1 DEF PagerWell, ButtonsReachEveryPage
    <3>9. ReportViewTypeOK'
      BY <1>0, <2>1, <2>5, <2>6, <3>1, <3>3 DEF Render
    <3>10. PageRows' = rows /\ reportPage' \in 1..Pages(reportData.rows)' /\ reportData'.rows = n
      BY <2>1, <2>5, <3>1 DEF n
    <3>11. renders' \subseteq Render /\ q \in renders' /\ q.live
      BY <2>1, <3>1, <3>3
    <3>12. RowsInARow(tableBody')
      BY <3>5, <3>6
    <3>13. \A s \in renders' : s.live => RowsInARow(tableBody' \o s.rows) /\ tableBody' \o s.rows = PageRows' /\ s.total = reportData'.rows
      BY <2>3, <3>3, <3>4, <3>6, <3>7, <3>10
    <3> QED
      BY <3>7, <3>8, <3>9, <3>10, <3>11, <3>12, <3>13
  <2>8. CASE ~(Len(rows) > Large)
    <3>1. tableBody' = rows /\ renders' = renders \ {r} /\ PagerDrawn(p, n, smallScreen)
      BY <1>3, <2>8 DEF FrameArrives
    <3>2. PagerWell' /\ reportPage' = p
      <4>1. p \in Nat \ {0}
        BY <2>2
      <4> HIDE DEF n, p
      <4> QED
        BY <2>2, <3>1, <4>1, PagerReaches
    <3> HIDE DEF n, p, rows, q
    <3>3. ReportViewTypeOK'
      BY <1>0, <2>1, <2>5, <2>6, <3>1, <3>2
    <3>4. \A s \in renders' : ~s.live
      BY <2>4, <3>1
    <3>5. PageRows' = rows /\ reportPage' \in 1..Pages(reportData.rows)'
      BY <2>5, <3>2
    <3> QED
      BY <2>3, <3>1, <3>2, <3>3, <3>4, <3>5
  <2> QED
    BY <2>7, <2>8
<1>4. ASSUME NEW r \in renders, ChunkDrawn(r) PROVE ReportViewInv'
  <2>1. /\ r.stage = "chunk" /\ r.live /\ UNCHANGED <<reportData, reportPageSize, sortDir, tableShown, settings>>
    BY <1>4 DEF ChunkDrawn
  <2>2. UNCHANGED <<smallScreen, generating, viewingRun, runAsked>>
    BY <2>1 DEF settings
  <2>3. \A s \in renders \ {r} : ~s.live
    BY <2>1
  <2>4. Settled
    BY <2>1, <2>3 DEF Settled
  <2>5. r \in Render /\ tableBody \in Seq(ReportRow) /\ r.rows \in Seq(ReportRow) /\ r.total \in Nat
    BY DEF Render, RowsInARow
  <2>6. Pages(reportData.rows)' = Pages(reportData.rows)
    BY <2>1 DEF Pages, IsAll
  <2>7. CASE r.rows = <<>>
    <3>1. renders' = renders \ {r} /\ PagerDrawn(reportPage, r.total, smallScreen) /\ tableBody' = tableBody
      BY <1>4, <2>7 DEF ChunkDrawn
    <3>2. PagerWell' /\ reportPage' \in Nat \ {0} /\ (reportPage \in 1..Pages(r.total) => reportPage' = reportPage)
      <4>1. reportPage \in Nat \ {0} /\ r.total \in Nat
        BY <2>5
      <4> DEFINE m == r.total
      <4> HIDE DEF m
      <4> QED
        BY <3>1, <4>1, PagerReaches DEF m
    <3>3. tableShown => reportPage' = reportPage /\ tableBody = PageRows /\ reportPage \in 1..Pages(reportData.rows)
      <4> SUFFICES ASSUME tableShown PROVE reportPage' = reportPage /\ tableBody = PageRows /\ reportPage \in 1..Pages(reportData.rows)
        OBVIOUS
      <4>1. tableBody \o <<>> = PageRows /\ r.total = reportData.rows
        BY <2>1, <2>7
      <4>2. tableBody \o <<>> = tableBody
        BY <2>5, ConcatEmptySeq
      <4>3. reportPage \in 1..Pages(reportData.rows)
        BY <2>4
      <4> QED
        BY <3>2, <4>1, <4>2, <4>3
    <3>4. tableShown => PageRows' = PageRows
      BY <1>2, <2>1, <3>3
    <3>5. ReportViewTypeOK'
      BY <1>0, <2>1, <2>2, <3>1, <3>2
    <3>6. \A s \in renders' : ~s.live
      BY <2>3, <3>1
    <3> QED
      BY <2>1, <2>6, <3>1, <3>2, <3>3, <3>4, <3>5, <3>6
  <2>8. CASE r.rows # <<>>
    <3> DEFINE k == IF Len(r.rows) < Chunk THEN Len(r.rows) ELSE Chunk
               head == SubSeq(r.rows, 1, k)
               tail == SubSeq(r.rows, k + 1, Len(r.rows))
               q == [r EXCEPT !.rows = tail]
    <3>1. tableBody' = tableBody \o head /\ renders' = (renders \ {r}) \cup {q} /\ UNCHANGED <<reportPage, pager>>
      BY <1>4, <2>8 DEF ChunkDrawn
    <3>2. k \in 0..Len(r.rows)
      BY <2>5, LenProperties
    <3>3. head \in Seq(ReportRow) /\ tail \in Seq(ReportRow) /\ head \o tail = r.rows
      <4> HIDE DEF k
      <4> QED
        BY <2>5, <3>2, RowsParted
    <3> HIDE DEF k, head, tail
    <3>4. tableBody' \in Seq(ReportRow) /\ tableBody' \o tail = tableBody \o r.rows
      <4>1. tableBody \o head \in Seq(ReportRow)
        BY <2>5, <3>3, ConcatProperties
      <4>2. (tableBody \o head) \o tail = tableBody \o (head \o tail)
        <5>1. \A a, b, c \in Seq(ReportRow) : (a \o b) \o c = a \o (b \o c)
          BY ConcatAssociative
        <5> HIDE DEF ReportViewInv, ReportViewTypeOK
        <5> QED
          BY <2>5, <3>3, <5>1
      <4> QED
        BY <3>1, <3>3, <4>1, <4>2
    <3>5. RowsInARow(tableBody' \o tail)
      BY <2>1, <3>4
    <3>6. RowsInARow(tableBody')
      BY <3>3, <3>4, <3>5, RowsBefore
    <3>7. q.stage = "chunk" /\ q.live /\ q.rows = tail /\ q.total = r.total /\ q \in Render
      BY <2>1, <2>5, <3>3 DEF Render
    <3> HIDE DEF q
    <3>8. \A s \in renders' : s.live => s = q
      BY <2>3, <3>1
    <3>9. PagerWell'
      BY <3>1 DEF PagerWell, ButtonsReachEveryPage
    <3>10. PageRows' = PageRows
      BY <1>2, <2>1, <3>1
    <3>11. ReportViewTypeOK'
      BY <1>0, <2>1, <2>2, <3>1, <3>7
    <3>12. renders' \subseteq Render /\ q \in renders'
      BY <3>1, <3>7
    <3>13. tableShown => tableBody' \o tail = PageRows' /\ q.total = reportData'.rows
      BY <2>1, <3>4, <3>7, <3>10
    <3>14. tableShown => reportPage' \in 1..Pages(reportData.rows)'
      BY <2>4, <2>6, <3>1
    <3> QED
      BY <2>1, <3>5, <3>6, <3>7, <3>8, <3>9, <3>11, <3>12, <3>13, <3>14
  <2> QED
    BY <2>7, <2>8
<1>5. ASSUME NEW r \in renders, RenderGivenUp(r) PROVE ReportViewInv'
  <2>1. /\ ~r.live /\ renders' = renders \ {r}
        /\ UNCHANGED <<reportData, reportPage, reportPageSize, sortDir, tableShown, tableBody, pager, settings>>
    BY <1>5 DEF RenderGivenUp
  <2>2. PageRows' = PageRows
    BY <1>2, <2>1
  <2>3. PagerWell'
    BY <2>1 DEF PagerWell, ButtonsReachEveryPage
  <2>4. Settled' => Settled
    BY <2>1 DEF Settled
  <2>5. Pages(reportData.rows)' = Pages(reportData.rows)
    BY <2>1 DEF Pages, IsAll
  <2>6. ReportViewTypeOK'
    BY <2>1 DEF settings
  <2> QED
    BY <2>1, <2>2, <2>3, <2>4, <2>5, <2>6
<1>6. CASE SetReportPage
  <2>1. Redrawing' /\ tableShown' \in BOOLEAN
    BY <1>6, RedrawingIs DEF SetReportPage
  <2>2. PICK p \in 1..pager.last : reportPage' = p
    BY <1>6 DEF SetReportPage
  <2>3. reportPage' \in Nat \ {0}
    BY <2>2 DEF PagerWell
  <2>4. UNCHANGED <<reportData, reportPageSize, sortDir, tableBody, settings>>
    BY <1>6 DEF SetReportPage
  <2>5. ReportViewTypeOK'
    BY <1>0, <2>1, <2>3, <2>4 DEF settings, Redrawing, Render
  <2> QED
    BY <1>1, <2>1, <2>4, <2>5
<1>7. CASE ChangePageSize
  <2>1. Redrawing' /\ tableShown' \in BOOLEAN
    BY <1>7, RedrawingIs DEF ChangePageSize
  <2>2. /\ reportPageSize' \in PageSizes \cup {All} /\ reportPage' = 1
        /\ UNCHANGED <<reportData, sortDir, tableBody, settings>>
    BY <1>7 DEF ChangePageSize
  <2>3. ReportViewTypeOK'
    BY <1>0, <2>1, <2>2 DEF settings, Redrawing, Render
  <2> QED
    BY <1>1, <2>1, <2>2, <2>3
<1>8. CASE SortReport
  <2>1. Redrawing' /\ tableShown' \in BOOLEAN
    BY <1>8, RedrawingIs DEF SortReport
  <2>2. sortDir' \in {-1, 1} /\ UNCHANGED <<reportData, reportPage, reportPageSize, tableBody, settings>>
    BY <1>8 DEF SortReport
  <2>3. ReportViewTypeOK'
    BY <1>0, <2>1, <2>2 DEF settings, Redrawing, Render
  <2> QED
    BY <1>1, <2>1, <2>2, <2>3
<1>9. ASSUME NEW report \in Reports, ReportTaken(report), tableBody' = tableBody, reportPageSize' = reportPageSize,
             {smallScreen', viewingRun', runAsked'} \subseteq BOOLEAN, generating' \in {"no", "asked", "rendering"}
      PROVE  ReportViewInv'
  <2>1. Redrawing' /\ tableShown' \in BOOLEAN
    BY <1>9, RedrawingIs DEF ReportTaken
  <2>2. reportData' = report /\ sortDir' = 1 /\ reportPage' = 1
    BY <1>9 DEF ReportTaken
  <2>3. ReportViewTypeOK'
    BY <1>9, <2>1, <2>2 DEF Redrawing, Render
  <2> QED
    BY <1>1, <1>9, <2>1, <2>3
<1>10. ASSUME UNCHANGED <<reportData, reportPage, reportPageSize, sortDir, tableShown, tableBody, pager, renders>>,
              {smallScreen', viewingRun', runAsked'} \subseteq BOOLEAN, generating' \in {"no", "asked", "rendering"}
       PROVE  ReportViewInv'
  <2>1. PageRows' = PageRows
    BY <1>2, <1>10
  <2>2. PagerWell'
    BY <1>10 DEF PagerWell, ButtonsReachEveryPage
  <2>3. Pages(reportData.rows)' = Pages(reportData.rows)
    BY <1>10 DEF Pages, IsAll
  <2>4. Settled' = Settled
    BY <1>10 DEF Settled
  <2>5. ReportViewTypeOK'
    BY <1>10
  <2> QED
    BY <1>10, <2>1, <2>2, <2>3, <2>4, <2>5
<1>11. ASSUME tableShown' = FALSE, pager' = NoPager, renders' = renders, tableBody' = tableBody, ReportViewTypeOK'
       PROVE  ReportViewInv'
  <2>1. pager'.buttons = <<>> /\ pager'.last = 0
    BY <1>11 DEF NoPager
  <2>2. PagerWell'
    BY <2>1 DEF PagerWell, ButtonsReachEveryPage
  <2> QED
    BY <1>11, <2>2
<1>20. ASSUME reportData' = NoRows, reportPage' = 1, tableShown' = FALSE,
              UNCHANGED <<reportPageSize, sortDir, renders, smallScreen, generating, runAsked>>, viewingRun' \in BOOLEAN
       PROVE  ReportViewTypeOK'
  <2>1. reportData' \in Reports \cup {NoRows} /\ reportPage' \in Nat \ {0}
    BY <1>20
  <2>2. {tableShown', smallScreen', viewingRun', runAsked'} \subseteq BOOLEAN
    BY <1>0, <1>20
  <2>3. reportPageSize' \in PageSizes \cup {All} /\ sortDir' \in {-1, 1} /\ generating' \in {"no", "asked", "rendering"}
    BY <1>20
  <2>4. \A r \in renders' : r.stage \in {"frame", "chunk"} /\ r.live \in BOOLEAN
    BY <1>20
  <2> HIDE DEF ReportViewInv
  <2> QED
    BY <2>1, <2>2, <2>3, <2>4
<1>12. CASE ReportArrives
  <2>1. UNCHANGED <<reportPageSize, tableBody, smallScreen, viewingRun, runAsked>>
    BY <1>12 DEF ReportArrives
  <2>2. ASSUME NEW report \in Reports, ReportTaken(report), generating' = "rendering" PROVE ReportViewInv'
    BY <1>0, <1>9, <2>1, <2>2
  <2>3. ASSUME generating' = "no", UNCHANGED <<reportData, sortDir, reportPage, renders, tableShown, pager>>
        PROVE  ReportViewInv'
    BY <1>0, <1>10, <2>1, <2>3
  <2> QED
    BY <1>12, <2>2, <2>3 DEF ReportArrives
<1>13. CASE RunArrives
  <2>1. UNCHANGED <<reportPageSize, tableBody, smallScreen, generating>> /\ runAsked' = FALSE
    BY <1>13 DEF RunArrives
  <2>2. ASSUME NEW report \in Reports, ReportTaken(report), viewingRun' = TRUE PROVE ReportViewInv'
    BY <1>0, <1>9, <2>1, <2>2
  <2>3. ASSUME UNCHANGED <<reportData, sortDir, reportPage, renders, tableShown, pager, viewingRun>>
        PROVE  ReportViewInv'
    BY <1>0, <1>10, <2>1, <2>3
  <2> QED
    BY <1>13, <2>2, <2>3 DEF RunArrives
<1>14. CASE Resized
  <2> DEFINE n == reportData.rows
  <2>1. /\ smallScreen' \in BOOLEAN
        /\ UNCHANGED <<reportData, reportPageSize, sortDir, tableShown, tableBody, renders, generating, viewingRun, runAsked>>
    BY <1>0, <1>14 DEF Resized
  <2>2. PagerWell' /\ reportPage' \in Nat \ {0} /\ (reportPage \in 1..Pages(n) => reportPage' = reportPage)
    <3>1. CASE PagerDrawn(reportPage, n, smallScreen')
      <4>1. reportPage \in Nat \ {0} /\ n \in Nat
        BY <1>0
      <4> DEFINE small == smallScreen'
      <4> HIDE DEF n, small
      <4> QED
        BY <3>1, <4>1, PagerReaches DEF small
    <3>2. CASE UNCHANGED <<reportPage, pager>>
      BY <3>2 DEF PagerWell, ButtonsReachEveryPage
    <3> QED
      BY <1>14, <3>1, <3>2 DEF Resized
  <2>3. Pages(n)' = Pages(n)
    BY <2>1 DEF Pages, IsAll
  <2>4. Settled' = Settled
    BY <2>1 DEF Settled
  <2>5. tableShown /\ Settled => reportPage' = reportPage
    BY <2>2
  <2>6. tableShown /\ Settled => PageRows' = PageRows
    BY <1>2, <2>1, <2>5
  <2>7. ReportViewTypeOK'
    BY <1>0, <2>1, <2>2
  <2>8. (\A r \in renders : ~r.live) => Settled
    BY DEF Settled
  <2>9. \A r \in renders : r.live /\ r.stage = "chunk" => Settled
    BY DEF Settled
  <2> QED
    BY <2>1, <2>2, <2>3, <2>4, <2>5, <2>6, <2>7, <2>8, <2>9
<1>15. CASE ResetReport
  <2>1. /\ reportData' = NoRows /\ reportPage' = 1 /\ tableShown' = FALSE /\ pager' = NoPager
        /\ UNCHANGED <<reportPageSize, sortDir, tableBody, renders, settings>>
    BY <1>15 DEF ResetReport
  <2>2. UNCHANGED <<reportPageSize, sortDir, tableBody, renders, smallScreen, generating, viewingRun, runAsked>>
    BY <2>1 DEF settings
  <2> QED
    BY <1>11, <1>20, <2>1, <2>2
<1>16. CASE GenerateReport
  <2>1. /\ generating' = "asked" /\ tableShown' = FALSE /\ pager' = NoPager
        /\ UNCHANGED <<reportData, reportPage, reportPageSize, sortDir, tableBody, smallScreen, renders,
                       viewingRun, runAsked>>
    BY <1>16 DEF GenerateReport
  <2>2. ReportViewTypeOK'
    BY <1>0, <2>1
  <2> QED
    BY <1>11, <2>1, <2>2
<1>17. CASE GenerateEnds
  <2>1. generating' = "no" /\ UNCHANGED <<reportData, reportPage, reportPageSize, sortDir, tableShown, tableBody,
                                          pager, smallScreen, renders, viewingRun, runAsked>>
    BY <1>17 DEF GenerateEnds
  <2> QED
    BY <1>0, <1>10, <2>1
<1>18. CASE ViewRun
  <2>1. runAsked' = TRUE /\ UNCHANGED <<reportData, reportPage, reportPageSize, sortDir, tableShown, tableBody,
                                        pager, smallScreen, renders, generating, viewingRun>>
    BY <1>18 DEF ViewRun
  <2> QED
    BY <1>0, <1>10, <2>1
<1>19. CASE ExitRunView
  <2>1. /\ viewingRun' = FALSE /\ reportData' = NoRows /\ reportPage' = 1 /\ tableShown' = FALSE /\ pager' = NoPager
        /\ UNCHANGED <<reportPageSize, sortDir, tableBody, renders, smallScreen, generating, runAsked>>
    BY <1>19 DEF ExitRunView
  <2> QED
    BY <1>0, <1>11, <1>20, <2>1
<1> QED
  BY <1>3, <1>4, <1>5, <1>6, <1>7, <1>8, <1>12, <1>13, <1>14, <1>15, <1>16, <1>17, <1>18, <1>19 DEF ReportViewNext

\* Nothing of it changes while another page is shown.
LEMMA ReportViewStutter == ReportViewInv /\ UNCHANGED reportViewVars => ReportViewInv'
<1> SUFFICES ASSUME ReportViewInv, UNCHANGED reportViewVars PROVE ReportViewInv'
  OBVIOUS
<1> USE DEF ReportViewInv, ReportViewTypeOK
<1>1. UNCHANGED <<reportData, reportPage, reportPageSize, sortDir, tableShown, tableBody, pager, renders,
                  smallScreen, generating, viewingRun, runAsked>>
  BY DEF reportViewVars
<1>2. PageRows' = PageRows
  BY <1>1 DEF PageRows, RowsOf, FirstRow, LastRow, IsAll
<1>3. PagerWell'
  BY <1>1 DEF PagerWell, ButtonsReachEveryPage
<1>4. Pages(reportData.rows)' = Pages(reportData.rows)
  BY <1>1 DEF Pages, IsAll
<1>5. Settled' = Settled
  BY <1>1 DEF Settled
<1>6. ReportViewTypeOK'
  BY <1>1
<1> QED
  BY <1>1, <1>2, <1>3, <1>4, <1>5, <1>6

\* What the invariant of the report says of its rows and buttons.
LEMMA ReportViewInvGives == ReportViewInv => ReportViewTypeOK /\ ReportViewSound
<1> SUFFICES ASSUME ReportViewInv PROVE ReportViewTypeOK /\ ReportViewSound
  OBVIOUS
<1>1. TableShowsThePage
  BY DEF ReportViewInv, TableShowsThePage, PageRows
<1>2. RowsOfOneRender
  BY DEF ReportViewInv, RowsInARow, RowsOfOneRender
<1> QED
  BY <1>1, <1>2 DEF ReportViewInv, ReportViewSound, PagerWell

-----------------------------------------------------------------------------
(* The form of a schedule. *)
FieldCall == [of : Trigger, live : BOOLEAN, opens : BOOLEAN]
DrawnFields == {NoFields} \cup [of : Trigger, params : 0..MaxParams]

\* Until its fields are touched a form has the trigger of the row it was opened with, and its
\* parameters if the key of the trigger is the type of its alert.
OpenedRowKept ==
    openedWith # NoFields =>
        /\ formTrigger = openedWith.trigger
        /\ formTrigger \in NamedAsType => triggerParams = openedWith.params
ScheduleFormInv ==
    /\ ScheduleFormTypeOK
    /\ fieldCalls \subseteq FieldCall /\ fields \in DrawnFields
    /\ openedWith \in ScheduleRow \cup {NoFields}
    /\ OpenedRowKept /\ FieldsOfTheTrigger /\ EditShowsStored

\* The form starts closed, with its invariant.
LEMMA ScheduleFormInvInit == ScheduleFormInit => ScheduleFormInv
<1> SUFFICES ASSUME ScheduleFormInit PROVE ScheduleFormInv
  OBVIOUS
<1>1. ScheduleFormTypeOK
  <2>1. formOpen \in BOOLEAN /\ zonesLoaded \in BOOLEAN
    BY Zenon DEF ScheduleFormInit
  <2> QED
    BY <2>1, ScheduleFormAssumption DEF ScheduleFormInit, ScheduleFormTypeOK
<1>2. OpenedRowKept /\ FieldsOfTheTrigger /\ EditShowsStored
  BY DEF ScheduleFormInit, OpenedRowKept, FieldsOfTheTrigger, EditShowsStored
<1> QED
  BY <1>1, <1>2 DEF ScheduleFormInit, ScheduleFormInv, DrawnFields

\* The fields that are asked for are those of the trigger, with the parameters, or wait.
LEMMA FieldsAskedWell ==
    ASSUME ScheduleFormInv, NEW trigger \in Trigger \cup {TimeTrigger}, NEW params \in 0..MaxParams,
           NEW opens \in BOOLEAN, FieldsAsked(trigger, params, opens)
    PROVE  /\ triggerParams' = params /\ fieldCalls' \subseteq FieldCall
           /\ fields' = NoFields \/ (fields' = [of |-> trigger, params |-> params] /\ trigger \in Trigger)
           /\ fields' \in DrawnFields
<1>1. \A c \in fieldCalls : [c EXCEPT !.live = FALSE] \in FieldCall
  BY DEF ScheduleFormInv, FieldCall
<1>2. Outdated \subseteq FieldCall
  BY <1>1 DEF Outdated
<1>3. Waits(trigger) => [of |-> trigger, live |-> TRUE, opens |-> opens] \in FieldCall
  BY ScheduleFormAssumption DEF Waits, FieldCall
<1> QED
  BY <1>2, <1>3, ScheduleFormAssumption DEF FieldsAsked, DrawnFields

\* Every step of the form keeps its invariant.
LEMMA ScheduleFormStep ==
    ASSUME ScheduleFormInv, ScheduleFormNext PROVE ScheduleFormInv'
<1> USE ScheduleFormAssumption DEF ScheduleFormInv, ScheduleFormTypeOK
<1>1. ASSUME NEW s \in ScheduleId, NEW row \in ScheduleRow \cup {NoFields}, FormRowsLoaded(s, row)
      PROVE  ScheduleFormInv'
  BY <1>1 DEF FormRowsLoaded, OpenedRowKept, FieldsOfTheTrigger, EditShowsStored
<1>2. ASSUME NEW s \in {q \in ScheduleId : formRows[q] # NoFields} \cup {NewSchedule}, OpenScheduleModal(s)
      PROVE  ScheduleFormInv'
  <2> DEFINE row == IF s = NewSchedule THEN [trigger |-> TimeTrigger, params |-> 0] ELSE formRows[s]
             last == AlertTypeOf(row.trigger)
             params == IF last # row.trigger \/ row.trigger = TimeTrigger THEN 0 ELSE row.params
  <2>1. row \in ScheduleRow
    BY DEF ScheduleRow
  <2>2. /\ editing' = s /\ openedWith' = row /\ formTrigger' = row.trigger /\ lastTrigger' = row.trigger
        /\ FieldsAsked(row.trigger, params, TRUE) /\ formOpen' = ~Waits(row.trigger)
        /\ UNCHANGED <<formRows, zonesLoaded, saving>>
    BY <1>2 DEF OpenScheduleModal, TriggerShown
  <2>3. row.trigger \in Trigger \cup {TimeTrigger} /\ params \in 0..MaxParams
    BY <2>1 DEF ScheduleRow
  <2>4. row.trigger \in NamedAsType => params = row.params
    BY <2>1 DEF ScheduleRow, AlertTypeOf
  <2> HIDE DEF row, params, last
  <2>5. /\ triggerParams' = params /\ fieldCalls' \subseteq FieldCall
        /\ fields' = NoFields \/ (fields' = [of |-> row.trigger, params |-> params] /\ row.trigger \in Trigger)
        /\ fields' \in DrawnFields
    BY <2>2, <2>3, FieldsAskedWell
  <2>6. OpenedRowKept' /\ FieldsOfTheTrigger' /\ EditShowsStored'
    BY <2>2, <2>4, <2>5 DEF OpenedRowKept, FieldsOfTheTrigger, EditShowsStored
  <2>7. ScheduleFormTypeOK'
    BY <2>2, <2>3, <2>5 DEF FieldCall
  <2> QED
    BY <2>1, <2>2, <2>5, <2>6, <2>7
<1>3. ASSUME NEW c \in fieldCalls, FieldsArrive(c) PROVE ScheduleFormInv'
  <2>1. c \in FieldCall /\ fields' \in DrawnFields
    BY <1>3 DEF FieldsArrive, DrawnFields, FieldCall
  <2>2. OpenedRowKept' /\ FieldsOfTheTrigger' /\ EditShowsStored'
    BY <1>3 DEF FieldsArrive, OpenedRowKept, FieldsOfTheTrigger, EditShowsStored
  <2>3. ScheduleFormTypeOK'
    BY <1>3, <2>1 DEF FieldsArrive, FieldCall
  <2> QED
    BY <1>3, <2>1, <2>2, <2>3 DEF FieldsArrive
<1>4. ASSUME NEW trigger \in Trigger \cup {TimeTrigger}, SelectTrigger(trigger) PROVE ScheduleFormInv'
  <2> DEFINE params == IF lastTrigger # trigger \/ trigger = TimeTrigger THEN 0 ELSE triggerParams
  <2>1. /\ openedWith' = NoFields /\ formTrigger' = trigger /\ FieldsAsked(trigger, params, FALSE)
        /\ UNCHANGED <<formRows, formOpen, editing, zonesLoaded, saving>>
    BY <1>4 DEF SelectTrigger, TriggerShown
  <2>2. params \in 0..MaxParams
    OBVIOUS
  <2> HIDE DEF params
  <2>3. /\ triggerParams' = params /\ fieldCalls' \subseteq FieldCall
        /\ fields' = NoFields \/ (fields' = [of |-> trigger, params |-> params] /\ trigger \in Trigger)
        /\ fields' \in DrawnFields
    BY <2>1, <2>2, FieldsAskedWell
  <2> QED
    BY <2>1, <2>2, <2>3 DEF FieldCall, OpenedRowKept, FieldsOfTheTrigger, EditShowsStored
<1>5. ASSUME NEW params \in 0..MaxParams, EditFields(params) PROVE ScheduleFormInv'
  <2>1. fields' \in DrawnFields /\ fields'.of = fields.of
    BY <1>5 DEF EditFields, DrawnFields
  <2> QED
    BY <1>5, <2>1 DEF EditFields, OpenedRowKept, FieldsOfTheTrigger, EditShowsStored
<1>6. CASE CloseScheduleModal \/ SaveSchedule \/ DeleteEdited
  BY <1>6 DEF CloseScheduleModal, SaveSchedule, DeleteEdited, OpenedRowKept, FieldsOfTheTrigger, EditShowsStored
<1>7. ASSUME NEW c \in saving, Answered(c) PROVE ScheduleFormInv'
  <2>1. formRows' \in [ScheduleId -> ScheduleRow \cup {NoFields}]
    BY <1>7 DEF Answered
  <2>2. formOpen' \in BOOLEAN
    BY <1>7 DEF Answered
  <2> QED
    BY <1>7, <2>1, <2>2 DEF Answered, OpenedRowKept, FieldsOfTheTrigger, EditShowsStored
<1> QED
  BY <1>1, <1>2, <1>3, <1>4, <1>5, <1>6, <1>7 DEF ScheduleFormNext

\* A step of another part leaves it.
LEMMA ScheduleFormStutter == ASSUME ScheduleFormInv, UNCHANGED scheduleFormVars PROVE ScheduleFormInv'
BY DEF ScheduleFormInv, ScheduleFormTypeOK, OpenedRowKept, FieldsOfTheTrigger, EditShowsStored, scheduleFormVars

-----------------------------------------------------------------------------
(* The list of schedules. *)
ScheduleListInv ==
    /\ ScheduleListTypeOK /\ ExpandedRowLoads
    /\ drawnRows \in [DOMAIN drawnRows -> {"loading", "loaded"}]

\* The list starts with its invariant.
LEMMA ScheduleListInvInit == ScheduleListInit => ScheduleListInv
BY ScheduleListAssumption DEF ScheduleListInit, ScheduleListInv, ScheduleListTypeOK, ExpandedRowLoads

\* What is drawn anew loads, and the runs of the expanded row are asked for.
LEMMA RowsDrawnWell ==
    ASSUME NEW S \in SUBSET schedules', RowsDrawn(S), schedules' \subseteq Schedule
    PROVE  /\ DOMAIN drawnRows' \subseteq Schedule /\ runsAsked' \subseteq DOMAIN drawnRows'
           /\ drawnRows' \in [DOMAIN drawnRows' -> {"loading", "loaded"}]
           /\ ExpandedRowLoads'
BY DEF RowsDrawn, ExpandedRowLoads

\* Every step of the list keeps its invariant.
LEMMA ScheduleListStep ==
    ASSUME ScheduleListInv, ScheduleListNext PROVE ScheduleListInv'
<1> USE ScheduleListAssumption DEF ScheduleListInv, ScheduleListTypeOK
<1>1. CASE ScheduleStored \/ LoadSchedules \/ \E s \in schedules : DeleteSchedule(s)
  BY <1>1 DEF ScheduleStored, LoadSchedules, DeleteSchedule, drawnVars, ExpandedRowLoads
<1>2. ASSUME NEW list \in listCalls, SchedulesArrive(list) PROVE ScheduleListInv'
  <2>1. CASE schedules' = list /\ RowsDrawn(list)
    BY <1>2, <2>1, RowsDrawnWell DEF SchedulesArrive
  <2>2. CASE UNCHANGED <<schedules, drawnVars>>
    BY <1>2, <2>2 DEF SchedulesArrive, drawnVars, ExpandedRowLoads
  <2> QED
    BY <1>2, <2>1, <2>2 DEF SchedulesArrive
<1>3. ASSUME NEW S \in SUBSET schedules, FilterSchedules(S) PROVE ScheduleListInv'
  BY <1>3, RowsDrawnWell DEF FilterSchedules
<1>4. ASSUME NEW s \in DOMAIN drawnRows, ToggleRunHistory(s) PROVE ScheduleListInv'
  BY <1>4 DEF ToggleRunHistory, drawnVars, ExpandedRowLoads
<1>5. ASSUME NEW s \in runsAsked, RunsArrive(s) PROVE ScheduleListInv'
  BY <1>5 DEF RunsArrive, ExpandedRowLoads
<1>6. ASSUME NEW s \in deletions, ScheduleDeleted(s) PROVE ScheduleListInv'
  <2>1. CASE UNCHANGED <<schedulesStored, schedules, drawnVars, expandedSchedule>>
    BY <1>6, <2>1 DEF ScheduleDeleted, drawnVars, ExpandedRowLoads
  <2>2. CASE /\ schedulesStored' = schedulesStored \ {s} /\ schedules' = schedules \ {s}
             /\ expandedSchedule' = IF expandedSchedule = s THEN NoSchedule ELSE expandedSchedule
             /\ \E S \in SUBSET schedules' : RowsDrawn(S)
    <3>1. PICK S \in SUBSET schedules' : RowsDrawn(S)
      BY <2>2
    <3>2. schedules' \subseteq Schedule
      BY <2>2
    <3>3. /\ DOMAIN drawnRows' \subseteq Schedule /\ runsAsked' \subseteq DOMAIN drawnRows'
          /\ drawnRows' \in [DOMAIN drawnRows' -> {"loading", "loaded"}]
          /\ ExpandedRowLoads'
      BY <3>1, <3>2, RowsDrawnWell
    <3> QED
      BY <1>6, <2>2, <3>3 DEF ScheduleDeleted
  <2> QED
    BY <1>6, <2>1, <2>2 DEF ScheduleDeleted
<1> QED
  BY <1>1, <1>2, <1>3, <1>4, <1>5, <1>6 DEF ScheduleListNext

\* A step of another part leaves it.
LEMMA ScheduleListStutter == ASSUME ScheduleListInv, UNCHANGED scheduleListVars PROVE ScheduleListInv'
BY DEF ScheduleListInv, ScheduleListTypeOK, ExpandedRowLoads, scheduleListVars

-----------------------------------------------------------------------------
(* The runtime logs. *)
KeptRows == {rows \in Seq(Records) : Len(rows) <= KeepRows}
LogMessage == [snapshot : {TRUE}, rows : KeptRows] \cup [snapshot : {FALSE}, rows : Seq(Records)]

RuntimeLogsInv ==
    /\ RuntimeLogsTypeOK /\ LogsTabListens
    /\ opening \subseteq [step : {"debug", "rows"}, rows : KeptRows]
    /\ pushed \in Seq(LogMessage)

\* No record is logged at first, and the tab is not shown.
LEMMA RuntimeLogsInvInit == RuntimeLogsInit => RuntimeLogsInv
<1> SUFFICES ASSUME RuntimeLogsInit PROVE RuntimeLogsInv
  OBVIOUS
<1> USE RuntimeLogsAssumption
<1>1. {logsTab, subscribed, reconnect, clearing} \subseteq BOOLEAN
  BY Zenon DEF RuntimeLogsInit
<1>2. <<>> \in Seq(Records) /\ <<>> \in Seq(LogMessage) /\ Len(<<>>) = 0
  BY EmptySeq
<1> QED
  BY <1>1, <1>2 DEF RuntimeLogsInit, RuntimeLogsInv, RuntimeLogsTypeOK, LogsTabListens

\* The newest of some records are as many as the page keeps, at most.
LEMMA NewestKept == ASSUME NEW rows \in Seq(Records) PROVE NewestOf(rows) \in KeptRows
<1> DEFINE n == Len(rows)
           m == IF n > KeepRows THEN n - KeepRows + 1 ELSE 1
<1>1. n \in Nat /\ KeepRows \in Nat /\ \A i \in 1..n : rows[i] \in Records
  BY RuntimeLogsAssumption, LenProperties, ElementOfSeq
<1>2. NewestOf(rows) = SubSeq(rows, m, n)
  BY DEF NewestOf
<1>3. m \in Nat \ {0} /\ m <= n + 1 /\ n - m + 1 <= KeepRows /\ n - m + 1 \in Nat
  <2> HIDE DEF n
  <2> QED
    BY <1>1
<1> HIDE DEF n, m
<1>4. \A i \in m..n : rows[i] \in Records
  BY <1>1, <1>3
<1>5. SubSeq(rows, m, n) \in Seq(Records) /\ Len(SubSeq(rows, m, n)) = IF m <= n THEN n - m + 1 ELSE 0
  BY <1>1, <1>3, <1>4, SubSeqProperties
<1> DEFINE u == SubSeq(rows, m, n)
<1>6. u \in Seq(Records) /\ Len(u) = IF m <= n THEN n - m + 1 ELSE 0
  BY <1>5
<1> HIDE DEF u
<1>7. u \in KeptRows
  BY <1>1, <1>3, <1>6 DEF KeptRows
<1> QED
  BY <1>2, <1>7 DEF u

\* What is pushed is a message.
LEMMA PushedIs == ASSUME pushed \in Seq(LogMessage), NEW m \in LogMessage PROVE Push(m) \in Seq(LogMessage)
BY AppendProperties DEF Push

\* Every step of the logs keeps the invariant.
LEMMA RuntimeLogsStep == ASSUME RuntimeLogsInv, RuntimeLogsNext PROVE RuntimeLogsInv'
<1> USE RuntimeLogsAssumption DEF RuntimeLogsInv, RuntimeLogsTypeOK, LogsTabListens
<1>0. /\ logsTab \in BOOLEAN /\ subscribed \in BOOLEAN /\ reconnect \in BOOLEAN /\ clearing \in BOOLEAN
      /\ <<>> \in KeptRows /\ <<>> \in Seq(Records)
  <2>1. <<>> \in Seq(Records) /\ Len(<<>>) = 0
    BY EmptySeq
  <2> QED
    BY <2>1 DEF KeptRows
<1>1. ASSUME NEW kind \in LogKind, Log(kind) PROVE RuntimeLogsInv'
  <2> DEFINE r == [n |-> nextLog, kind |-> kind]
             m == [snapshot |-> FALSE, rows |-> <<r>>]
  <2>1. r \in Records
    BY <1>1 DEF Log, Records
  <2>2. serverLogs' = Append(serverLogs, r) /\ pushed' = Push(m)
    BY <1>1 DEF Log
  <2> HIDE DEF r
  <2>3. <<r>> \in Seq(Records)
    BY <2>1
  <2>4. m \in LogMessage
    BY <2>3 DEF LogMessage
  <2> HIDE DEF m
  <2>5. serverLogs' \in Seq(Records) /\ pushed' \in Seq(LogMessage)
    BY <2>1, <2>2, <2>4, PushedIs, AppendProperties
  <2> QED
    BY <1>0, <1>1, <2>5 DEF Log
<1>2. CASE ShowLogsTab
  <2>1. opening' = opening \cup {[step |-> "debug", rows |-> <<>>]}
    BY <1>2 DEF ShowLogsTab
  <2>2. [step |-> "debug", rows |-> <<>>] \in [step : {"debug", "rows"}, rows : KeptRows]
    BY <1>0
  <2> QED
    BY <1>0, <1>2, <2>1, <2>2 DEF ShowLogsTab
<1>3. CASE LeaveLogsTab
  BY <1>0, <1>3 DEF LeaveLogsTab
<1>4. ASSUME NEW o \in opening, DebugModeArrives(o) PROVE RuntimeLogsInv'
  <2> DEFINE q == [step |-> "rows", rows |-> NewestOf(serverLogs)]
  <2>1. opening' = (opening \ {o}) \cup {q}
    BY <1>4 DEF DebugModeArrives
  <2>2. q \in [step : {"debug", "rows"}, rows : KeptRows]
    BY NewestKept
  <2> HIDE DEF q
  <2> QED
    BY <1>0, <1>4, <2>1, <2>2 DEF DebugModeArrives
<1>5. ASSUME NEW o \in opening, RowsArrive(o) PROVE RuntimeLogsInv'
  <2>1. logRows' \in Seq(Records) /\ Len(logRows') <= KeepRows
    BY <1>5 DEF RowsArrive, KeptRows
  <2>2. sockets' = 1 /\ (reconnect' = reconnect \/ reconnect' = FALSE)
    <3>1. sockets = 0 \/ sockets = 1
      OBVIOUS
    <3> QED
      BY <1>5, <3>1 DEF RowsArrive, Connected
  <2>3. reconnect' \in BOOLEAN
    BY <1>0, <2>2
  <2>4. opening' = opening \ {o} /\ UNCHANGED <<serverLogs, nextLog, logFilter, logsTab, subscribed, pushed, clearing>>
    BY <1>5 DEF RowsArrive
  <2> QED
    BY <1>0, <2>1, <2>2, <2>3, <2>4
<1>6. CASE ReconnectFires
  <2>1. sockets' = 1 /\ reconnect' = FALSE
    <3>1. sockets = 0 \/ sockets = 1
      OBVIOUS
    <3> QED
      BY <1>6, <3>1 DEF ReconnectFires, Connected
  <2>2. UNCHANGED <<serverLogs, nextLog, logRows, logFilter, logsTab, opening, subscribed, pushed, clearing>>
    BY <1>6 DEF ReconnectFires
  <2>3. reconnect' \in BOOLEAN
    BY <2>1
  <2>4. RuntimeLogsTypeOK'
    BY <1>0, <2>1, <2>2, <2>3
  <2>5. LogsTabListens'
    BY <2>1
  <2> QED
    BY <2>2, <2>4, <2>5
<1>7. CASE SnapshotSent
  <2>1. PICK k \in 0..Len(serverLogs) : pushed' = Append(pushed, Snapshot(NewestOf(SubSeq(serverLogs, 1, k))))
    BY <1>7 DEF SnapshotSent
  <2>2. SubSeq(serverLogs, 1, k) \in Seq(Records)
    BY PrefixIs
  <2>3. Snapshot(NewestOf(SubSeq(serverLogs, 1, k))) \in LogMessage
    BY <2>2, NewestKept DEF Snapshot, LogMessage
  <2>4. pushed' \in Seq(LogMessage)
    BY <2>1, <2>3, AppendProperties
  <2> QED
    BY <1>0, <1>7, <2>4 DEF SnapshotSent
<1>8. CASE PushArrives
  <2> DEFINE m == Head(pushed)
  <2>1. m \in LogMessage /\ pushed' \in Seq(LogMessage)
    BY <1>8, HeadTailProperties DEF PushArrives
  <2>2. logRows' = IF m.snapshot THEN m.rows ELSE NewestOf(logRows \o m.rows)
    BY <1>8 DEF PushArrives
  <2> HIDE DEF m
  <2>3. logRows' \in KeptRows
    <3>1. CASE m.snapshot
      BY <2>1, <2>2, <3>1 DEF LogMessage
    <3>2. CASE ~m.snapshot
      <4>1. m.rows \in Seq(Records)
        BY <2>1 DEF LogMessage, KeptRows
      <4>2. logRows \o m.rows \in Seq(Records)
        BY <4>1, ConcatProperties
      <4> QED
        BY <2>2, <3>2, <4>2, NewestKept
    <3> QED
      BY <3>1, <3>2
  <2> QED
    BY <1>0, <1>8, <2>1, <2>3 DEF PushArrives, KeptRows
<1>9. CASE SocketCloses
  <2>1. sockets = 1 /\ sockets' = 0 /\ pushed' = <<>> /\ subscribed' = FALSE /\ reconnect' = (reconnect \/ logsTab)
    BY <1>9 DEF SocketCloses
  <2>2. reconnect' \in BOOLEAN /\ (logsTab => reconnect')
    <3>1. (reconnect \/ logsTab) \in BOOLEAN
      OBVIOUS
    <3> QED
      BY <2>1, <3>1, Zenon
  <2>3. <<>> \in Seq(LogMessage)
    BY EmptySeq
  <2>4. UNCHANGED <<serverLogs, nextLog, logRows, logFilter, logsTab, opening, clearing>>
    BY <1>9 DEF SocketCloses
  <2>5. subscribed' \in BOOLEAN /\ sockets' \in Nat
    BY <2>1
  <2>6. RuntimeLogsTypeOK'
    BY <1>0, <2>2, <2>4, <2>5
  <2>7. LogsTabListens'
    BY <2>1, <2>2, <2>4
  <2> QED
    BY <2>1, <2>3, <2>4, <2>6, <2>7
<1>10. CASE ClearLogs
  <2>1. Snapshot(<<>>) \in LogMessage
    BY <1>0 DEF Snapshot, LogMessage
  <2>2. pushed' \in Seq(LogMessage)
    BY <1>10, <2>1, PushedIs DEF ClearLogs
  <2> QED
    BY <1>0, <1>10, <2>2 DEF ClearLogs
<1>11. CASE ClearAnswered
  BY <1>0, <1>11 DEF ClearAnswered, KeptRows
<1>12. CASE SetLogFilter
  BY <1>0, <1>12 DEF SetLogFilter
<1> QED
  BY <1>1, <1>2, <1>3, <1>4, <1>5, <1>6, <1>7, <1>8, <1>9, <1>10, <1>11, <1>12 DEF RuntimeLogsNext

\* A step of another part leaves them.
LEMMA RuntimeLogsStutter == ASSUME RuntimeLogsInv, UNCHANGED runtimeLogsVars PROVE RuntimeLogsInv'
BY DEF RuntimeLogsInv, RuntimeLogsTypeOK, LogsTabListens, runtimeLogsVars

-----------------------------------------------------------------------------
(* The groups of the logs. *)
\* The places of a kind in a sequence of records, and what they are grouped to.
PlacesOf(s, k) == {i \in 1..Len(s) : s[i].kind = k}
LastIn(S) == CHOOSE i \in S : \A j \in S : j <= i
Nothing == [count |-> 0, latest |-> 0]
Tally(s, k) ==
    IF PlacesOf(s, k) = {} THEN Nothing
    ELSE [count |-> Cardinality(PlacesOf(s, k)), latest |-> s[LastIn(PlacesOf(s, k))].n]

\* The places are finite, and one of some is the last.
LEMMA PlacesAre ==
    ASSUME NEW s \in Seq(Records), NEW k
    PROVE  /\ IsFiniteSet(PlacesOf(s, k)) /\ PlacesOf(s, k) \subseteq 1..Len(s) /\ Len(s) \in Nat
           /\ PlacesOf(s, k) # {} => LastIn(PlacesOf(s, k)) \in PlacesOf(s, k)
           /\ Tally(s, k).count = Cardinality(PlacesOf(s, k)) /\ Tally(s, k).count \in Nat
           /\ (Tally(s, k).count = 0) = (PlacesOf(s, k) = {})
<1> DEFINE S == PlacesOf(s, k)
<1>1. Len(s) \in Nat /\ S \subseteq 1..Len(s)
  BY LenProperties DEF PlacesOf
<1>2. IsFiniteSet(S)
  <2>1. IsFiniteSet(1..Len(s))
    BY <1>1, FS_Interval
  <2> HIDE DEF S
  <2> QED
    BY <1>1, <2>1, FS_Subset
<1> HIDE DEF S
<1>3. S # {} => LastIn(S) \in S
  <2> SUFFICES ASSUME S # {} PROVE LastIn(S) \in S
    OBVIOUS
  <2>1. S \in SUBSET Nat
    BY <1>1
  <2>2. Max(S) \in S /\ \A x \in S : x <= Max(S)
    BY <1>2, <2>1, ExtremesExist
  <2> DEFINE m == Max(S)
  <2> HIDE DEF m
  <2>3. \E i \in S : \A j \in S : j <= i
    BY <2>2 DEF m
  <2> QED
    BY <2>3 DEF LastIn
<1>4. Cardinality(S) \in Nat /\ (Cardinality(S) = 0) = (S = {})
  BY <1>2, FS_CardinalityType, FS_EmptySet
<1>5. Tally(s, k) = IF S = {} THEN Nothing ELSE [count |-> Cardinality(S), latest |-> s[LastIn(S)].n]
  BY DEF Tally, S
<1>6. Tally(s, k).count = Cardinality(S)
  BY <1>4, <1>5 DEF Nothing
<1> QED
  BY <1>1, <1>2, <1>3, <1>4, <1>6 DEF S

\* One record more is told of where it belongs.
LEMMA ToldMore ==
    ASSUME NEW s \in Seq(Records), NEW r \in Records, NEW k
    PROVE  Tally(Append(s, r), k) =
              IF r.kind = k THEN [count |-> Tally(s, k).count + 1, latest |-> r.n] ELSE Tally(s, k)
<1> DEFINE n == Len(s)
           t == Append(s, r)
           S == PlacesOf(s, k)
           P == PlacesOf(t, k)
<1>1. n \in Nat /\ S \subseteq 1..n /\ IsFiniteSet(S) /\ (S # {} => LastIn(S) \in S) /\ Tally(s, k).count = Cardinality(S)
  BY PlacesAre
<1>2. t \in Seq(Records) /\ Len(t) = n + 1 /\ t[n + 1] = r /\ \A i \in 1..n : t[i] = s[i]
  BY AppendProperties
<1>3. (\A i \in S : s[i].kind = k) /\ \A i \in 1..n : s[i].kind = k => i \in S
  BY DEF PlacesOf
<1>4. P = {i \in 1..Len(t) : t[i].kind = k}
  BY DEF PlacesOf
<1>5. Tally(t, k) = IF P = {} THEN Nothing ELSE [count |-> Cardinality(P), latest |-> t[LastIn(P)].n]
  BY DEF Tally
<1>6. Tally(s, k) = IF S = {} THEN Nothing ELSE [count |-> Cardinality(S), latest |-> s[LastIn(S)].n]
  BY DEF Tally
<1> HIDE DEF n, t, S, P
<1>7. \A i \in 1..(n + 1) : i \in 1..n \/ i = n + 1
  BY <1>1
<1>8. \A i \in 1..n : i \in 1..(n + 1)
  BY <1>1
<1>9. CASE r.kind # k
  <2>1. P = S
    BY <1>1, <1>2, <1>3, <1>4, <1>7, <1>8, <1>9
  <2>2. S # {} => t[LastIn(S)] = s[LastIn(S)]
    BY <1>1, <1>2
  <2> QED
    BY <1>5, <1>6, <1>9, <2>1, <2>2 DEF t
<1>10. CASE r.kind = k
  <2>1. P = S \cup {n + 1} /\ n + 1 \notin S
    <3>1. n + 1 \notin S /\ n + 1 \in P
      BY <1>1, <1>2, <1>4, <1>10
    <3>2. \A i \in 1..n : i \in P <=> i \in S
      BY <1>1, <1>2, <1>3, <1>4, <1>8
    <3>3. P \subseteq 1..(n + 1)
      BY <1>2, <1>4
    <3> QED
      BY <1>1, <1>7, <3>1, <3>2, <3>3
  <2>2. Cardinality(P) = Cardinality(S) + 1
    BY <1>1, <2>1, FS_AddElement
  <2>3. LastIn(P) = n + 1
    <3>1. n + 1 \in P /\ \A j \in P : j <= n + 1
      BY <1>1, <2>1
    <3>2. LastIn(P) \in P /\ \A j \in P : j <= LastIn(P)
      BY <3>1 DEF LastIn
    <3> DEFINE m == LastIn(P)
    <3>3. m \in P /\ m <= n + 1 /\ n + 1 <= m
      BY <3>1, <3>2
    <3> HIDE DEF m
    <3>4. m \in Int
      BY <1>1, <2>1, <3>3
    <3>5. m = n + 1
      BY <1>1, <3>3, <3>4
    <3> QED
      BY <3>5 DEF m
  <2> QED
    BY <1>1, <1>2, <1>5, <1>10, <2>1, <2>2, <2>3 DEF t
<1> QED
  BY <1>9, <1>10

\* Nothing is told of no records.
LEMMA TallyOfNone == \A k : Tally(<<>>, k) = Nothing
<1> SUFFICES ASSUME NEW k PROVE Tally(<<>>, k) = Nothing
  OBVIOUS
<1>1. Len(<<>>) = 0
  BY EmptySeq
<1> DEFINE q == <<>>
<1>2. Len(q) = 0
  BY <1>1
<1> HIDE DEF q
<1>3. PlacesOf(q, k) = {}
  BY <1>2 DEF PlacesOf
<1>4. Tally(q, k) = Nothing
  BY <1>3 DEF Tally
<1> QED
  BY <1>4 DEF q

\* The records that pass the filter, told kind by kind.
LEMMA FilteredIs ==
    ASSUME logRows \in Seq(Records)
    PROVE  /\ Filtered \in Seq(Records)
           /\ \A k \in LogKind : Tally(Filtered, k) = IF k \in logFilter THEN Tally(logRows, k) ELSE Nothing
<1> DEFINE n == Len(logRows)
           T == Seq(Records)
           Passed(rows, r) == IF r.kind \in logFilter THEN Append(rows, r) ELSE rows
           passed == [x \in T \X (1..n) |-> Passed(x[1], logRows[x[2]])]
           Rec(f) == f = [i \in 0..n |-> IF i = 0 THEN <<>>
                             ELSE IF logRows[i].kind \in logFilter THEN Append(f[i - 1], logRows[i]) ELSE f[i - 1]]
           f == CHOOSE g : Rec(g)
<1>1. Filtered = f[n]
  BY DEF Filtered
<1>2. n \in Nat /\ \A i \in 1..n : logRows[i] \in Records
  BY LenProperties, ElementOfSeq
<1> HIDE DEF n
<1>3. \A rows \in T, r \in Records : Passed(rows, r) \in T
  BY AppendProperties
<1> HIDE DEF Passed
<1>4. passed \in Stepping(n, T)
  <2>1. ASSUME NEW x \in T \X (1..n) PROVE Passed(x[1], logRows[x[2]]) \in T
    BY <1>2, <1>3
  <2> HIDE DEF T
  <2> QED
    BY <2>1 DEF Stepping
<1>5. PICK g : Folding(g, n, T, <<>>, passed)
  <2>1. <<>> \in T
    BY EmptySeq
  <2> HIDE DEF passed, T
  <2> QED
    BY <1>2, <1>4, <2>1, FoldExists
<1>6. ASSUME NEW i \in 1..n PROVE g[i] = Passed(g[i - 1], logRows[i])
  <2>1. i - 1 \in 0..n
    BY <1>2
  <2> HIDE DEF T
  <2>2. g[i - 1] \in T
    BY <1>5, <2>1 DEF Folding
  <2>3. <<g[i - 1], i>> \in T \X (1..n)
    BY <2>2
  <2>4. passed[<<g[i - 1], i>>] = Passed(g[i - 1], logRows[i])
    BY <2>3
  <2> HIDE DEF passed
  <2> QED
    BY <1>5, <2>4 DEF Folding
<1>7. Rec(g)
  <2> HIDE DEF T, passed
  <2>1. \A i \in 0..n : g[i] = IF i = 0 THEN <<>>
                             ELSE IF logRows[i].kind \in logFilter THEN Append(g[i - 1], logRows[i]) ELSE g[i - 1]
    <3> SUFFICES ASSUME NEW i \in 0..n
                 PROVE  g[i] = IF i = 0 THEN <<>>
                               ELSE IF logRows[i].kind \in logFilter THEN Append(g[i - 1], logRows[i]) ELSE g[i - 1]
      OBVIOUS
    <3>1. CASE i = 0
      BY <1>5, <3>1 DEF Folding
    <3>2. CASE i # 0
      <4>1. i \in 1..n
        BY <1>2, <3>2
      <4>2. g[i] = Passed(g[i - 1], logRows[i])
        BY <1>6, <4>1
      <4> QED
        BY <3>2, <4>2 DEF Passed
    <3> QED
      BY <3>1, <3>2
  <2>2. g \in [0..n -> T]
    BY <1>5 DEF Folding
  <2> QED
    BY <2>1, <2>2
<1>8. Rec(f)
  <2> HIDE DEF Rec
  <2> QED
    BY <1>7
<1> HIDE DEF f
<1>9. f[0] = <<>> /\ \A i \in 1..n : f[i] = Passed(f[i - 1], logRows[i])
  <2> DEFINE e(i) == IF i = 0 THEN <<>>
                     ELSE IF logRows[i].kind \in logFilter THEN Append(f[i - 1], logRows[i]) ELSE f[i - 1]
  <2>1. f = [i \in 0..n |-> e(i)]
    BY <1>8
  <2>2. 0 \in 0..n /\ \A i \in 1..n : i \in 0..n /\ i # 0
    BY <1>2
  <2> HIDE DEF e
  <2>3. \A i \in 0..n : f[i] = e(i)
    BY <2>1
  <2> QED
    BY <2>2, <2>3 DEF e, Passed
<1> DEFINE Well(i) == /\ f[i] \in T
                      /\ \A k \in LogKind : Tally(f[i], k) =
                            IF k \in logFilter THEN Tally(SubSeq(logRows, 1, i), k) ELSE Nothing
           W == {i \in 0..n : Well(i)}
<1>10. 0 \in W
  <2>1. <<>> \in T
    BY EmptySeq
  <2>2. SubSeq(logRows, 1, 0) = <<>>
    BY PrefixIs
  <2>3. \A k \in LogKind : Tally(<<>>, k) = Nothing
    BY TallyOfNone
  <2> HIDE DEF T
  <2>4. Well(0)
    BY <1>9, <2>1, <2>2, <2>3
  <2> HIDE DEF Well
  <2> QED
    BY <1>2, <2>4
<1>11. ASSUME NEW i \in 1..n, i - 1 \in W PROVE i \in W
  <2> DEFINE a == f[i - 1]
             p == SubSeq(logRows, 1, i - 1)
             r == logRows[i]
  <2>1. f[i] = Passed(a, r) /\ r \in Records
    BY <1>2, <1>9
  <2>2. SubSeq(logRows, 1, i) = Append(p, r)
    BY PrefixIs DEF n
  <2>3. p \in Seq(Records)
    <3>1. i - 1 \in 0..n
      BY <1>2
    <3> QED
      BY <3>1, PrefixIs DEF n
  <2>4. a \in T /\ \A k \in LogKind : Tally(a, k) = IF k \in logFilter THEN Tally(p, k) ELSE Nothing
    BY <1>11
  <2> HIDE DEF a, p, r
  <2>5. f[i] \in T
    BY <1>3, <2>1, <2>4
  <2>6. ASSUME NEW k \in LogKind
        PROVE  Tally(f[i], k) = IF k \in logFilter THEN Tally(Append(p, r), k) ELSE Nothing
    <3>1. Tally(Append(p, r), k) = IF r.kind = k THEN [count |-> Tally(p, k).count + 1, latest |-> r.n] ELSE Tally(p, k)
      BY <2>1, <2>3, ToldMore
    <3>2. Tally(Append(a, r), k) = IF r.kind = k THEN [count |-> Tally(a, k).count + 1, latest |-> r.n] ELSE Tally(a, k)
      BY <2>1, <2>4, ToldMore
    <3>3. Tally(a, k) = IF k \in logFilter THEN Tally(p, k) ELSE Nothing
      BY <2>4
    <3> QED
      BY <2>1, <3>1, <3>2, <3>3 DEF Passed
  <2>7. i \in 0..n
    BY <1>2
  <2> HIDE DEF T
  <2> QED
    BY <2>2, <2>5, <2>6, <2>7
<1>12. n \in W
  <2> HIDE DEF W
  <2>1. 0..n \subseteq W
    BY <1>2, <1>10, <1>11, CountUp
  <2> QED
    BY <1>2, <2>1
<1>13. SubSeq(logRows, 1, n) = logRows
  BY PrefixIs DEF n
<1> HIDE DEF T
<1> QED
  BY <1>1, <1>12, <1>13 DEF T

\* A group, the groups of some kinds, and those with one record more.
Group == [count : Nat, latest : Nat]
GroupsOf == UNION {[kinds -> Group] : kinds \in SUBSET LogKind}
GroupAdded(groups, r) ==
    IF r.kind \in DOMAIN groups
    THEN [groups EXCEPT ![r.kind] = [count |-> @.count + 1, latest |-> r.n]]
    ELSE [k \in DOMAIN groups \cup {r.kind} |->
             IF k = r.kind THEN [count |-> 1, latest |-> r.n] ELSE groups[k]]

\* What a record adds to its group, and leaves of the others.
LEMMA GroupAddedIs ==
    ASSUME NEW groups \in GroupsOf, NEW r \in Records
    PROVE  /\ GroupAdded(groups, r) \in GroupsOf
           /\ DOMAIN GroupAdded(groups, r) = DOMAIN groups \cup {r.kind}
           /\ GroupAdded(groups, r)[r.kind] =
                [count |-> IF r.kind \in DOMAIN groups THEN groups[r.kind].count + 1 ELSE 1, latest |-> r.n]
           /\ \A k \in DOMAIN groups \ {r.kind} : GroupAdded(groups, r)[k] = groups[k]
<1>1. PICK kinds \in SUBSET LogKind : groups \in [kinds -> Group]
  BY DEF GroupsOf
<1>2. r.kind \in LogKind /\ r.n \in Nat
  BY RuntimeLogsAssumption DEF Records
<1>3. DOMAIN groups = kinds /\ \A k \in kinds : groups[k] \in Group /\ groups[k].count \in Nat
  BY <1>1 DEF Group
<1> DEFINE g == GroupAdded(groups, r)
<1>4. CASE r.kind \in kinds
  <2> DEFINE one == [count |-> groups[r.kind].count + 1, latest |-> r.n]
  <2>1. one \in Group
    BY <1>2, <1>3, <1>4 DEF Group
  <2>2. g = [groups EXCEPT ![r.kind] = one]
    BY <1>3, <1>4 DEF GroupAdded
  <2> HIDE DEF one, g
  <2>3. g \in [kinds -> Group]
    BY <1>1, <2>1, <2>2
  <2>4. g \in GroupsOf
    BY <2>3 DEF GroupsOf
  <2>5. DOMAIN g = kinds \cup {r.kind} /\ g[r.kind] = one /\ \A k \in kinds \ {r.kind} : g[k] = groups[k]
    BY <1>3, <1>4, <2>2, <2>3
  <2> QED
    BY <1>3, <1>4, <2>4, <2>5 DEF g, one
<1>5. CASE r.kind \notin kinds
  <2> DEFINE one == [count |-> 1, latest |-> r.n]
             e(k) == IF k = r.kind THEN one ELSE groups[k]
  <2>1. one \in Group
    BY <1>2 DEF Group
  <2>2. g = [k \in kinds \cup {r.kind} |-> e(k)]
    BY <1>3, <1>5 DEF GroupAdded
  <2>3. \A k \in kinds \cup {r.kind} : e(k) \in Group
    BY <1>3, <2>1
  <2>4. e(r.kind) = one /\ \A k \in kinds \ {r.kind} : e(k) = groups[k]
    OBVIOUS
  <2> HIDE DEF one, g, e
  <2>5. g \in [kinds \cup {r.kind} -> Group]
    BY <2>2, <2>3
  <2>6. g \in GroupsOf
    BY <1>2, <2>5 DEF GroupsOf
  <2>7. DOMAIN g = kinds \cup {r.kind} /\ g[r.kind] = one /\ \A k \in kinds \ {r.kind} : g[k] = groups[k]
    BY <2>2, <2>4
  <2> QED
    BY <1>3, <1>5, <2>6, <2>7 DEF g, one
<1> QED
  BY <1>4, <1>5

\* The groups tell of every kind what its records tell.
LEMMA GroupedIs ==
    ASSUME NEW rows \in Seq(Records)
    PROVE  \A k \in LogKind : /\ k \in DOMAIN Grouped(rows) <=> Tally(rows, k).count # 0
                              /\ k \in DOMAIN Grouped(rows) => Grouped(rows)[k] = Tally(rows, k)
<1> DEFINE n == Len(rows)
           T == GroupsOf
           grouped == [x \in T \X (1..n) |-> GroupAdded(x[1], rows[x[2]])]
           Rec(f) == f = [i \in 0..n |-> IF i = 0 THEN <<>> ELSE GroupAdded(f[i - 1], rows[i])]
           f == CHOOSE g : Rec(g)
<1>1. Grouped(rows) = f[n]
  BY DEF Grouped, GroupAdded
<1>2. n \in Nat /\ \A i \in 1..n : rows[i] \in Records
  BY LenProperties, ElementOfSeq
<1> HIDE DEF n, T
<1>3. \A groups \in T, r \in Records : GroupAdded(groups, r) \in T
  BY GroupAddedIs DEF T
<1>4. grouped \in Stepping(n, T)
  <2>1. ASSUME NEW x \in T \X (1..n) PROVE GroupAdded(x[1], rows[x[2]]) \in T
    BY <1>2, <1>3
  <2> QED
    BY <2>1 DEF Stepping
<1>5. <<>> \in T /\ DOMAIN <<>> = {}
  <2>1. <<>> \in Seq(Group) /\ Len(<<>>) = 0
    BY EmptySeq
  <2> DEFINE q == <<>>
  <2>2. q \in Seq(Group) /\ Len(q) = 0
    BY <2>1
  <2> HIDE DEF q
  <2>3. q \in [1..0 -> Group] /\ DOMAIN q = 1..0
    BY <2>2, LenProperties
  <2>4. 1..0 = {}
    OBVIOUS
  <2>5. q \in T
    BY <2>3, <2>4 DEF T, GroupsOf
  <2> QED
    BY <2>3, <2>4, <2>5 DEF q
<1>6. PICK g : Folding(g, n, T, <<>>, grouped)
  <2> HIDE DEF grouped
  <2> QED
    BY <1>2, <1>4, <1>5, FoldExists
<1>7. ASSUME NEW i \in 1..n PROVE g[i] = GroupAdded(g[i - 1], rows[i])
  <2>1. i - 1 \in 0..n
    BY <1>2
  <2>2. g[i - 1] \in T
    BY <1>6, <2>1 DEF Folding
  <2>3. <<g[i - 1], i>> \in T \X (1..n)
    BY <2>2
  <2>4. grouped[<<g[i - 1], i>>] = GroupAdded(g[i - 1], rows[i])
    BY <2>3
  <2> HIDE DEF grouped
  <2> QED
    BY <1>6, <2>4 DEF Folding
<1>8. Rec(g)
  <2> HIDE DEF grouped
  <2>1. \A i \in 0..n : g[i] = IF i = 0 THEN <<>> ELSE GroupAdded(g[i - 1], rows[i])
    BY <1>2, <1>6, <1>7 DEF Folding
  <2>2. g \in [0..n -> T]
    BY <1>6 DEF Folding
  <2> QED
    BY <2>1, <2>2
<1>9. Rec(f)
  <2> HIDE DEF Rec
  <2> QED
    BY <1>8
<1> HIDE DEF f
<1>10. f[0] = <<>> /\ \A i \in 1..n : f[i] = GroupAdded(f[i - 1], rows[i])
  <2> DEFINE e(i) == IF i = 0 THEN <<>> ELSE GroupAdded(f[i - 1], rows[i])
  <2>1. f = [i \in 0..n |-> e(i)]
    BY <1>9
  <2>2. 0 \in 0..n /\ \A i \in 1..n : i \in 0..n /\ i # 0
    BY <1>2
  <2> HIDE DEF e
  <2>3. \A i \in 0..n : f[i] = e(i)
    BY <2>1
  <2> QED
    BY <2>2, <2>3 DEF e
<1> DEFINE Tells(g1, p) ==
              /\ g1 \in T
              /\ \A k \in LogKind : (k \in DOMAIN g1 <=> Tally(p, k).count # 0) /\ (k \in DOMAIN g1 => g1[k] = Tally(p, k))
           W == {i \in 0..n : Tells(f[i], SubSeq(rows, 1, i))}
<1>11. 0 \in W
  <2>1. SubSeq(rows, 1, 0) = <<>>
    BY PrefixIs
  <2>2. \A k : Tally(<<>>, k).count = 0
    BY TallyOfNone DEF Nothing
  <2>3. Tells(f[0], SubSeq(rows, 1, 0))
    BY <1>5, <1>10, <2>1, <2>2
  <2> HIDE DEF Tells
  <2> QED
    BY <1>2, <2>3
<1>12. ASSUME NEW i \in 1..n, i - 1 \in W PROVE i \in W
  <2> DEFINE a == f[i - 1]
             p == SubSeq(rows, 1, i - 1)
             r == rows[i]
             b == GroupAdded(a, r)
  <2>1. f[i] = b /\ r \in Records
    BY <1>2, <1>10
  <2>2. SubSeq(rows, 1, i) = Append(p, r)
    BY PrefixIs DEF n
  <2>3. p \in Seq(Records)
    <3>1. i - 1 \in 0..n
      BY <1>2
    <3> QED
      BY <3>1, PrefixIs DEF n
  <2>4. Tells(a, p)
    BY <1>12
  <2> HIDE DEF a, p, r
  <2>5. b \in T /\ DOMAIN b = DOMAIN a \cup {r.kind}
        /\ b[r.kind] = [count |-> IF r.kind \in DOMAIN a THEN a[r.kind].count + 1 ELSE 1, latest |-> r.n]
        /\ \A k \in DOMAIN a \ {r.kind} : b[k] = a[k]
    BY <2>1, <2>4, GroupAddedIs DEF T
  <2> HIDE DEF b
  <2>6. ASSUME NEW k \in LogKind
        PROVE  /\ k \in DOMAIN b <=> Tally(Append(p, r), k).count # 0
               /\ k \in DOMAIN b => b[k] = Tally(Append(p, r), k)
    <3>1. Tally(Append(p, r), k) = IF r.kind = k THEN [count |-> Tally(p, k).count + 1, latest |-> r.n] ELSE Tally(p, k)
      BY <2>1, <2>3, ToldMore
    <3>2. (k \in DOMAIN a <=> Tally(p, k).count # 0) /\ (k \in DOMAIN a => a[k] = Tally(p, k)) /\ Tally(p, k).count \in Nat
      BY <2>3, <2>4, PlacesAre
    <3>3. CASE r.kind = k
      <4>1. b[k] = [count |-> Tally(p, k).count + 1, latest |-> r.n]
        BY <2>5, <3>2, <3>3
      <4> QED
        BY <2>5, <3>1, <3>2, <3>3, <4>1
    <3>4. CASE r.kind # k
      BY <2>5, <3>1, <3>2, <3>4
    <3> QED
      BY <3>3, <3>4
  <2> DEFINE t == Append(p, r)
  <2>7. Tells(b, t)
    <3> HIDE DEF t
    <3>1. \A k \in LogKind : (k \in DOMAIN b <=> Tally(t, k).count # 0) /\ (k \in DOMAIN b => b[k] = Tally(t, k))
      BY <2>6 DEF t
    <3> QED
      BY <2>5, <3>1
  <2>8. Tells(f[i], SubSeq(rows, 1, i)) /\ i \in 0..n
    <3>1. i \in 0..n
      BY <1>2
    <3> HIDE DEF Tells
    <3> QED
      BY <2>1, <2>2, <2>7, <3>1
  <2> HIDE DEF Tells
  <2> QED
    BY <2>8
<1>13. n \in W
  <2> HIDE DEF W
  <2>1. 0..n \subseteq W
    BY <1>2, <1>11, <1>12, CountUp
  <2> QED
    BY <1>2, <2>1
<1>14. SubSeq(rows, 1, n) = rows
  BY PrefixIs DEF n
<1> QED
  BY <1>1, <1>13, <1>14

\* What the invariant of the logs says of their groups.
LEMMA RuntimeLogsInvGives == RuntimeLogsInv => RuntimeLogsTypeOK /\ RuntimeLogsSound
<1> SUFFICES ASSUME RuntimeLogsInv PROVE RuntimeLogsTypeOK /\ RuntimeLogsSound
  OBVIOUS
<1>1. logRows \in Seq(Records)
  BY DEF RuntimeLogsInv, RuntimeLogsTypeOK
<1>2. DOMAIN logRows = 1..Len(logRows)
  BY <1>1, LenProperties
<1>3. ASSUME NEW k \in LogKind
      PROVE  LET rows == {i \in DOMAIN logRows : logRows[i].kind = k /\ k \in logFilter}
                 groups == Grouped(Filtered)
             IN IF rows = {} THEN k \notin DOMAIN groups
                ELSE groups[k] = [count |-> Cardinality(rows),
                                  latest |-> logRows[CHOOSE i \in rows : \A j \in rows : j <= i].n]
  <2> DEFINE rows == {i \in DOMAIN logRows : logRows[i].kind = k /\ k \in logFilter}
             groups == Grouped(Filtered)
             passing == Filtered
  <2>1. passing \in Seq(Records) /\ Tally(passing, k) = IF k \in logFilter THEN Tally(logRows, k) ELSE Nothing
    BY <1>1, FilteredIs
  <2>2. (k \in DOMAIN groups <=> Tally(passing, k).count # 0) /\ (k \in DOMAIN groups => groups[k] = Tally(passing, k))
    BY <2>1, GroupedIs
  <2>3. rows = IF k \in logFilter THEN PlacesOf(logRows, k) ELSE {}
    BY <1>2 DEF PlacesOf
  <2>4. (Tally(logRows, k).count = 0) = (PlacesOf(logRows, k) = {})
    BY <1>1, PlacesAre
  <2> HIDE DEF groups, passing, rows
  <2>5. CASE rows = {}
    <3>1. Tally(passing, k).count = 0
      BY <2>1, <2>3, <2>4, <2>5 DEF Nothing
    <3> QED
      BY <2>2, <2>5, <3>1 DEF rows, groups
  <2>6. CASE rows # {}
    <3>1. k \in logFilter /\ rows = PlacesOf(logRows, k)
      BY <2>3, <2>6
    <3>2. groups[k] = Tally(logRows, k)
      BY <2>1, <2>2, <2>4, <2>6, <3>1
    <3>3. Tally(logRows, k) = [count |-> Cardinality(rows), latest |-> logRows[LastIn(rows)].n]
      BY <2>6, <3>1 DEF Tally
    <3>4. groups[k] = [count |-> Cardinality(rows),
                       latest |-> logRows[CHOOSE i \in rows : \A j \in rows : j <= i].n]
      BY <3>2, <3>3 DEF LastIn
    <3> QED
      BY <2>6, <3>4 DEF rows, groups
  <2> QED
    BY <2>5, <2>6
<1>4. GroupsCountEveryRow
  BY <1>3 DEF GroupsCountEveryRow
<1> QED
  BY <1>4 DEF RuntimeLogsInv, RuntimeLogsSound
=============================================================================
