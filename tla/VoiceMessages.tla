--------------------------- MODULE VoiceMessages ---------------------------
(***************************************************************************)
(* The history of voice messages on the dashboard: pages loaded over HTTP, *)
(* the set of unread messages behind the badge, and the events of the      *)
(* socket, which say what other tabs have read and announce a message      *)
(* before it is stored.  The messages are other users'; their audio is     *)
(* left out.                                                               *)
(***************************************************************************)
EXTENDS Integers, FiniteSets, Sequences

CONSTANTS
    VoicePageSize,                           \* _PAGE_SIZE
    MaxVoice, MaxVoiceLoads, MaxVoiceWire    \* bounds: messages, requests for a page, events on the wire

ASSUME VoiceAssumption ==
    /\ VoicePageSize \in Nat \ {0} /\ MaxVoice \in Nat /\ MaxVoiceLoads \in Nat /\ MaxVoiceWire \in Nat

VARIABLES
    voiceStored, voiceRead,     \* the server: messages, and those this user has read
    voiceCount,                 \* how many there have been
    storing,                    \* an announced message is not stored yet
    voiceWire,                  \* the events on the socket
    incoming,                   \* _incoming: the session under way, and whether a part was heard
    messages, messagesRead,     \* _messages and those of them with is_read
    unreadIds,                  \* _unreadIds
    histPage, histPages,        \* _histPage, _histPages
    voiceLoads,                 \* requests for a page and their answers
    marks                       \* requests that mark one message

serverVoice == <<voiceStored, voiceRead, voiceCount, storing>>
socketVoice == <<voiceWire, incoming>>
listVoice == <<messages, messagesRead, unreadIds>>
pageVoice == <<histPage, histPages, voiceLoads, marks>>
voiceMessagesVars == <<serverVoice, socketVoice, listVoice, pageVoice>>

Voices == 1..MaxVoice
Unanswered == [items |-> {}, read |-> {}, pages |-> 0]

VoiceMessagesTypeOK ==
    /\ voiceStored \subseteq Voices /\ voiceRead \subseteq Voices /\ Len(voiceWire) <= MaxVoiceWire
    /\ messages \subseteq Voices /\ messagesRead \subseteq messages /\ unreadIds \subseteq Voices
    /\ Cardinality(messages) <= VoicePageSize /\ histPage \in 1..MaxVoice + 1
    /\ incoming \in {"none", "announced", "heard"}

VoiceMessagesInit ==
    /\ voiceStored = {} /\ voiceRead = {} /\ voiceCount = 0 /\ storing = FALSE
    /\ voiceWire = <<>> /\ incoming = "none"
    /\ messages = {} /\ messagesRead = {} /\ unreadIds = {}
    /\ histPage = 1 /\ histPages = 1 /\ voiceLoads = {} /\ marks = {}

-----------------------------------------------------------------------------
(* The server. *)
\* An event is lost while the socket is down or connects again.
Told(event) == voiceWire' \in {Append(voiceWire, event), voiceWire}
CanTell == Len(voiceWire) < MaxVoiceWire
PageAt(p) == {id \in voiceStored : Cardinality({x \in voiceStored : x > id}) \div VoicePageSize = p - 1}
PagesOf == IF voiceStored = {} THEN 1 ELSE (Cardinality(voiceStored) + VoicePageSize - 1) \div VoicePageSize

\* voice_ws of another user: "start", its parts, and "end", which is told before the message
\* is stored; who is not connected finds the message later.
Transmits(event) ==
    /\ CanTell /\ ~storing /\ voiceCount < MaxVoice /\ Told(<<event>>)
    /\ storing' = (event = "done")
    /\ UNCHANGED <<voiceStored, voiceRead, voiceCount, incoming, listVoice, pageVoice>>
MessageStored ==
    /\ storing /\ storing' = FALSE
    /\ voiceCount' = voiceCount + 1 /\ voiceStored' = voiceStored \cup {voiceCount'}
    /\ UNCHANGED <<voiceRead, socketVoice, listVoice, pageVoice>>
\* list_messages.
PageServed(l) ==
    /\ l.answer = Unanswered
    /\ voiceLoads' = (voiceLoads \ {l}) \cup
                     {[l EXCEPT !.answer = [items |-> PageAt(l.page), read |-> voiceRead \cap PageAt(l.page), pages |-> PagesOf]]}
    /\ UNCHANGED <<serverVoice, socketVoice, listVoice, histPage, histPages, marks>>
\* mark_read, mark_all_read of this or another tab.
MarkServed(id) ==
    /\ CanTell /\ marks' = marks \ {id} /\ voiceRead' = voiceRead \cup {id} /\ Told(<<"read", id>>)
    /\ UNCHANGED <<voiceStored, voiceCount, storing, incoming, listVoice, histPage, histPages, voiceLoads>>
AllMarkedElsewhere ==
    /\ CanTell /\ voiceRead' = voiceStored /\ Told(<<"read_all">>)
    /\ UNCHANGED <<voiceStored, voiceCount, storing, incoming, listVoice, pageVoice>>

-----------------------------------------------------------------------------
(* _loadMessages. *)
\* then: what follows when the page is drawn, nothing, or marking what appeared
\* since the messages of before; live: the messages to be marked with this load.
LoadMessages(page, then, live, before) ==
    [page |-> page, then |-> then, live |-> live, before |-> before, answer |-> Unanswered]
Asking(page, then, before) == voiceLoads' = voiceLoads \cup {LoadMessages(page, then, {}, before)}

\* The page of an answer, with the messages heard live as read.
ReadHere(answer, live) == answer.read \cup (answer.items \cap live)
MergedUnread(answer, live) == (unreadIds \ answer.items) \cup (answer.items \ ReadHere(answer, live))
PageArrives(l) ==
    LET fresh == l.answer.items \ l.before IN
    /\ l.answer # Unanswered
    /\ messages' = l.answer.items /\ messagesRead' = ReadHere(l.answer, l.live)
    /\ unreadIds' = MergedUnread(l.answer, l.live) /\ histPages' = l.answer.pages
    /\ marks' = marks \cup l.live
    /\ voiceLoads' = (voiceLoads \ {l}) \cup
                     (IF l.then = "mark" /\ fresh # {} THEN {LoadMessages(histPage, "nothing", fresh, {})} ELSE {})
    /\ UNCHANGED <<serverVoice, socketVoice, histPage>>
PageFails(l) ==
    /\ voiceLoads' = voiceLoads \ {l}
    /\ UNCHANGED <<serverVoice, socketVoice, listVoice, histPage, histPages, marks>>

CanAsk == Cardinality(voiceLoads) < MaxVoiceLoads
OpenVoiceModal ==
    /\ CanAsk /\ histPage' = 1 /\ Asking(1, "nothing", {})
    /\ UNCHANGED <<serverVoice, socketVoice, listVoice, histPages, marks>>
GotoPage(p) ==
    /\ p \in 1..histPages /\ p # histPage /\ CanAsk /\ histPage' = p /\ Asking(p, "nothing", {})
    /\ UNCHANGED <<serverVoice, socketVoice, listVoice, histPages, marks>>

-----------------------------------------------------------------------------
(* The socket. *)
AllRead == messagesRead' = messages /\ unreadIds' = {}
VoiceReadElsewhere(id) == messagesRead' = messagesRead \cup {id} /\ unreadIds' = unreadIds \ {id}

\* _onJson and _onChunk.
OnJson ==
    /\ voiceWire # <<>> /\ voiceWire' = Tail(voiceWire)
    /\ LET event == Head(voiceWire) IN
       \/ /\ event \in {<<"read", id>> : id \in Voices} /\ event[2] \in messages
          /\ VoiceReadElsewhere(event[2]) /\ UNCHANGED <<messages, incoming, pageVoice>>
       \/ /\ event \in {<<"read", id>> : id \in Voices} /\ event[2] \notin messages
          /\ UNCHANGED <<listVoice, incoming, pageVoice>>
       \/ event = <<"read_all">> /\ AllRead /\ UNCHANGED <<messages, incoming, pageVoice>>
       \/ event = <<"transmitting">> /\ incoming' = "announced" /\ UNCHANGED <<listVoice, pageVoice>>
       \/ /\ event = <<"chunk">> /\ incoming' = IF incoming = "none" THEN "none" ELSE "heard"
          /\ UNCHANGED <<listVoice, pageVoice>>
       \/ /\ event = <<"done">> /\ CanAsk /\ incoming' = "none" /\ histPage' = 1
          /\ Asking(1, IF incoming = "heard" THEN "mark" ELSE "nothing", messages)
          /\ UNCHANGED <<listVoice, histPages, marks>>
    /\ UNCHANGED <<serverVoice>>

-----------------------------------------------------------------------------
\* pttPlayMsg: the request marks the message, its answer the row, when the row is still there.
PlayMessage(id) ==
    /\ id \in messages /\ marks' = marks \cup {id}
    /\ UNCHANGED <<serverVoice, socketVoice, listVoice, histPage, histPages, voiceLoads>>
ReadAll ==
    /\ CanTell /\ AllRead /\ UNCHANGED messages
    /\ \/ voiceRead' = voiceStored /\ Told(<<"read_all">>)
       \/ UNCHANGED <<voiceRead, voiceWire>>
    /\ UNCHANGED <<voiceStored, voiceCount, storing, incoming, pageVoice>>
DeleteMessage(id) ==
    /\ id \in messages /\ voiceStored' = voiceStored \ {id}
    /\ messages' = messages \ {id} /\ messagesRead' = messagesRead \ {id}
    /\ UNCHANGED <<voiceRead, voiceCount, storing, socketVoice, unreadIds, pageVoice>>
DeleteAll ==
    /\ voiceStored' = {} /\ messages' = {} /\ messagesRead' = {} /\ unreadIds' = {}
    /\ histPage' = 1 /\ histPages' = 1
    /\ UNCHANGED <<voiceRead, voiceCount, storing, socketVoice, voiceLoads, marks>>

\* _renderHistory: the rows drawn as unread.
UnreadRows == {id \in messages : id \in unreadIds}

VoiceMessagesNext ==
    \/ \E event \in {"transmitting", "chunk", "done"} : Transmits(event)
    \/ MessageStored \/ AllMarkedElsewhere \/ OpenVoiceModal
    \/ \E l \in voiceLoads : PageServed(l) \/ PageArrives(l) \/ PageFails(l)
    \/ \E id \in Voices : PlayMessage(id) \/ DeleteMessage(id)
    \/ \E id \in marks : MarkServed(id)
    \/ \E p \in 1..histPages : GotoPage(p)
    \/ OnJson \/ ReadAll \/ DeleteAll

-----------------------------------------------------------------------------
\* A row of the list is drawn as unread exactly while the badge counts it, whatever was
\* read in another tab, heard live, loaded late or deleted.
BadgeAgreesWithRows == UnreadRows = messages \ messagesRead
=============================================================================
