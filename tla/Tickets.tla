------------------------------ MODULE Tickets ------------------------------
(***************************************************************************)
(* Support tickets on the settings page: the table, the window of a        *)
(* ticket whose answer and choices load while another may be opened, the   *)
(* edits in place of its title, description and comments, the files picked *)
(* for each, and answers that find another ticket in the window.  Texts    *)
(* are left out; a ticket has one comment of this user, named by it.       *)
(***************************************************************************)
EXTENDS Integers, FiniteSets

CONSTANTS Ticket, NoTicket, MaxOpenings, MaxTicketCalls   \* bounds: windows loading, requests under way

ASSUME TicketsAssumption ==
    NoTicket \notin Ticket /\ MaxOpenings \in Nat /\ MaxTicketCalls \in Nat

VARIABLES
    tkStored,       \* the server's tickets
    tkRows,         \* _rtpTicketRows
    tkCreate,       \* the window of a new ticket: shown, sending
    tkEditing,      \* _rtpEditingTicketId
    tkOpenings,     \* rtpOpenTicketModal under way: for which ticket, up to where
    tkOpen,         \* the window is shown
    tkCurrent, tkField, tkComment,  \* _rtpCurrentTicket, _rtpEditingTicketField, _rtpEditingCommentId
    tkDrawn,        \* the details on the page: ticket, and which edit is drawn in place
    tkFiles,        \* the files picked for a reply, the description and a comment, each
                    \* by the ticket, and comment, it was picked for
    tkCalls         \* requests of the window under way

ticketsVars == <<tkStored, tkRows, tkCreate, tkEditing, tkOpenings, tkOpen, tkCurrent, tkField, tkComment,
                 tkDrawn, tkFiles, tkCalls>>
tkList == <<tkStored, tkRows, tkCreate>>
tkEdit == <<tkCurrent, tkField, tkComment, tkDrawn>>

Tickets0 == Ticket \cup {NoTicket}
PickedFile == [ticket : Tickets0, comment : Tickets0]
NoFiles == [reply |-> {}, description |-> {}, comment |-> {}]

TicketsTypeOK ==
    /\ tkRows \subseteq Ticket /\ tkStored \subseteq Ticket /\ tkCreate \in [shown : BOOLEAN, sending : BOOLEAN]
    /\ tkEditing \in Tickets0 /\ tkOpen \in BOOLEAN /\ tkCurrent \in Tickets0 /\ tkComment \in Tickets0
    /\ tkField \in {"none", "title", "description"}
    /\ tkDrawn \in [ticket : Tickets0, field : {"none", "title", "description"}, comment : BOOLEAN]
    /\ tkOpenings \subseteq [of : Ticket, stage : {"asked", "filling"}] /\ Cardinality(tkOpenings) <= MaxOpenings
    /\ tkFiles \in [{"reply", "description", "comment"} -> SUBSET PickedFile] /\ Cardinality(tkCalls) <= MaxTicketCalls

TicketsInit ==
    /\ tkStored \in SUBSET Ticket /\ tkRows = tkStored /\ tkCreate = [shown |-> FALSE, sending |-> FALSE]
    /\ tkEditing = NoTicket /\ tkOpenings = {} /\ tkOpen = FALSE /\ tkCurrent = NoTicket /\ tkField = "none"
    /\ tkComment = NoTicket /\ tkDrawn = [ticket |-> NoTicket, field |-> "none", comment |-> FALSE]
    /\ tkFiles = NoFiles /\ tkCalls = {}

-----------------------------------------------------------------------------
(* The table, and the window of a new ticket. *)
\* rtpLoadTickets; a failing one empties the table.
LoadTickets ==
    /\ tkRows' \in {tkStored, {}}
    /\ UNCHANGED <<tkStored, tkCreate, tkEditing, tkOpenings, tkOpen, tkEdit, tkFiles, tkCalls>>
ShowCreate(shown) ==
    /\ ~tkOpen /\ tkCreate' = [tkCreate EXCEPT !.shown = shown]
    /\ UNCHANGED <<tkStored, tkRows, tkEditing, tkOpenings, tkOpen, tkEdit, tkFiles, tkCalls>>
CreateTicket ==
    /\ tkCreate.shown /\ ~tkCreate.sending /\ tkCreate' = [tkCreate EXCEPT !.sending = TRUE]
    /\ UNCHANGED <<tkStored, tkRows, tkEditing, tkOpenings, tkOpen, tkEdit, tkFiles, tkCalls>>
\* The answer closes whatever is in the window then.
TicketCreated ==
    /\ tkCreate.sending
    /\ \/ \E t \in Ticket \ tkStored : /\ tkStored' = tkStored \cup {t} /\ tkRows' \in {tkStored', {}}
                                       /\ tkCreate' = [shown |-> FALSE, sending |-> FALSE]
       \/ tkCreate' = [tkCreate EXCEPT !.sending = FALSE] /\ UNCHANGED <<tkStored, tkRows>>
    /\ UNCHANGED <<tkEditing, tkOpenings, tkOpen, tkEdit, tkFiles, tkCalls>>

-----------------------------------------------------------------------------
(* Opening and closing the window of a ticket. *)
\* rtpRenderTicketDetail draws what is edited in place.
DetailDrawn(t, field, comment) ==
    /\ tkCurrent' = t
    /\ tkDrawn' = [ticket |-> t, field |-> field, comment |-> comment # NoTicket /\ comment = t]
DetailRedrawn(field, comment) == IF tkCurrent = NoTicket THEN UNCHANGED <<tkCurrent, tkDrawn>> ELSE DetailDrawn(tkCurrent, field, comment)

OpenTicketModal(t) ==
    /\ ~tkOpen /\ ~tkCreate.shown /\ t \in tkRows /\ tkEditing' = t
    /\ tkOpenings' = tkOpenings \cup {[of |-> t, stage |-> "asked"]} /\ Cardinality(tkOpenings') <= MaxOpenings
    /\ UNCHANGED <<tkList, tkOpen, tkEdit, tkFiles, tkCalls>>
\* The heading is written to before anything is drawn: while a title's edit is left drawn
\* there is no heading, the handler fails there and the window never shows.
TicketArrives(o) ==
    /\ o.stage = "asked" /\ tkCurrent' = o.of /\ tkField' = "none" /\ tkComment' = NoTicket
    /\ tkOpenings' = (tkOpenings \ {o})
                     \cup IF tkDrawn.field = "title" THEN {} ELSE {[of |-> o.of, stage |-> "filling"]}
    /\ UNCHANGED <<tkList, tkEditing, tkOpen, tkDrawn, tkFiles, tkCalls>>
TicketFails(o) ==
    /\ o.stage = "asked" /\ tkOpenings' = tkOpenings \ {o}
    /\ UNCHANGED <<tkList, tkEditing, tkOpen, tkEdit, tkFiles, tkCalls>>
\* When the choices of the related item are there the window is drawn and shown.
FreshReply == [tkFiles EXCEPT !.reply = {}]
WindowFilled(o) ==
    /\ o.stage = "filling" /\ tkOpenings' = tkOpenings \ {o} /\ tkOpen' = TRUE
    /\ DetailDrawn(o.of, tkField, tkComment) /\ tkFiles' = FreshReply
    /\ UNCHANGED <<tkList, tkEditing, tkField, tkComment, tkCalls>>

\* rtpCloseTicketModal, also by Escape while a window loads; files of a reply stay.
WindowClosed(files) ==
    /\ tkOpen' = FALSE /\ tkEditing' = NoTicket /\ tkCurrent' = NoTicket /\ tkComment' = NoTicket /\ tkField' = "none"
    /\ tkFiles' = [NoFiles EXCEPT !.reply = files.reply]
CloseTicketModal ==
    /\ WindowClosed(tkFiles) /\ UNCHANGED <<tkList, tkOpenings, tkDrawn, tkCalls>>

-----------------------------------------------------------------------------
(* Edits in place and files. *)
StartFieldEdit(field) ==
    /\ tkOpen /\ tkDrawn.field # field /\ tkField' = field /\ DetailRedrawn(field, tkComment)
    /\ tkFiles' = IF field = "description" THEN [tkFiles EXCEPT !.description = {}] ELSE tkFiles
    /\ UNCHANGED <<tkList, tkEditing, tkOpenings, tkOpen, tkComment, tkCalls>>
CancelFieldEdit ==
    /\ tkOpen /\ tkDrawn.field # "none" /\ tkField' = "none" /\ DetailRedrawn("none", tkComment)
    /\ tkFiles' = [tkFiles EXCEPT !.description = {}]
    /\ UNCHANGED <<tkList, tkEditing, tkOpenings, tkOpen, tkComment, tkCalls>>
\* rtpStartTicketCommentEdit and rtpCancelTicketCommentEdit.
EditComment(comment) ==
    /\ tkOpen /\ tkDrawn.comment = (comment = NoTicket) /\ comment \in {NoTicket, tkDrawn.ticket}
    /\ tkComment' = comment /\ DetailRedrawn(tkField, comment) /\ tkFiles' = [tkFiles EXCEPT !.comment = {}]
    /\ UNCHANGED <<tkList, tkEditing, tkOpenings, tkOpen, tkField, tkCalls>>
AddFile(bucket) ==
    /\ tkOpen /\ (bucket = "description" => tkDrawn.field = "description") /\ (bucket = "comment" => tkDrawn.comment)
    /\ tkFiles' = [tkFiles EXCEPT ![bucket] = @ \cup {[ticket |-> tkEditing,
                      comment |-> IF bucket = "comment" THEN tkDrawn.ticket ELSE NoTicket]}]
    /\ UNCHANGED <<tkList, tkEditing, tkOpenings, tkOpen, tkEdit, tkCalls>>

-----------------------------------------------------------------------------
(* Requests of the window go to _rtpEditingTicketId, and do nothing without it. *)
AskOfTicket(what) ==
    /\ tkOpen /\ tkEditing # NoTicket
    /\ what \in {"title", "description"} => tkDrawn.field = what
    /\ what = "detach" => tkDrawn.field = "description" \/ tkDrawn.comment
    /\ what = "comment" => tkDrawn.comment
    /\ tkCalls' = tkCalls \cup {[what |-> what, of |-> tkEditing]} /\ Cardinality(tkCalls') <= MaxTicketCalls
    /\ UNCHANGED <<tkList, tkEditing, tkOpenings, tkOpen, tkEdit, tkFiles>>
TicketCallFails(c) ==
    /\ tkCalls' = tkCalls \ {c}
    /\ UNCHANGED <<tkList, tkEditing, tkOpenings, tkOpen, tkEdit, tkFiles>>
\* Every answer draws its own ticket, whichever is in the window, and loads the table again.
TicketAnswered(c, what) == c.what = what /\ tkCalls' = tkCalls \ {c} /\ tkRows' \in {tkStored, {}}
ReplyAnswered(c) ==
    /\ \/ TicketAnswered(c, "reply") /\ tkFiles' = FreshReply
       \/ TicketAnswered(c, "detach") /\ UNCHANGED tkFiles
    /\ DetailDrawn(c.of, tkField, tkComment)
    /\ UNCHANGED <<tkStored, tkCreate, tkEditing, tkOpenings, tkOpen, tkField, tkComment>>
AttributesSaved(c) ==
    /\ TicketAnswered(c, "save") /\ tkDrawn' = [ticket |-> c.of, field |-> tkField, comment |-> tkComment = c.of]
    /\ WindowClosed(tkFiles) /\ UNCHANGED <<tkStored, tkCreate, tkOpenings>>
CommentSaved(c) ==
    /\ TicketAnswered(c, "comment") /\ tkComment' = NoTicket /\ tkFiles' = [tkFiles EXCEPT !.comment = {}]
    /\ DetailDrawn(c.of, tkField, NoTicket)
    /\ UNCHANGED <<tkStored, tkCreate, tkEditing, tkOpenings, tkOpen, tkField>>
\* The heading is missing while a title's edit is drawn: the answer is taken for an error
\* there, and the edit stays on the page.
FieldSaved(c) ==
    /\ c.what \in {"title", "description"} /\ tkCalls' = tkCalls \ {c}
    /\ tkField' = "none" /\ tkFiles' = [tkFiles EXCEPT !.description = {}]
    /\ IF tkDrawn.field = "title" THEN UNCHANGED <<tkRows, tkCurrent, tkDrawn>>
       ELSE DetailDrawn(c.of, "none", tkComment) /\ tkRows' \in {tkStored, {}}
    /\ UNCHANGED <<tkStored, tkCreate, tkEditing, tkOpenings, tkOpen, tkComment>>

TicketsNext ==
    \/ LoadTickets \/ CreateTicket \/ TicketCreated \/ CloseTicketModal \/ CancelFieldEdit
    \/ \E shown \in BOOLEAN : ShowCreate(shown)
    \/ \E t \in Ticket : OpenTicketModal(t)
    \/ \E o \in tkOpenings : TicketArrives(o) \/ TicketFails(o) \/ WindowFilled(o)
    \/ \E field \in {"title", "description"} : StartFieldEdit(field)
    \/ \E comment \in Tickets0 : EditComment(comment)
    \/ \E bucket \in {"reply", "description", "comment"} : AddFile(bucket)
    \/ \E what \in {"save", "reply", "title", "description", "comment", "detach"} : AskOfTicket(what)
    \/ \E c \in tkCalls : \/ TicketCallFails(c) \/ ReplyAnswered(c) \/ AttributesSaved(c)
                          \/ CommentSaved(c) \/ FieldSaved(c)

-----------------------------------------------------------------------------
\* What was picked in a ticket's window is sent with that ticket only: the files waiting in an
\* open window were picked for the ticket its requests go to, and those of a comment for the
\* comment being edited, whatever was closed, reopened or answered late in between.
TicketsSound ==
    tkOpen => /\ \A bucket \in DOMAIN tkFiles : \A f \in tkFiles[bucket] : f.ticket = tkEditing
              /\ \A f \in tkFiles.comment : tkComment # NoTicket => f.comment = tkComment
=============================================================================
