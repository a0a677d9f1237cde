-------------------------------- MODULE Compose --------------------------------
(***************************************************************************)
(* A draft and who edits it: MessageComposition on the client, whom a      *)
(* reply goes to (deriveQuotedReply), and the way of attachments and texts *)
(* to the draft in the database.  What becomes of it in the outbox is      *)
(* Outbox's.                                                               *)
(*                                                                         *)
(* Attaching and detaching is scheduled in memory, at once; saving and     *)
(* sending is written to the database first.  Tasks are planned one by one *)
(* in the order in which they get to the queue.  The client and the back   *)
(* end end together, and what was only in memory is lost.                  *)
(***************************************************************************)
EXTENDS Naturals, Sequences, FiniteSets, SequencesExt, FiniteSetsExt

CONSTANTS
    Composers,     \* MessageCompositions
    People,        \* addresses
    Me,            \* that of the identity
    Alias,         \* the one it may want replies at
    None,
    Edited,        \* bound: the messages replied to whose replies are edited on
    MaxDeeds,      \* bound: what the user does in composers
    MaxCrashes

VARIABLES
    source,      \* the message that is replied to
    created,     \* has its reply been made?
    draft,       \* the draft in the database
    editor,      \* what each composer holds, None: not open
    writing,     \* tasks on their way to the database
    planning,    \* _tasksToPlan
    attaching,   \* the attachment that is being encoded, None: no such task
    sent,        \* what was sent
    deeds, crashes,
    (* history *)
    crowded,     \* has the draft had two composers, or one opened on work under way?
    meant        \* what its composer held when it was told to send it

composeVars == <<source, created, draft, editor, writing, planning, attaching, sent, deeds, crashes,
                 crowded, meant>>

\* An attachment; what a composer holds; what is asked for.
Part == [relId : Nat, blob : 1..MaxDeeds]
Edit == [do : {"attach", "detach", "save", "send", "delete"}, part : {None} \cup Part, text : 0..MaxDeeds]
Content == [parts : Seq(Part), text : 0..MaxDeeds]

ComposeTypeOK ==
    /\ (draft = None \/ (draft.content \in Content /\ {draft.to, draft.cc, draft.bcc} \subseteq SUBSET People))
    /\ \A c \in Composers : editor[c] = None \/ editor[c] \in Content
    /\ writing \in Seq(Edit) /\ planning \in Seq(Edit)
    /\ (attaching = None \/ attaching \in Part)
    /\ (sent = None \/ sent \in Content) /\ (meant = None \/ meant \in Content)
    /\ deeds \in 0..MaxDeeds /\ crashes \in 0..MaxCrashes /\ crowded \in BOOLEAN /\ created \in BOOLEAN

-----------------------------------------------------------------------------
(* Whom a reply goes to. *)

\* Mutant of Others: the one who replies is kept.
OthersAll(list, own) == list

\* filterOutIdentity.
Others(list, own) == list \ {own}

\* replyToSenderRecipients: as before if one replies to oneself.
ReplyToSender(s, author, own) ==
    IF author = own THEN [to |-> s.to, cc |-> s.cc] ELSE [to |-> {author}, cc |-> {}]

\* replyAllRecipients: the author is addressed unless copied anyway, and oneself
\* only if there is nobody else.
ReplyToAll(s, author, own) ==
    LET to == IF author \in s.to \cup s.cc THEN s.to ELSE {author} \cup s.to IN
    IF to = {own} /\ s.cc = {} THEN [to |-> to, cc |-> {}]
    ELSE [to |-> Others(to, own), cc |-> Others(s.cc, own)]

\* deriveQuotedReply; what it puts in bcc is the recipients in cc.
Reply(s) ==
    LET r == IF s.mode = "all" THEN ReplyToAll(s, s.author, s.own) ELSE ReplyToSender(s, s.author, s.own)
    IN  [content |-> [parts |-> << >>, text |-> 0], to |-> r.to, cc |-> r.cc, bcc |-> r.cc]

ComposeInit ==
    /\ source \in [to : SUBSET People, cc : SUBSET People, author : People, own : {Me, Alias},
                   mode : {"sender", "all"}]
    /\ draft = None /\ created = FALSE
    /\ editor = [c \in Composers |-> None]
    /\ writing = << >> /\ planning = << >> /\ attaching = None /\ sent = None
    /\ deeds = 0 /\ crashes = 0 /\ crowded = FALSE /\ meant = None

\* draft_create is planned; its promise names the draft.
Creates ==
    /\ ~created /\ created' = TRUE
    /\ draft' = Reply(source)
    /\ UNCHANGED <<source, editor, writing, planning, attaching, sent, deeds, crashes, crowded, meant>>

-----------------------------------------------------------------------------
(* The client. *)

\* beginMessageComposition, resumeMessageComposition: what the draft holds by now.
Opens(c) ==
    /\ draft # None /\ source \in Edited /\ editor[c] = None /\ meant = None
    /\ editor' = [editor EXCEPT ![c] = draft.content]
    /\ crowded' = (crowded \/ writing # << >> \/ planning # << >> \/ \E d \in Composers : editor[d] # None)
    /\ UNCHANGED <<source, created, draft, writing, planning, attaching, sent, deeds, crashes, meant>>

IdsOf(seq) == {seq[i].relId : i \in DOMAIN seq}

\* bruteForceAttachmentId: their number, or the next, or one further on at random.
FreeIds(seq) ==
    LET likely == {Len(seq), Len(seq) + 1} \ IdsOf(seq) IN
    IF likely # {} THEN {Min(likely)} ELSE {n \in Len(seq)..(2 * Len(seq) + 1) : n \notin IdsOf(seq)}

\* _composeAttach, _composeDetach: to the queue at once; while an attachment is
\* encoded the queue waits.
Schedule(edit) == planning' = Append(planning, edit)

Does == deeds < MaxDeeds /\ deeds' = deeds + 1

\* addAttachment.
Attaches(c) ==
    /\ editor[c] # None
    /\ Does
    /\ \E id \in FreeIds(editor[c].parts) :
          LET part == [relId |-> id, blob |-> deeds'] IN
          /\ editor' = [editor EXCEPT ![c].parts = Append(@, part)]
          /\ Schedule([do |-> "attach", part |-> part, text |-> 0])
    /\ UNCHANGED <<source, created, draft, writing, attaching, sent, crashes, crowded, meant>>

\* removeAttachment.
Detaches(c) ==
    /\ editor[c] # None
    /\ Does
    /\ \E i \in DOMAIN editor[c].parts :
          /\ editor' = [editor EXCEPT ![c].parts = RemoveAt(@, i)]
          /\ Schedule([do |-> "detach", part |-> editor[c].parts[i], text |-> 0])
    /\ UNCHANGED <<source, created, draft, writing, attaching, sent, crashes, crowded, meant>>

\* saveDraft, finishCompositionSendMessage: what is sent is saved first.
Finishes(c, send) ==
    /\ editor[c] # None
    /\ Does
    /\ LET save == [do |-> "save", part |-> None, text |-> deeds']
           now  == [editor[c] EXCEPT !.text = deeds']
       IN  /\ writing' = writing \o <<save>> \o IF send THEN <<[save EXCEPT !.do = "send"]>> ELSE << >>
           /\ editor' = [editor EXCEPT ![c] = IF send THEN None ELSE now]
           /\ meant' = IF send THEN now ELSE meant
    /\ UNCHANGED <<source, created, draft, planning, attaching, sent, crashes, crowded>>

\* abortCompositionDeleteDraft.
Aborts(c) ==
    /\ editor[c] # None
    /\ Does
    /\ writing' = Append(writing, [do |-> "delete", part |-> None, text |-> 0])
    /\ editor' = [editor EXCEPT ![c] = None]
    /\ UNCHANGED <<source, created, draft, planning, attaching, sent, crashes, crowded, meant>>

-----------------------------------------------------------------------------
(* The back end. *)

\* A task is in the database, and goes to the queue.
Written ==
    /\ writing # << >>
    /\ planning' = Append(planning, Head(writing)) /\ writing' = Tail(writing)
    /\ UNCHANGED <<source, created, draft, editor, attaching, sent, deeds, crashes, crowded, meant>>

\* draft_attach: the encoding begins; it ends when all of the blob is written.
Encodes ==
    /\ planning # << >> /\ Head(planning).do = "attach" /\ attaching = None /\ draft # None
    /\ attaching' = Head(planning).part
    /\ UNCHANGED <<source, created, draft, editor, writing, planning, sent, deeds, crashes, crowded, meant>>

\* The first that has the id.
Without(seq, id) ==
    IF id \notin IdsOf(seq) THEN seq ELSE RemoveAt(seq, Min({i \in DOMAIN seq : seq[i].relId = id}))

\* The plan of the first task ends; of a draft that is gone all is moot.
Plans ==
    /\ planning # << >>
    /\ LET e == Head(planning) IN
       /\ e.do = "attach" /\ draft # None => attaching # None
       /\ IF draft = None THEN UNCHANGED <<draft, sent>>
          ELSE CASE e.do = "attach" ->
                      draft' = [draft EXCEPT !.content.parts = Append(@, attaching)] /\ UNCHANGED sent
                 [] e.do = "detach" ->
                      draft' = [draft EXCEPT !.content.parts = Without(@, e.part.relId)] /\ UNCHANGED sent
                 [] e.do = "save" ->
                      draft' = [draft EXCEPT !.content.text = e.text] /\ UNCHANGED sent
                 [] e.do = "send"   -> sent' = draft.content /\ draft' = None
                 [] OTHER           -> draft' = None /\ UNCHANGED sent
    /\ attaching' = None
    /\ planning' = Tail(planning)
    /\ UNCHANGED <<source, created, editor, writing, deeds, crashes, crowded, meant>>

\* What was written stays in the queue, in its order; at[k] is the place where the
\* k-th of it was.  What was only scheduled is gone.
Survive ==
    \E n \in 0..Len(planning) : \E at \in [1..n -> DOMAIN planning] :
        /\ {at[k] : k \in 1..n} = {i \in DOMAIN planning : planning[i].do \notin {"attach", "detach"}}
        /\ \A j, k \in 1..n : j < k => at[j] < at[k]
        /\ planning' = [k \in 1..n |-> planning[at[k]]]

Crashes ==
    /\ crashes < MaxCrashes /\ crashes' = crashes + 1
    /\ editor' = [c \in Composers |-> None]
    /\ attaching' = None
    /\ writing' = << >>
    /\ Survive
    /\ UNCHANGED <<source, created, draft, sent, deeds, crowded, meant>>

ComposeNext ==
    \/ \E c \in Composers : \/ Opens(c) \/ Attaches(c) \/ Detaches(c) \/ Aborts(c)
                            \/ \E send \in BOOLEAN : Finishes(c, send)
    \/ Creates \/ Written \/ Encodes \/ Plans \/ Crashes

-----------------------------------------------------------------------------
(* Properties. *)

\* The only composer of a draft and the draft agree when nothing is on its way:
\* the attachments and their order, and the text that was saved last.
ComposerAgrees ==
    planning = << >> /\ writing = << >> /\ ~crowded /\ draft # None =>
        \A c \in Composers : editor[c] # None => editor[c] = draft.content

\* What is sent is what its composer held when it was told to send: nothing that
\* was attached, removed or written before is missed, and nothing lost; unless
\* there was another composer or a crash.
SentAsMeant == sent # None /\ ~crowded /\ crashes = 0 => sent = meant

\* No two attachments of a draft have the same id, by which they are removed,
\* unless it has had two composers.
IdsAreDistinct ==
    ~crowded /\ draft # None => Cardinality(IdsOf(draft.content.parts)) = Len(draft.content.parts)

\* A reply to all goes to all who wrote or got the message but oneself (and to oneself if
\* there was nobody else), and addresses nobody both ways whom the message did not: the
\* author is added only if neither list has him.  One that is to go to the author goes to
\* nobody else, in the open or blind, unless oneself is the author.  An identity that wants
\* replies elsewhere is not oneself.
RepliesReach ==
    draft # None =>
        LET all == source.to \cup source.cc \cup {source.author} IN
        IF source.mode = "all"
        THEN /\ draft.to \cup draft.cc = IF all = {source.own} /\ source.cc = {} THEN all ELSE all \ {source.own}
             /\ draft.to \cap draft.cc \subseteq source.to \cap source.cc
        ELSE source.author # source.own => draft.to = {source.author} /\ draft.cc = {} /\ draft.bcc = {}

ComposeInStep == ComposeTypeOK /\ ComposerAgrees /\ SentAsMeant /\ IdsAreDistinct /\ RepliesReach
=============================================================================
