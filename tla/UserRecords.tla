----------------------------- MODULE UserRecords -----------------------------
(***************************************************************************)
(* What the browser keeps on the server for its user: the conversations    *)
(* (ChatHistorySidebar.jsx, useAgent.js, chat_routes.js and db.js) and the *)
(* settings (SettingsModal.jsx, useStore.js, preferences_routes.js).       *)
(*                                                                         *)
(* Every call is answered when the network pleases, and its answer is      *)
(* applied to the store as it is then: the user may have chosen another    *)
(* conversation, signed out, or saved again.                               *)
(***************************************************************************)
EXTENDS Naturals, Sequences, FiniteSets

CONSTANTS
  Readers,          \* sequence: the users of one browser, one after another
  NoReader,
  MaxChats, NoChat, \* conversations
  MaxSaid,          \* messages
  MaxChatCalls,     \* calls in flight
  MaxSaves          \* saves of the settings

ASSUME ReadersAssumption ==
  /\ Readers \in Seq({Readers[i] : i \in 1..Len(Readers)})
  /\ NoReader \notin {Readers[i] : i \in 1..Len(Readers)}
  /\ NoChat \notin 1..MaxChats
  /\ {MaxChats, MaxSaid, MaxChatCalls, MaxSaves} \subseteq Nat

VARIABLES
  reader,     \* the user signed in
  chats,      \* server: conversation -> its owner and rows
  talk,       \* browser: active conversation, list of conversations, messages shown
  chatCalls,  \* calls in flight, asked or with an answer
  awaiting,   \* conversations whose prompt the agent has not answered
  counts,     \* messages said and sign-outs, so far
  disturbed,  \* history: an answer came late, a call failed, or a message was
              \* said outside a conversation of the user or while one loaded
  settings,   \* browser: group of settings -> version
  prefs,      \* server: preference type -> group and version
  puts,       \* posts and reads of preferences in flight
  upset       \* history: a post failed, or calls overtook each other

chatVars == <<reader, chats, talk, chatCalls, awaiting, counts, disturbed>>
prefVars == <<settings, prefs, puts, upset>>

Chats == 1..MaxChats
ChatsOf(u) == {c \in Chats : chats[c].owner = u}

ChatInit ==
  /\ reader = NoReader
  /\ chats = [c \in Chats |-> [owner |-> NoReader, rows |-> {}]]
  /\ talk = [active |-> NoChat, list |-> {}, shown |-> {}]
  /\ chatCalls = {} /\ awaiting = {}
  /\ counts = [said |-> 0, outs |-> 0]
  /\ disturbed = FALSE

\* The handler that creates a conversation keeps the list it was rendered with.
Asks(kind, chat, item) ==
  [kind |-> kind, by |-> reader, chat |-> chat, item |-> item,
   list |-> IF kind = "create" THEN talk.list ELSE {}, at |-> "asked", answer |-> {}]

Room == Cardinality(chatCalls) < MaxChatCalls

\* setUser; the sidebar then asks for the conversations.
setUser ==
  /\ reader = NoReader
  /\ counts.outs < Len(Readers)
  /\ Room
  /\ reader' = Readers[counts.outs + 1]
  /\ chatCalls' = chatCalls \cup {[Asks("list", NoChat, 0) EXCEPT !.by = reader']}
  /\ UNCHANGED <<chats, talk, awaiting, counts, disturbed>>

\* logout clears the messages; the list and the active conversation stay.  The
\* page closes the socket, whose answers are lost.
logout ==
  /\ reader /= NoReader
  /\ reader' = NoReader
  /\ talk' = [talk EXCEPT !.shown = {}]
  /\ awaiting' = {}
  /\ counts' = [counts EXCEPT !.outs = @ + 1]
  /\ disturbed' = (disturbed \/ chatCalls /= {} \/ awaiting /= {} \/ talk.active /= NoChat)
  /\ UNCHANGED <<chats, chatCalls>>

handleNewSession ==
  /\ Room
  /\ reader /= NoReader
  /\ \E c \in Chats : chats[c].owner = NoReader
  /\ ~\E k \in chatCalls : k.kind = "create"
  /\ chatCalls' = chatCalls \cup {Asks("create", NoChat, 0)}
  /\ UNCHANGED <<reader, chats, talk, awaiting, counts, disturbed>>

\* The choice counts at once, its messages are replaced on arrival.
loadSession(c) ==
  /\ Room
  /\ reader /= NoReader
  /\ c \in talk.list
  /\ talk' = [talk EXCEPT !.active = c]
  /\ chatCalls' = chatCalls \cup {Asks("load", c, 0)}
  /\ disturbed' = (disturbed \/ chatCalls /= {})
  /\ UNCHANGED <<reader, chats, awaiting, counts>>

\* A message is shown, and saved under what is active then.
AddMessage ==
  LET n == counts.said + 1 IN
    /\ n <= MaxSaid
    /\ Room
    /\ counts' = [counts EXCEPT !.said = n]
    /\ talk' = [talk EXCEPT !.shown = @ \cup {n}]
    /\ chatCalls' = IF talk.active = NoChat THEN chatCalls
                    ELSE chatCalls \cup {Asks("say", talk.active, n)}

\* The text goes to the agent over the socket.
savePrompt ==
  /\ reader /= NoReader
  /\ AddMessage
  /\ awaiting' = awaiting \cup {talk.active}
  /\ disturbed' = (disturbed \/ chatCalls /= {} \/ talk.active \notin ChatsOf(reader))
  /\ UNCHANGED <<reader, chats>>

saveResult(c) ==
  /\ reader /= NoReader
  /\ c \in awaiting
  /\ AddMessage
  /\ awaiting' = awaiting \ {c}
  /\ disturbed' = (disturbed \/ c /= talk.active \/ \E k \in chatCalls : k.kind /= "say")
  /\ UNCHANGED <<reader, chats>>

-----------------------------------------------------------------------------
(* The server: chat_routes.js. *)

\* Mutant: the owner is not compared
getChatSession_Anyone(c, u) == chats[c].owner /= NoReader

getChatSession(c, u) == chats[c].owner = u /\ u /= NoReader

HasAnswer(k, answer) ==
  chatCalls' = (chatCalls \ {k}) \cup {[k EXCEPT !.at = "answered", !.answer = answer]}

\* Of an answer that fails, and of one to a message, nothing is applied.
Done(k, ok) == chatCalls' = chatCalls \ {k} /\ disturbed' = (disturbed \/ ~ok)

ReadsChats(k) ==
  /\ \/ k.kind = "list" /\ HasAnswer(k, ChatsOf(k.by))
     \/ k.kind = "load" /\ getChatSession(k.chat, k.by) /\ HasAnswer(k, {r.n : r \in chats[k.chat].rows})
  /\ UNCHANGED <<chats, disturbed>>

createChatSession(k) ==
  /\ k.kind = "create"
  /\ \E c \in Chats :
       /\ ChatsOf(NoReader) = c..MaxChats
       /\ chats' = [chats EXCEPT ![c].owner = k.by]
       /\ HasAnswer(k, {c})
  /\ UNCHANGED disturbed

addChatMessage(k) ==
  /\ k.kind = "say" /\ getChatSession(k.chat, k.by)
  /\ chats' = [chats EXCEPT ![k.chat].rows = @ \cup {[n |-> k.item, by |-> k.by]}]
  /\ Done(k, TRUE)

ChatRefused(k) ==
  /\ k.kind \in {"load", "say"} /\ ~getChatSession(k.chat, k.by)
  /\ Done(k, FALSE)
  /\ UNCHANGED chats

ChatCallFails(k) ==
  /\ Done(k, FALSE)
  /\ UNCHANGED chats

ChatServerStep(k) ==
  /\ k.at = "asked"
  /\ ReadsChats(k) \/ createChatSession(k) \/ addChatMessage(k) \/ ChatRefused(k) \/ ChatCallFails(k)
  /\ UNCHANGED <<reader, talk, awaiting, counts>>

-----------------------------------------------------------------------------
(* The answer is applied, whoever is signed in and whatever is active. *)

\* Mutant: a new conversation begins with the messages of the last one
Applied_KeepsMessages(k) ==
  CASE k.kind = "list" -> [talk EXCEPT !.list = k.answer]
    [] k.kind = "create" -> [talk EXCEPT !.list = k.list \cup k.answer,
                                         !.active = CHOOSE c \in k.answer : TRUE]
    [] k.kind = "load" -> [talk EXCEPT !.shown = k.answer]

Applied(k) ==
  CASE k.kind = "list" -> [talk EXCEPT !.list = k.answer]
    [] k.kind = "create" -> [list |-> k.list \cup k.answer,
                             active |-> CHOOSE c \in k.answer : TRUE, shown |-> {}]
    [] k.kind = "load" -> [talk EXCEPT !.shown = k.answer]

ChatAnswerArrives(k) ==
  /\ k.at = "answered"
  /\ chatCalls' = chatCalls \ {k}
  /\ talk' = Applied(k)
  /\ disturbed' = (disturbed \/ k.by /= reader
                     \/ (k.kind = "create" /\ (awaiting /= {} \/ \E j \in chatCalls \ {k} : j.kind = "load"))
                     \/ (k.kind = "load" /\ k.chat /= talk.active))
  /\ UNCHANGED <<reader, chats, awaiting, counts>>

ChatNext ==
  \/ setUser \/ logout \/ handleNewSession \/ savePrompt
  \/ \E c \in Chats : loadSession(c)
  \/ \E c \in Chats \cup {NoChat} : saveResult(c)
  \/ \E k \in chatCalls : ChatServerStep(k) \/ ChatAnswerArrives(k)

-----------------------------------------------------------------------------
(* Settings. *)

Groups == {"appearance", "agent", "workflow"}
NoPref == [group |-> "none", version |-> 0]

\* The groups as setSettings posts them, in this order.
\* Mutant: the agent's group last
Posted_AgentLast == <<"appearance", "workflow", "agent">>

Posted == <<"agent", "appearance", "workflow">>

\* Two groups share a preference of the server.
TypeOf(g) == IF g = "appearance" THEN "ui_theme" ELSE "workflow"

PrefInit ==
  /\ settings = [g \in Groups |-> 0]
  /\ prefs = [t \in {"ui_theme", "workflow"} |-> NoPref]
  /\ puts = <<>>
  /\ upset = FALSE

\* handleSave of the modal: every group is set, and posted in the background.
setSettings(changed) ==
  /\ \A g \in changed : settings[g] < MaxSaves
  /\ settings' = [g \in Groups |-> settings[g] + (IF g \in changed THEN 1 ELSE 0)]
  /\ puts' = puts \o [i \in 1..3 |-> [group |-> Posted[i], version |-> settings'[Posted[i]]]]
  /\ upset' = (upset \/ puts /= <<>>)
  /\ UNCHANGED prefs

Without(i) == SubSeq(puts, 1, i - 1) \o SubSeq(puts, i + 1, Len(puts))

\* upsertUserPreference: the last to arrive stays.
upsertUserPreference(i) ==
  /\ puts[i].group \in Groups
  /\ puts' = Without(i)
  /\ prefs' = [prefs EXCEPT ![TypeOf(puts[i].group)] = puts[i]]
  /\ upset' = (upset \/ i > 1)
  /\ UNCHANGED settings

PutFails(i) ==
  /\ puts' = Without(i)
  /\ upset' = TRUE
  /\ UNCHANGED <<settings, prefs>>

\* fetchSettings, at sign-in: each preference is merged over its groups; the
\* fields of another group change nothing a group reads.
fetchSettings(i) ==
  /\ puts[i].group = "read"
  /\ puts' = Without(i)
  /\ settings' = [g \in Groups |-> IF prefs[TypeOf(g)].group = g THEN prefs[TypeOf(g)].version
                                   ELSE settings[g]]
  /\ upset' = (upset \/ Len(puts) > 1)
  /\ UNCHANGED prefs

BeginFetch ==
  /\ Len(puts) < 2
  /\ \A i \in 1..Len(puts) : puts[i].group /= "read"
  /\ puts' = Append(puts, [group |-> "read", version |-> 0])
  /\ UNCHANGED <<settings, prefs, upset>>

PrefNext ==
  \/ BeginFetch
  \/ Len(puts) < 2 /\ \E changed \in SUBSET Groups : setSettings(changed)
  \/ \E i \in 1..Len(puts) : upsertUserPreference(i) \/ PutFails(i) \/ fetchSettings(i)

-----------------------------------------------------------------------------
Signers == {Readers[i] : i \in 1..Len(Readers)}

ChatTypeOK ==
  /\ reader \in Signers \cup {NoReader}
  /\ \A c \in Chats : /\ chats[c].owner \in Signers \cup {NoReader}
                      /\ chats[c].rows \subseteq [n : 1..MaxSaid, by : Signers]
  /\ talk \in [active : Chats \cup {NoChat}, list : SUBSET Chats, shown : SUBSET (1..MaxSaid)]
  /\ \A k \in chatCalls : k.at \in {"asked", "answered"} /\ k.by \in Signers
  /\ awaiting \subseteq Chats \cup {NoChat}
  /\ counts \in [said : 0..MaxSaid, outs : 0..Len(Readers)] /\ disturbed \in BOOLEAN

PrefTypeOK ==
  /\ settings \in [Groups -> 0..MaxSaves]
  /\ prefs.ui_theme.group \in {"none", "appearance"}
  /\ prefs.workflow.group \in {"none", "agent", "workflow"}
  /\ upset \in BOOLEAN

\* A conversation holds messages of its owner only, though the browser of the
\* next user still has the conversation of the last one active.
OwnRowsOnly == \A c \in Chats : \A r \in chats[c].rows : r.by = chats[c].owner

\* When no call is in flight, the screen shows the conversation that is active
\* as it is stored, unless the ways of losing track named above happened.
TranscriptIsCurrent ==
  (chatCalls = {} /\ ~disturbed /\ reader /= NoReader /\ talk.active /= NoChat)
    => talk.shown = {r.n : r \in chats[talk.active].rows}

\* When no post is in flight, the server has the appearance and the workflow
\* settings on the screen, unless one failed or overtook another; the agent's,
\* which share a preference with the workflow's, it does not keep.
SettingsAreKept ==
  (puts = <<>> /\ ~upset /\ \E g \in Groups : settings[g] > 0)
    => /\ prefs.ui_theme = [group |-> "appearance", version |-> settings.appearance]
       /\ prefs.workflow = [group |-> "workflow", version |-> settings.workflow]
=============================================================================
