-------------------------------- MODULE Chats --------------------------------
(***************************************************************************)
(* The conversation of one order between its customer and its provider:    *)
(* messages sent over a socket or over HTTP, the room the sockets join,    *)
(* and what each client has been shown.  A message is stored and then      *)
(* broadcast to the sockets that are in the room by then.                  *)
(*                                                                         *)
(* A socket is told of what it joins only while it stays connected, so a   *)
(* client that joins reads the history afterwards: the clients are outside *)
(* the repository, and a client is what the server has sent it.  One       *)
(* process: sockets of another one are in no room of this one.             *)
(***************************************************************************)
EXTENDS Naturals

CONSTANTS
  Message,   \* rows of messages that can be created
  Party,     \* the two accounts of the conversation
  Stranger   \* accounts of other orders

ASSUME ChatsAssumption == Party \cap Stranger = {}

VARIABLES message, client

chatVars == <<message, client>>

Person == Party \cup Stranger

\* stage: stored and not yet broadcast, broadcast, or stored by a request that broadcasts
\* nothing (over HTTP, or because what follows the insert failed).
MessageRow == [from : Party, stage : {"stored", "broadcast", "silent"}, read : BOOLEAN]
NoMessage == [stage |-> "none"]

\* socket: off, its token being verified, or known to the gateway; joined: in the room;
\* whole: the client read the history since it joined; shown: messages it has seen.
Client == [socket : {"off", "handshake", "on"}, joined : BOOLEAN, whole : BOOLEAN,
           shown : SUBSET Message]
Offline == [socket |-> "off", joined |-> FALSE, whole |-> FALSE, shown |-> {}]

Stored == {m \in Message : message[m] # NoMessage}
Room == {p \in Person : client[p].joined}

\* assertAccess: the account is the customer or the provider of the conversation.
HasAccess(p) == p \in Party

-----------------------------------------------------------------------------
(* Sockets *)

Connect(p) ==
  /\ client[p].socket = "off"
  /\ client' = [client EXCEPT ![p].socket = "handshake"]
  /\ UNCHANGED message

\* handleConnection, once the token is verified; until then requireUser refuses.
HandleConnection(p) ==
  /\ client[p].socket = "handshake"
  /\ client' = [client EXCEPT ![p].socket = "on"]
  /\ UNCHANGED message

\* The client goes, or its token is refused.
HandleDisconnect(p) ==
  /\ client[p].socket # "off"
  /\ client' = [client EXCEPT ![p] = Offline]
  /\ UNCHANGED message

JoinChat(p) ==
  /\ client[p].socket = "on" /\ HasAccess(p)
  /\ client' = [client EXCEPT ![p].joined = TRUE]
  /\ UNCHANGED message

LeaveChat(p) ==
  /\ client[p].socket # "off"
  /\ client' = [client EXCEPT ![p].joined = FALSE, ![p].whole = FALSE]
  /\ UNCHANGED message

-----------------------------------------------------------------------------
(* Messages *)

\* sendMessage of the gateway: the row, and the conversation's date beside it.
SendMessage(p, m) ==
  /\ client[p].socket = "on" /\ HasAccess(p)
  /\ message[m] = NoMessage
  /\ message' = [message EXCEPT ![m] = [from |-> p, stage |-> "stored", read |-> FALSE]]
  /\ UNCHANGED client

\* Mutant: to everybody in the room but the sender, as the typing events.
MutantEmitCreated(m) ==
  /\ message[m].stage = "stored"
  /\ message' = [message EXCEPT ![m].stage = "broadcast"]
  /\ client' = [p \in Person |->
                 IF p \in Room \ {message[m].from} THEN [client[p] EXCEPT !.shown = @ \cup {m}]
                                                   ELSE client[p]]

\* 'chat.message.created' to the room.
EmitCreated(m) ==
  /\ message[m].stage = "stored"
  /\ message' = [message EXCEPT ![m].stage = "broadcast"]
  /\ client' = [p \in Person |->
                 IF p \in Room THEN [client[p] EXCEPT !.shown = @ \cup {m}] ELSE client[p]]

\* The conversation's update fails beside the insert: the sender is told of an error,
\* and nobody of the message.
SendFails(m) ==
  /\ message[m].stage = "stored"
  /\ message' = [message EXCEPT ![m].stage = "silent"]
  /\ UNCHANGED client

\* The controller's send, and the first message of startConversation.
SendOverHttp(p, m) ==
  /\ HasAccess(p)
  /\ message[m] = NoMessage
  /\ message' = [message EXCEPT ![m] = [from |-> p, stage |-> "silent", read |-> FALSE]]
  /\ UNCHANGED client

\* getMessages, the pages of the whole history.
GetMessages(p) ==
  /\ HasAccess(p) /\ client[p].socket # "off"
  /\ client' = [client EXCEPT ![p].shown = @ \cup Stored, ![p].whole = client[p].joined]
  /\ UNCHANGED message

\* markAsRead: every message of the other party, shown or not.
MarkAsRead(p) ==
  /\ HasAccess(p)
  /\ message' = [m \in Message |-> IF m \in Stored /\ message[m].from # p
                                   THEN [message[m] EXCEPT !.read = TRUE] ELSE message[m]]
  /\ UNCHANGED client

\* The process stops: no broadcast is left to come, no socket is connected.
ProcessStops ==
  /\ message' = [m \in Message |-> IF message[m].stage = "stored"
                                   THEN [message[m] EXCEPT !.stage = "silent"] ELSE message[m]]
  /\ client' = [p \in Person |-> Offline]

ChatsInit ==
  /\ message = [m \in Message |-> NoMessage]
  /\ client = [p \in Person |-> Offline]

ChatsNext ==
  \/ \E p \in Person : \/ Connect(p) \/ HandleConnection(p) \/ HandleDisconnect(p)
                       \/ JoinChat(p) \/ LeaveChat(p) \/ GetMessages(p) \/ MarkAsRead(p)
  \/ \E p \in Person, m \in Message : SendMessage(p, m) \/ SendOverHttp(p, m)
  \/ \E m \in Message : EmitCreated(m) \/ SendFails(m)
  \/ ProcessStops

ChatsSpec == ChatsInit /\ [][ChatsNext]_chatVars

-----------------------------------------------------------------------------
(* Properties *)

ChatsTypeOK ==
  /\ message \in [Message -> {NoMessage} \cup MessageRow]
  /\ client \in [Person -> Client]

\* A client that joined the room and then read the history misses no message but one whose
\* broadcast is still to come or that was never broadcast, however connections, messages
\* and crashes interleave; and nobody outside the conversation is shown any.
MembersMissNothing ==
  /\ \A p \in Person : client[p].whole =>
       \A m \in Stored : m \in client[p].shown \/ message[m].stage # "broadcast"
  /\ \A p \in Stranger : client[p].shown = {}

=============================================================================
