-------------------------------- MODULE AiChat --------------------------------
(***************************************************************************)
(* The assistant's conversation.  It lives in the client, which sends the  *)
(* newest part of it along with each message; the server keeps nothing,    *)
(* checks what it is sent and asks an external model.  The mobile client   *)
(* and the web client differ in how they know that a request is under way: *)
(* one flag for the conversation, or the state of the newest request.      *)
(***************************************************************************)
EXTENDS Integers, Sequences

CONSTANTS MaxSends,            \* messages are sent up to this many
          MaxHistoryEntries,   \* entries a client sends along (20)
          MaxConversation      \* entries the server accepts (20)

ASSUME ConversationAssumption ==
    MaxHistoryEntries \in Nat /\ MaxConversation \in Nat /\ MaxHistoryEntries <= MaxConversation

VARIABLES chaClient,     \* "mobile" or "web"
          chaMessages,   \* the conversation on the screen
          chaCalls,      \* the request of each message sent
          chaSending,    \* is one under way, as the screen has it?
          chaFailed,     \* the request that can be retried, or 0
          chaNewest,     \* web: the request the screen follows, or 0
          chaCutOff      \* was one under way when the conversation was cleared?

chaVars == <<chaClient, chaMessages, chaCalls, chaSending, chaFailed, chaNewest, chaCutOff>>

-----------------------------------------------------------------------------
(* ai.service.js.  Of a text it matters whether it is longer than the      *)
(* server takes back (2000 characters).  A message of the user's may be,   *)
(* and a reply: the model's diagnosis has up to 3000, and its follow-up    *)
(* question is folded in; its answer to any other question has no limit.   *)

\* turn: the number of the message, or of the one it answers.
Message(role, turn, long) == [role |-> role, turn |-> turn, long |-> long]

Turns == DOMAIN chaCalls

InFlight(t) == chaCalls[t].stage # "ended"

\* What was asked: the conversation so far, and the message as its last.
validateConversation(asked) ==
    /\ Len(asked) - 1 <= MaxConversation
    /\ \A i \in DOMAIN asked : ~asked[i].long

chat(t) ==
    /\ chaCalls[t].stage = "sent"
    /\ chaCalls' = [chaCalls EXCEPT ![t].stage =
                        IF validateConversation(chaCalls[t].asked) THEN "accepted" ELSE "refused"]
    /\ UNCHANGED <<chaClient, chaMessages, chaSending, chaFailed, chaNewest, chaCutOff>>

-----------------------------------------------------------------------------
(* ai_chat_state.dart and useAiChat.ts                                     *)

\* Mutant of NewestMessages: all of the conversation.
AllMessages == chaMessages

NewestMessages ==
    LET first == Len(chaMessages) - MaxHistoryEntries + 1
    IN  SubSeq(chaMessages, IF first > 1 THEN first ELSE 1, Len(chaMessages))

\* The request of turn t leaves, and the screen follows it.
Follow(t) == chaSending' = TRUE /\ chaFailed' = 0 /\ chaNewest' = t

\* Mutant of SendMessage: whatever is under way.
SendAnyway(long) ==
    LET message == Message("user", Len(chaCalls) + 1, long)
    IN  /\ Len(chaCalls) < MaxSends
        /\ chaMessages' = Append(chaMessages, message)
        /\ chaCalls' = Append(chaCalls, [stage |-> "sent", asked |-> Append(NewestMessages, message)])
        /\ Follow(message.turn)
        /\ UNCHANGED <<chaClient, chaCutOff>>

SendMessage(long) == ~chaSending /\ SendAnyway(long)

\* The very request that failed, with no new message.
Retry ==
    /\ chaFailed # 0 /\ ~chaSending
    /\ chaCalls' = [chaCalls EXCEPT ![chaFailed].stage = "sent"]
    /\ Follow(chaFailed)
    /\ UNCHANGED <<chaClient, chaMessages, chaCutOff>>

\* Whose end does the screen take for its own?  On mobile, anyone's.
Followed(t) == chaClient = "mobile" \/ chaNewest = t

Ended(t, failed) ==
    /\ chaCalls' = [chaCalls EXCEPT ![t].stage = "ended"]
    /\ IF Followed(t) THEN chaSending' = FALSE /\ chaFailed' = failed
                      ELSE UNCHANGED <<chaSending, chaFailed>>
    /\ UNCHANGED <<chaClient, chaNewest, chaCutOff>>

ReplyArrives(t, long) ==
    /\ chaCalls[t].stage = "accepted"
    /\ chaMessages' = Append(chaMessages, Message("assistant", t, long))
    /\ Ended(t, 0)

\* Refused, or the model failed or was too slow, or the connection was lost.
RequestFails(t) == InFlight(t) /\ UNCHANGED chaMessages /\ Ended(t, t)

\* The requests under way are not cancelled.
ClearChat ==
    /\ chaMessages # <<>>
    /\ chaMessages' = <<>> /\ chaSending' = FALSE /\ chaFailed' = 0 /\ chaNewest' = 0
    /\ chaCutOff' = (\E t \in Turns : InFlight(t))
    /\ UNCHANGED <<chaClient, chaCalls>>

-----------------------------------------------------------------------------

ChatStart(client) ==
    /\ chaClient = client /\ chaMessages = <<>> /\ chaCalls = <<>>
    /\ chaSending = FALSE /\ chaFailed = 0 /\ chaNewest = 0 /\ chaCutOff = FALSE

ChatInit == \E client \in {"mobile", "web"} : ChatStart(client)

ChatNext ==
    \/ \E long \in BOOLEAN : SendMessage(long)
    \/ \E t \in Turns : chat(t) \/ RequestFails(t) \/ \E long \in BOOLEAN : ReplyArrives(t, long)
    \/ Retry \/ ClearChat

ChatSpec == ChatInit /\ [][ChatNext]_chaVars

-----------------------------------------------------------------------------
(* Properties.                                                             *)

\* An answer stands below the question it answers, and no question has two,
\* unless a request was under way when the conversation was last cleared.
AnswersFollowQuestions ==
    chaCutOff \/ \A i \in DOMAIN chaMessages :
                    chaMessages[i].role = "assistant"
                    => /\ i > 1 /\ chaMessages[i - 1].role = "user"
                       /\ chaMessages[i - 1].turn = chaMessages[i].turn

\* The server refuses nothing a client sends of a conversation, however it
\* went, for anything but the length of one of the texts.
RefusedForLength ==
    \A t \in Turns : chaCalls[t].stage = "refused"
                     => \E i \in DOMAIN chaCalls[t].asked : chaCalls[t].asked[i].long

=============================================================================
