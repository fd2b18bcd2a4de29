-------------------------- MODULE MCChannelIngress --------------------------
(* TLC instances of ChannelIngress: deliveries m1, m2, m3 of one process to    *)
(* one session, a chat or a group, and a task t1 of the chat.                  *)
EXTENDS ChannelIngress, TLC

CONSTANTS m1, m2, m3, t1, ann, p1, s1

OneProcess == [r \in Runs |-> p1]
OneSession == [r \in Runs |-> s1]
OneActor   == [r \in Runs |-> ann]

Ask1(id)  == [id |-> id, group |-> FALSE, mention |-> FALSE, text |-> TRUE, parts |-> FALSE,
              command |-> FALSE]                        \* a question in a chat
Ask2(id)  == [Ask1(id) EXCEPT !.group = TRUE, !.mention = TRUE]   \* in a group
Aside(id) == [Ask1(id) EXCEPT !.group = TRUE]                     \* not for the bot
Blank(m)  == [m EXCEPT !.text = FALSE]
Slash(m)  == [m EXCEPT !.command = TRUE]
Photo(m)  == [m EXCEPT !.text = FALSE, !.parts = TRUE]

Post(x, y, z) == (m1 :> x) @@ (m2 :> y) @@ (m3 :> z)

Setup(channel, mail, post, tasks, crashed, faulty, slipped) ==
  [channel |-> channel, mail |-> mail, post |-> post, tasks |-> tasks,
   crashes |-> crashed, faults |-> faulty, slips |-> slipped]

One   == Post(Ask1(m1), Ask1(m2), Ask1(m3))                 \* questions
Twice == Post(Ask1(m1), Ask1(m1), Ask1(m3))                 \* m1 comes twice
Odd   == Post(Ask1(m1), Slash(Ask1(m2)), Blank(Ask1(m3)))   \* a command, an empty message

Chats == {
  Setup("feishu", {m1}, One, {t1}, 1, 0, 0),
  Setup("feishu", {m1, m2}, Twice, {}, 0, 1, 1),
  Setup("feishu", {m1, m2}, One, {}, 0, 0, 0),
  Setup("feishu", {m1}, One, {}, 1, 0, 1),
  Setup("feishu", {m2, m3}, Odd, {}, 0, 0, 0),
  Setup("telegram", {m1, m3}, Odd, {t1}, 0, 0, 0),
  Setup("discord", {m1, m2, m3}, Odd, {}, 0, 0, 0),
  Setup("imessage", {m1, m2}, One, {}, 0, 0, 0)}

Busy  == Post(Ask2(m1), Aside(m2), Ask2(m3))                \* two questions, one remark
Again == Post(Ask2(m1), Aside(m2), Aside(m2))               \* the remark comes twice
Later == Post(Ask2(m1), Ask2(m2), Ask2(m2))                 \* a question comes twice
Album == Post(Ask2(m1), Aside(m2), Photo(Ask2(m3)))         \* a question without words
Talk  == Post(Aside(m1), Aside(m2), Aside(m3))
Call  == Post(Blank(Ask2(m1)), Aside(m2), Slash(Ask2(m3)))  \* only the bot is named

Groups == {
  Setup("feishu", {m1, m2, m3}, Busy, {}, 0, 1, 0),
  Setup("feishu", {m1, m2, m3}, Again, {}, 0, 0, 1),
  Setup("feishu", {m1, m2, m3}, Later, {}, 0, 0, 1),
  Setup("feishu", {m1, m2}, Call, {}, 1, 1, 0),
  Setup("feishu", {m1, m2, m3}, Talk, {}, 0, 0, 0),
  Setup("telegram", {m1, m2, m3}, Album, {}, 0, 0, 0),
  Setup("telegram", {m1, m2, m3}, Call, {}, 0, 1, 0),
  Setup("discord", {m1, m2, m3}, Busy, {}, 0, 1, 0),
  Setup("discord", {m1, m2}, Call, {}, 0, 1, 0)}

Everywhere == Chats \cup Groups
=============================================================================
