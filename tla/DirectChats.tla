----------------------------- MODULE DirectChats -----------------------------
(***************************************************************************)
(* What src/chat/service.py promises however its requests overlap.  A      *)
(* request takes effect at most once, all at one moment, for the user it   *)
(* came from, and only if that user is entitled to it at that very moment: *)
(* two users have one chat, only they say things in it, mark it read and   *)
(* close it, only its author revises or withdraws what was said, and what  *)
(* is withdrawn stays so.                                                  *)
(***************************************************************************)
EXTENDS Functions

CONSTANTS Users, ChatIds, MessageIds, Requests, None

VARIABLES
    talks,      \* chat -> its two users
    marks,      \* <<chat, user>> -> how far the user has read it
    said,       \* message -> chat, author, and what has become of it
    drawn,      \* the ids given to requests so far
    want        \* of each request that may still take effect: its user and its id

chatVars == <<talks, marks, said, drawn, want>>

ChatsInit ==
    /\ talks = <<>> /\ marks = <<>> /\ said = <<>> /\ drawn = {}
    /\ want = [r \in Requests |-> None]

Ask(r, u, x) ==
    /\ want[r] = None
    /\ x \notin drawn
    /\ want' = [want EXCEPT ![r] = [user |-> u, id |-> x]]
    /\ drawn' = IF x = None THEN drawn ELSE drawn \cup {x}
    /\ UNCHANGED <<talks, marks, said>>

\* What request r has wanted happens now, or never.
Settle(r) ==
    /\ want[r] # None
    /\ want' = [want EXCEPT ![r] = None]
    /\ UNCHANGED drawn

GiveUp(r) == Settle(r) /\ UNCHANGED <<talks, marks, said>>

Added(f, x, v) == [y \in DOMAIN f \cup {x} |-> IF y = x THEN v ELSE f[y]]

MarksKept(S) == \A p \in S : marks'[p] = marks[p]

Open(r, v) ==
    LET u == want[r].user  c == want[r].id IN
    /\ Settle(r)
    /\ u # v /\ c \in ChatIds
    /\ \A d \in DOMAIN talks : talks[d] # {u, v}
    /\ talks' = Added(talks, c, {u, v})
    /\ DOMAIN marks' = DOMAIN marks \cup {<<c, u>>, <<c, v>>}
    /\ MarksKept(DOMAIN marks)
    /\ marks'[<<c, u>>] = marks'[<<c, v>>]
    /\ UNCHANGED said

Close(r, c) ==
    /\ Settle(r)
    /\ want[r].user \in talks[c]
    /\ talks' = Restrict(talks, DOMAIN talks \ {c})
    /\ marks' = Restrict(marks, {p \in DOMAIN marks : p[1] # c})
    /\ said' = Restrict(said, {m \in DOMAIN said : said[m].chat # c})

Read(r, c) ==
    LET p == <<c, want[r].user>> IN
    /\ Settle(r)
    /\ want[r].user \in talks[c]
    /\ DOMAIN marks' = DOMAIN marks
    /\ MarksKept(DOMAIN marks \ {p})
    /\ UNCHANGED <<talks, said>>

Say(r, c) ==
    LET u == want[r].user  m == want[r].id IN
    /\ Settle(r)
    /\ u \in talks[c] /\ m \in MessageIds
    /\ said' = Added(said, m, [chat |-> c, author |-> u, state |-> "said"])
    /\ UNCHANGED <<talks, marks>>

\* The author revises or withdraws m.
Change(r, m, state) ==
    /\ Settle(r)
    /\ said[m].author = want[r].user
    /\ said[m].state # "withdrawn"
    /\ said' = [said EXCEPT ![m].state = state]
    /\ UNCHANGED <<talks, marks>>

ChatsNext ==
    \E r \in Requests :
        \/ \E u \in Users, x \in ChatIds \cup MessageIds \cup {None} : Ask(r, u, x)
        \/ GiveUp(r)
        \/ \E v \in Users : Open(r, v)
        \/ \E c \in DOMAIN talks : Close(r, c) \/ Read(r, c) \/ Say(r, c)
        \/ \E m \in DOMAIN said, state \in {"revised", "withdrawn"} : Change(r, m, state)

ChatsSpec == ChatsInit /\ [][ChatsNext]_chatVars
=============================================================================
