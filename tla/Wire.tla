--------------------------------- MODULE Wire ---------------------------------
(***************************************************************************)
(* From a JSON document to a message at the daemon: the scanners that read *)
(* single keys without a JSON parser (crates/spnr-hook, crates/spnr-status *)
(* and, for session logs, crates/spnr-meta), the datagram codec            *)
(* (crates/spnr-proto/src/socket.rs) and the daemon's receive buffer.      *)
(*                                                                         *)
(* A document is a sequence of members, at most one per key; the scanners  *)
(* see its JSON tokens, spaces left out.  Inside a string a quote is       *)
(* escaped, so a quoted key matches whole strings only.  A string is a     *)
(* sequence of characters: "n" and "s" are left alone by JSON and take one *)
(* byte, "nl" is written escaped, "wide" takes two bytes.  A byte has BASE *)
(* values, and a string's length is written in one digit of that base (in  *)
(* the code two bytes, 2^16 values); the receive buffer is as long as the  *)
(* length has values (64 * 1024).                                          *)
(***************************************************************************)
EXTENDS Integers, SequencesExt

CONSTANTS
  BASE,        \* values of a byte and of a length
  Strings,     \* the string values of documents
  MaxStray,    \* bound: bytes of a datagram from some other program
  Nothing      \* None

Chars == {"n", "s", "nl", "wide"}
Kinds == {"{", "}", ":", ",", "number", "string"}
MsgTypes == {"Hook", "Heartbeat", "Ping", "Pause", "Resume"}

\* Bytes 0 to 5 are used below.
ASSUME WireAssumption ==
  BASE \in Nat /\ BASE > 5 /\ MaxStray \in Nat /\ Strings \subseteq Seq(Chars)
\* None is no value of another type.
ASSUME NothingAssumption ==
  /\ Nothing \notin Seq(Nat) \cup Seq(Chars) \cup {"label", "unknown"}
  /\ Nothing \notin [kind : Kinds, text : Seq(Chars)]
  /\ Nothing \notin [type : MsgTypes, strs : Seq(Seq(Nat))]
  /\ Nothing \notin [s : Seq(Nat), next : Nat]

VARIABLES
  doc,         \* what the program that ran last read, or Nothing
  sent,        \* history: the message it sent, or Nothing
  datagram,    \* the datagram on the socket, or Nothing
  received,    \* what the daemon has of it in its buffer, or Nothing
  got          \* the message it read there, or Nothing

WireVars == <<doc, sent, datagram, received, got>>

-----------------------------------------------------------------------------
(* Documents.  The first two keys are the two a program reads: the event   *)
(* name and the session of a hook's payload, the time and the type of a     *)
(* line of the session log.                                                 *)
KEY_EVENT == <<"n">>
KEY_SESSION == <<"s">>
Keys == {KEY_EVENT, KEY_SESSION, <<"n", "s">>}

Token(kind, text) == [kind |-> kind, text |-> text]
Mark(kind) == Token(kind, <<>>)
Quoted(s) == Token("string", s)
Scalar == <<Mark("number")>>

\* Members of an object, as tokens; an empty `inner` is a value without keys.
\* The member no program reads is the one that names a key in its value.
Member(k, value, inner) == [key |-> k, value |-> value, inner |-> inner]
StringsOf(k) == IF k \in {KEY_EVENT, KEY_SESSION} THEN Strings ELSE {KEY_SESSION}
Flat(k) == {Member(k, <<Quoted(s)>>, <<>>) : s \in StringsOf(k)} \cup {Member(k, Scalar, <<>>)}
MemberTokens(m) == <<Quoted(m.key), Mark(":")>> \o m.value
Deep(k) ==
  {Member(k, <<Mark("{")>> \o MemberTokens(m) \o <<Mark("}")>>, <<m>>) :
     m \in UNION {{Member(j, <<Quoted(KEY_EVENT)>>, <<>>), Member(j, Scalar, <<>>)} : j \in Keys}}
Documents ==
  {d \in UNION {[1..n -> UNION {Flat(k) \cup Deep(k) : k \in Keys}] : n \in 1..3} :
     \A i, j \in DOMAIN d : i # j => d[i].key # d[j].key}
Tokens(d) ==
  <<Mark("{")>> \o
  FlattenSeq([i \in DOMAIN d |-> MemberTokens(d[i]) \o <<Mark(IF i < Len(d) THEN "," ELSE "}")>>])

-----------------------------------------------------------------------------
(* The scanners: the first string equal to the key that follows { or , and  *)
(* precedes a colon.  They go on past a string that is not in that place.   *)
Bug_NoColonNeeded(tokens, key) ==
  {i \in DOMAIN tokens : tokens[i] = Quoted(key) /\ (i = 1 \/ tokens[i - 1].kind # "string")}
KeyPositions(tokens, key) ==
  {i \in DOMAIN tokens :
     /\ tokens[i] = Quoted(key)
     /\ i = 1 \/ tokens[i - 1].kind \in {"{", ","}
     /\ i < Len(tokens) /\ tokens[i + 1].kind = ":"}
value_for_key(tokens, key) ==
  LET at == KeyPositions(tokens, key)
  IN  IF at = {} \/ Min(at) + 2 > Len(tokens) THEN Nothing ELSE tokens[Min(at) + 2]
skim_string(tokens, key) ==
  LET v == value_for_key(tokens, key)
  IN  IF v = Nothing \/ v.kind # "string" THEN Nothing ELSE v.text

\* UTF-8, one escape aside: what a string's characters are as bytes.
LEAD == 2
CONT == 3
CHAR == [n |-> <<0>>, s |-> <<1>>, nl |-> <<4>>, wide |-> <<LEAD, CONT>>]
BACKSLASH == 5
IsUtf8(b) ==
  /\ \A i \in DOMAIN b : b[i] = LEAD => i < Len(b) /\ b[i + 1] = CONT
  /\ \A i \in DOMAIN b : b[i] = CONT => i > 1 /\ b[i - 1] = LEAD

\* spnr-hook undoes escapes and takes every byte of a character for a character.
Bug_KeepsTheFirstByte(s) == FlattenSeq([i \in DOMAIN s |-> <<CHAR[s[i]][1]>>])
Bug_EscapesKept(s) ==
  FlattenSeq([i \in DOMAIN s |-> IF s[i] = "nl" THEN <<BACKSLASH>> \o CHAR.n ELSE CHAR[s[i]]])
Unescaped(s) ==
  FlattenSeq([i \in DOMAIN s |-> IF s[i] = "wide" THEN CHAR.wide \o CHAR.wide ELSE CHAR[s[i]]])
\* spnr-status takes what stands between the quotes.
Raw(s) ==
  FlattenSeq([i \in DOMAIN s |-> IF s[i] = "nl" THEN <<BACKSLASH>> \o CHAR.n ELSE CHAR[s[i]]])

SocketMsg(type, strs) == [type |-> type, strs |-> strs]
Commands == {SocketMsg(c, <<>>) : c \in {"Ping", "Pause", "Resume"}}

\* extract: both strings there, and neither empty.
extract(tokens) ==
  LET event == skim_string(tokens, KEY_EVENT)
      session == skim_string(tokens, KEY_SESSION)
  IN  IF Nothing \in {event, session} \/ <<>> \in {event, session} THEN Nothing
      ELSE SocketMsg("Hook", <<Unescaped(event), Unescaped(session)>>)
\* skim_session and the heartbeat made of it: an empty session is sent too.
skim_session(tokens) ==
  LET session == skim_string(tokens, KEY_SESSION)
  IN  IF session = Nothing THEN Nothing ELSE SocketMsg("Heartbeat", <<Raw(session)>>)

\* parse_timings, one line: a time that is a number, in quotes or not, and a
\* label of the closed set (here the one label "n"); any other is unknown.
\* "n" is also the string that is a number in quotes.
parse_timings(tokens) ==
  LET ts == value_for_key(tokens, KEY_EVENT)
      type == value_for_key(tokens, KEY_SESSION)
  IN  IF ts \notin {Mark("number"), Quoted(<<"n">>)} THEN Nothing
      ELSE IF type = Quoted(<<"n">>) THEN "label" ELSE "unknown"

-----------------------------------------------------------------------------
(* The codec. *)
TAG_HOOK == 1
TAG_HEARTBEAT == 2
TAG_CMD == 3
CmdByte == [Ping |-> 1, Pause |-> 2, Resume |-> 3]

put_str(b) ==
  LET len == Min({Len(b), BASE - 1}) IN <<len>> \o SubSeq(b, 1, len)
encode(m) ==
  CASE m.type = "Hook" -> <<TAG_HOOK>> \o put_str(m.strs[1]) \o put_str(m.strs[2])
    [] m.type = "Heartbeat" -> <<TAG_HEARTBEAT>> \o put_str(m.strs[1])
    [] m \in Commands -> <<TAG_CMD, CmdByte[m.type]>>

\* take_str: the string whose length stands at `cursor`, and where it ends.
take_str(b, cursor) ==
  LET end == cursor + b[cursor]
      s == SubSeq(b, cursor + 1, end)
  IN  IF cursor > Len(b) THEN Nothing
      ELSE IF end > Len(b) \/ ~IsUtf8(s) THEN Nothing
      ELSE [s |-> s, next |-> end + 1]
\* A message that ends before the datagram does is refused.
Bug_TrailingBytesPass(m, next, b) == m
Framed(m, next, b) == IF next = Len(b) + 1 THEN m ELSE Nothing
decode(b) ==
  IF b = <<>> THEN Nothing
  ELSE
  LET first == take_str(b, 2)
      second == IF first = Nothing THEN Nothing ELSE take_str(b, first.next)
  IN  CASE b[1] = TAG_HOOK /\ second # Nothing ->
             Framed(SocketMsg("Hook", <<first.s, second.s>>), second.next, b)
        [] b[1] = TAG_HEARTBEAT /\ first # Nothing ->
             Framed(SocketMsg("Heartbeat", <<first.s>>), first.next, b)
        [] b[1] = TAG_CMD /\ Len(b) > 1 /\ \E c \in Commands : CmdByte[c.type] = b[2] ->
             Framed(CHOOSE c \in Commands : CmdByte[c.type] = b[2], 3, b)
        [] OTHER -> Nothing

\* recv_from into a buffer that is shorter than the datagram drops the rest.
BUFFER == BASE
Cut(b) == SubSeq(b, 1, Min({Len(b), BUFFER}))

-----------------------------------------------------------------------------
WireInit ==
  doc = Nothing /\ sent = Nothing /\ datagram = Nothing /\ received = Nothing /\ got = Nothing

Idle == doc = Nothing /\ datagram = Nothing /\ received = Nothing
Reads(d) == Idle /\ doc' = d
Sends(m) ==
  /\ sent' = m
  /\ datagram' = IF m = Nothing THEN Nothing ELSE encode(m)
  /\ UNCHANGED <<received, got>>

HookRun == \E d \in Documents : Reads(d) /\ Sends(extract(Tokens(d)))
StatusRun == \E d \in Documents : Reads(d) /\ Sends(skim_session(Tokens(d)))
\* send_cmd; the command line reads no document.
SendCmd == \E c \in Commands : Reads(<<>>) /\ Sends(c)
\* The socket takes datagrams from any program of the user, also longer ones
\* than the buffer.
Stray ==
  /\ Reads(<<>>)
  /\ \E n \in 0..MaxStray, pad \in {0, BUFFER} :
       \E b \in [1..n -> 0..(BASE - 1)] : datagram' = b \o [i \in 1..pad |-> 0]
  /\ UNCHANGED <<sent, received, got>>

\* recv_from, and the message handed to the daemon if there is one.
RecvFrom ==
  /\ datagram # Nothing
  /\ received' = Cut(datagram)
  /\ got' = decode(Cut(datagram))
  /\ datagram' = Nothing /\ doc' = Nothing
  /\ UNCHANGED sent
\* The program exits 0, also when its datagram was lost, and the daemon waits again.
Done ==
  /\ ~Idle
  /\ doc' = Nothing /\ sent' = Nothing /\ datagram' = Nothing
  /\ received' = Nothing /\ got' = Nothing

WireNext == HookRun \/ StatusRun \/ SendCmd \/ Stray \/ RecvFrom \/ Done

WireSpec == WireInit /\ [][WireNext]_WireVars

-----------------------------------------------------------------------------
(* The members of a document in the order they are written, those of a      *)
(* nested object after the member that holds it.                            *)
Entries(d) == FlattenSeq([i \in DOMAIN d |-> <<d[i]>> \o d[i].inner])
FirstEntry(d, k) ==
  LET entries == Entries(d)  at == {i \in DOMAIN entries : entries[i].key = k}
  IN  IF at = {} THEN Nothing ELSE Head(entries[Min(at)].value)

\* Without parsing, the scanners find what a parser would that takes the
\* first member of that name: a string equal to a key, as a value or as the
\* name of another member, misleads them never.  Only an object nested
\* before the member can, and a log line then yields a time and one of the
\* closed labels, or nothing.
SkimIsLookup ==
  doc # Nothing =>
    LET tokens == Tokens(doc)  ts == FirstEntry(doc, KEY_EVENT)
    IN
    /\ \A k \in Keys : value_for_key(tokens, k) = FirstEntry(doc, k)
    /\ (parse_timings(tokens) = Nothing)
           <=> (ts = Nothing \/ (ts.kind # "number" /\ ts.text # <<"n">>))

\* What the daemon reads is what was sent, string by string: put_str may cut
\* a string, even inside a character, but a datagram that long does not fit
\* the buffer and is refused, never half understood.  A datagram of any
\* other program is read only as a message whose encoding fills the buffer
\* exactly: no byte rides along inside it.
ReadAsSent ==
  received # Nothing =>
    /\ sent # Nothing => got = IF Len(encode(sent)) <= BUFFER THEN sent ELSE Nothing
    /\ got # Nothing => encode(got) = received

\* The heartbeat of a session carries the id its hooks carry, as long as the
\* id is written without escapes and in one-byte characters; of any other id
\* the two differ, and its heartbeats attest no wait of its hooks.
SameSession ==
  LET id == FirstEntry(doc, KEY_SESSION)
      tokens == Tokens(doc)
      hook == extract(tokens)
      heartbeat == skim_session(tokens)
  IN  doc # Nothing /\ hook # Nothing =>
        /\ heartbeat # Nothing
        /\ (heartbeat.strs[1] = hook.strs[2])
              <=> (\A i \in DOMAIN id.text : id.text[i] \in {"n", "s"})
===============================================================================
