------------------------------ MODULE Framing ------------------------------
(***************************************************************************)
(* The connection loops of adrian-smb-server (NetBIOS frames) and of       *)
(* adrian-directory-service's LDAP server (BER elements): bytes arrive in  *)
(* pieces of any size, several requests may be under way, and the loop     *)
(* cuts the stream into messages and answers them in turn.  A byte is its  *)
(* message and its place in it, so that a loop that loses its place reads  *)
(* something that is no header.                                            *)
(***************************************************************************)
EXTENDS Naturals, Sequences, FiniteSets, SequencesExt

CONSTANTS
  Script,          \* what a client may send: [protocol, messages]
  Chunk            \* bound: bytes per read

(* A message: its kind and the lengths of its header and of its payload.   *)
(* A NetBIOS header has 4 bytes; a BER header has 2, or more when the      *)
(* length is in the long form.                                             *)

VARIABLES
  script,
  wrote,           \* bytes the client has written
  hung_up,         \* the client has closed its side
  taken,           \* bytes the server has read
  buf,             \* read_buf, buf
  answers,         \* what was written back: messages answered
  open             \* the loop runs

vars == <<script, wrote, hung_up, taken, buf, answers, open>>

Messages == script.messages

Bytes(i) == [b \in 1 .. (Messages[i].header + Messages[i].payload) |-> [message |-> i, at |-> b]]

Stream == FlattenSeq([i \in DOMAIN Messages |-> Bytes(i)])

Init ==
  /\ script \in Script
  /\ wrote = 0 /\ taken = 0 /\ buf = <<>> /\ answers = <<>>
  /\ hung_up = FALSE /\ open = TRUE

ClientWrite ==
  /\ ~ hung_up /\ wrote < Len(Stream)
  /\ wrote' \in wrote + 1 .. Len(Stream)
  /\ UNCHANGED <<script, hung_up, taken, buf, answers, open>>

ClientHangUp ==
  /\ ~ hung_up /\ hung_up' = TRUE
  /\ UNCHANGED <<script, wrote, taken, buf, answers, open>>

-----------------------------------------------------------------------------
(* Parsing the front of the buffer. *)
Current == buf[1].message

\* The bytes at the front are the whole header of a message.
AtHeader == \A b \in 1 .. Messages[Current].header :
              b <= Len(buf) /\ buf[b] = [message |-> Current, at |-> b]

Total == Messages[Current].header + Messages[Current].payload

\* Mutant: a frame that is exactly in the buffer is not complete.
TooShortStrict(n) == Len(buf) <= n

TooShort(n) == Len(buf) < n

\* peek_header wants 4 bytes; then the loop wants the frame.
SmbIncomplete == IF TooShort(4) THEN TRUE ELSE AtHeader /\ TooShort(Total)

\* decode_tlv answers Empty or Truncated.
LdapIncomplete ==
  IF buf = <<>> THEN TRUE ELSE TooShort(Messages[Current].header) \/ (AtHeader /\ TooShort(Total))

Incomplete == IF script.protocol = "smb" THEN SmbIncomplete ELSE LdapIncomplete

\* Bytes that are no header are an error of their own.
Kind == IF AtHeader THEN Messages[Current].kind ELSE "garbage"

\* What dispatch_frame and dispatch write back, and whether the loop goes on.
Written(kind) ==
  CASE kind \in {"request", "smb1"} -> 1
    [] kind = "search" -> 2            \* an entry, and SearchResultDone
    [] OTHER -> 0

Closes(kind) == kind \in {"netbios-control", "undecodable", "unbind", "garbage"}

-----------------------------------------------------------------------------
Read ==
  /\ Incomplete /\ taken < wrote
  /\ \E n \in 1 .. Chunk :
       /\ taken + n <= wrote
       /\ taken' = taken + n /\ buf' = buf \o SubSeq(Stream, taken + 1, taken + n)
  /\ UNCHANGED <<script, wrote, hung_up, answers, open>>

ReadEof ==
  /\ Incomplete /\ taken = wrote /\ hung_up
  /\ open' = FALSE
  /\ UNCHANGED <<script, wrote, hung_up, taken, buf, answers>>

\* A write to a client that has hung up may fail, and ends the loop.
DispatchFrame ==
  /\ ~ Incomplete
  /\ buf' = SubSeq(buf, Total + 1, Len(buf))
  /\ \E n \in {Written(Kind)} \cup (IF hung_up THEN 0 .. (Written(Kind) - 1) ELSE {}) :
       /\ answers' = answers \o [k \in 1 .. n |-> Current]
       /\ open' = (n = Written(Kind) /\ ~ Closes(Kind))
  /\ UNCHANGED <<script, wrote, hung_up, taken>>

Serve == open /\ (Read \/ ReadEof \/ DispatchFrame)

Next == Serve \/ ClientWrite \/ ClientHangUp

\* The task of the connection is polled whenever its socket is readable.
Fairness == WF_vars(Serve)

Spec == Init /\ [][Next]_vars /\ Fairness

-----------------------------------------------------------------------------
End(i) == Len(FlattenSeq([k \in 1 .. i |-> Bytes(k)]))

\* Messages written completely, up to one that ends the connection.
Due == {i \in DOMAIN Messages :
          wrote >= End(i) /\ \A k \in 1 .. (i - 1) : ~ Closes(Messages[k].kind)}

CaughtUp ==
  answers = FlattenSeq([i \in 1 .. Cardinality(Due) |->
                          [n \in 1 .. Written(Messages[i].kind) |-> i]])

(* run and serve_connection: however the stream was cut, the loop catches  *)
(* up again and again: every message written completely has been answered, *)
(* in order and with all of its responses, without waiting for more bytes, *)
(* up to one that ends the connection; or the client has hung up.          *)
RequestsAnswered == []<>(CaughtUp \/ hung_up)
=============================================================================
