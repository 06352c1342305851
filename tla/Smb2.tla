-------------------------------- MODULE Smb2 --------------------------------
(***************************************************************************)
(* The SMB2 messages of adrian-smb-core: for every message the encoder and *)
(* the decoder, each with the positions its own code uses.  An encoder     *)
(* yields the whole message, header included; a decoder takes the whole    *)
(* message and reads its body after the header.                            *)
(***************************************************************************)
EXTENDS Wire

H == 64

SMB2_MAGIC == <<254, 83, 77, 66>>

TRANSFORM_MAGIC == <<253, 83, 77, 66>>

MAX_SMB2_MESSAGE_SIZE == 2^20

Dialects == {514, 528, 768, 770, 785}

-----------------------------------------------------------------------------
(* Smb2Header. *)
EncodeHeader(h) ==
  SMB2_MAGIC \o LE(H, 2) \o LE(h.credit_charge, 2) \o LE(h.status, 4)
  \o LE(h.command, 2) \o LE(h.credits, 2) \o LE(h.flags, 4)
  \o LE(h.next_command, 4) \o LE64(h.message_id) \o LE(h.process_id, 4)
  \o LE(h.tree_id, 4) \o LE64(h.session_id) \o h.signature

(* Off by one field: the flags are read where the credits are. *)
DecodeHeaderShifted(b) ==
  IF Len(b) < H \/ Take(b, 0, 4) # SMB2_MAGIC \/ RdLE(b, 4, 2) # H THEN Bad
  ELSE Ok([credit_charge |-> RdLE(b, 6, 2), status |-> RdLE(b, 8, 4),
           command |-> RdLE(b, 12, 2), credits |-> RdLE(b, 14, 2),
           flags |-> RdLE(b, 14, 4), next_command |-> RdLE(b, 20, 4),
           message_id |-> Take(b, 24, 8), process_id |-> RdLE(b, 32, 4),
           tree_id |-> RdLE(b, 36, 4), session_id |-> Take(b, 40, 8),
           signature |-> Take(b, 48, 16)])

DecodeHeader(b) ==
  IF Len(b) < H \/ Take(b, 0, 4) # SMB2_MAGIC \/ RdLE(b, 4, 2) # H THEN Bad
  ELSE Ok([credit_charge |-> RdLE(b, 6, 2), status |-> RdLE(b, 8, 4),
           command |-> RdLE(b, 12, 2), credits |-> RdLE(b, 14, 2),
           flags |-> RdLE(b, 16, 4), next_command |-> RdLE(b, 20, 4),
           message_id |-> Take(b, 24, 8), process_id |-> RdLE(b, 32, 4),
           tree_id |-> RdLE(b, 36, 4), session_id |-> Take(b, 40, 8),
           signature |-> Take(b, 48, 16)])

NewRequest(command, id) ==
  [credit_charge |-> 1, status |-> 0, command |-> command, credits |-> 1,
   flags |-> 0, next_command |-> 0, message_id |-> id, process_id |-> 0,
   tree_id |-> 0, session_id |-> Zeros(8), signature |-> Zeros(16)]

NewResponse(req) ==
  [req EXCEPT !.credit_charge = 1, !.status = 0, !.credits = 1, !.flags = 1,
              !.next_command = 0, !.signature = Zeros(16)]

(* The header in front of a body: a request of the command. *)
Request(command, body) ==
  EncodeHeader(NewRequest(command, LE(1, 4) \o Zeros(4))) \o body

(* The header in front of an answer to a request of the command. *)
Response(command, body) ==
  EncodeHeader(NewResponse(NewRequest(command, LE(1, 4) \o Zeros(4)))) \o body

(* The common start of the decoders: a fixed part and its StructureSize. *)
Body(b, fixed, size) == Len(b) >= H + fixed /\ RdLE(b, H, 2) = size

(* A part named by offset and length: absent when empty, else within b
   (and a check of its offset alone). *)
WithinStart(b, off, n) == n = 0 \/ off <= Len(b)

Within(b, off, n) == n = 0 \/ off + n <= Len(b)

Part(b, off, n) == IF n = 0 THEN <<>> ELSE Take(b, off, n)

-----------------------------------------------------------------------------
(* Negotiate contexts: aligned to 8 bytes, from the second one on. *)
EncodeAll(ctxs) ==
  Accumulate(LAMBDA b, c :
             (IF b = <<>> THEN b ELSE Align(b, 8))
             \o LE(c.context_type, 2) \o LE(Len(c.data), 2) \o Zeros(4) \o c.data,
           <<>>, ctxs)

RECURSIVE DecodeFrom(_, _)
DecodeFrom(b, pos) ==
  IF pos + 8 > Len(b) THEN Ok(<<>>)
  ELSE LET n == RdLE(b, pos + 2, 2)
           next == pos + 8 + n
           rest == DecodeFrom(b, next + PadTo(next, 8))
       IN IF next > Len(b) THEN Bad
          ELSE IF ~ rest.ok THEN Bad
          ELSE Ok(<<[context_type |-> RdLE(b, pos, 2), data |-> Take(b, pos + 8, n)]>>
                  \o rest.val)

DecodeAll(b) == DecodeFrom(b, 0)

(* The contexts a message names by offset and count. *)
DecodeContexts(b, off, count) ==
  LET all == DecodeAll(From(b, off + PadTo(off, 8)))
  IN IF count = 0 THEN Ok(<<>>)
     ELSE IF off = 0 \/ off >= Len(b) \/ ~ all.ok THEN Bad
     ELSE Ok(SubSeq(all.val, 1, IF count < Len(all.val) THEN count ELSE Len(all.val)))

PreauthIntegrity(algos, salt) ==
  [context_type |-> 1, data |-> LE(Len(algos), 2) \o LE(Len(salt), 2) \o Utf16(algos) \o salt]

AlgorithmList(type, algos) ==
  [context_type |-> type, data |-> LE(Len(algos), 2) \o Utf16(algos)]

ParsePreauth(c) ==
  LET n == RdLE(c.data, 0, 2)
      salt == RdLE(c.data, 2, 2)
  IN IF c.context_type # 1 \/ Len(c.data) < 4 \/ Len(c.data) < 4 + 2 * n + salt THEN Bad
     ELSE Ok(<<FromUtf16(Take(c.data, 4, 2 * n)), Take(c.data, 4 + 2 * n, salt)>>)

ParseEncryption(c) ==
  LET n == RdLE(c.data, 0, 2)
  IN IF c.context_type # 2 \/ Len(c.data) < 2 \/ Len(c.data) < 2 + 2 * n THEN Bad
     ELSE Ok(FromUtf16(Take(c.data, 2, 2 * n)))

EncodeNegotiateRequest(m) ==
  LET n == Len(m.dialects)
      start == H + 36 + 2 * n
      none == m.negotiate_contexts = <<>>
      body == LE(36, 2) \o LE(n, 2) \o LE(m.security_mode, 2) \o Zeros(2)
              \o LE(m.capabilities, 4) \o m.client_guid
              \o LE(IF none THEN 0 ELSE start + PadTo(start, 8), 4)
              \o LE(Len(m.negotiate_contexts), 2) \o Zeros(2) \o Utf16(m.dialects)
  IN Request(0, IF none THEN body ELSE Align(body, 8) \o EncodeAll(m.negotiate_contexts))

DecodeNegotiateRequest(b) ==
  IF ~ Body(b, 36, 36) THEN Bad
  ELSE LET n == RdLE(b, H + 2, 2)
           ds == FromUtf16(Take(b, H + 36, 2 * n))
           ctxs == DecodeContexts(b, RdLE(b, H + 28, 4), RdLE(b, H + 32, 2))
       IN IF ~ Has(b, H + 36, 2 * n) THEN Bad
          ELSE IF Range(ds) \subseteq Dialects /\ ctxs.ok
          THEN Ok([dialects |-> ds, security_mode |-> RdLE(b, H + 4, 2),
                   capabilities |-> RdLE(b, H + 8, 4), client_guid |-> Take(b, H + 12, 16),
                   negotiate_contexts |-> ctxs.val])
          ELSE Bad

EncodeNegotiateResponse(m) ==
  LET ctx == EncodeAll(m.negotiate_contexts)
      after == H + 64 + Len(ctx)
      body == LE(65, 2) \o LE(m.security_mode, 2) \o LE(m.dialect_revision, 2)
              \o LE(Len(m.negotiate_contexts), 2)
              \o LE(IF ctx = <<>> THEN 0 ELSE H + 64, 4) \o m.server_guid
              \o LE(m.capabilities, 4) \o LE(m.max_transact_size, 4)
              \o LE(m.max_read_size, 4) \o LE(m.max_write_size, 4)
              \o LE64(m.system_time) \o LE64(m.boot_time)
              \o LE(IF m.security_buffer = <<>> THEN 0 ELSE after + PadTo(after, 8), 2)
              \o LE(Len(m.security_buffer), 2) \o ctx
  IN Response(0, IF m.security_buffer = <<>> THEN body
                 ELSE Align(body, 8) \o m.security_buffer)

DecodeNegotiateResponse(b) ==
  IF ~ Body(b, 64, 65) THEN Bad
  ELSE LET off == RdLE(b, H + 60, 2)
           n == RdLE(b, H + 62, 2)
           ctxs == DecodeContexts(b, RdLE(b, H + 8, 4), RdLE(b, H + 6, 2))
       IN IF Within(b, off, n) /\ ctxs.ok
          THEN Ok([security_mode |-> RdLE(b, H + 2, 2), dialect_revision |-> RdLE(b, H + 4, 2),
                   server_guid |-> Take(b, H + 12, 16), capabilities |-> RdLE(b, H + 28, 4),
                   max_transact_size |-> RdLE(b, H + 32, 4), max_read_size |-> RdLE(b, H + 36, 4),
                   max_write_size |-> RdLE(b, H + 40, 4), system_time |-> Take(b, H + 44, 8),
                   boot_time |-> Take(b, H + 52, 8), security_buffer |-> Part(b, off, n),
                   negotiate_contexts |-> ctxs.val])
          ELSE Bad

-----------------------------------------------------------------------------
(* Session setup.  Only the low byte of the security mode is on the wire. *)
EncodeSessionSetupRequest(m) ==
  Request(1, LE(25, 2) \o LE(m.flags, 1) \o LE(m.security_mode % 256, 1)
             \o LE(m.capabilities, 4) \o LE(m.channel, 4) \o LE(H + 24, 2)
             \o LE(Len(m.security_buffer), 2) \o LE64(m.previous_session_id)
             \o m.security_buffer)

DecodeSessionSetupRequest(b) ==
  IF ~ Body(b, 24, 25) THEN Bad
  ELSE LET off == RdLE(b, H + 12, 2)
           n == RdLE(b, H + 14, 2)
       IN IF ~ Within(b, off, n) THEN Bad
          ELSE Ok([flags |-> RdLE(b, H + 2, 1), security_mode |-> RdLE(b, H + 3, 1),
                   capabilities |-> RdLE(b, H + 4, 4), channel |-> RdLE(b, H + 8, 4),
                   previous_session_id |-> Take(b, H + 16, 8),
                   security_buffer |-> Part(b, off, n)])

EncodeSessionSetupResponse(m) ==
  Response(1, LE(9, 2) \o LE(m.session_flags, 2) \o LE(H + 8, 2)
              \o LE(Len(m.security_buffer), 2) \o m.security_buffer)

DecodeSessionSetupResponse(b) ==
  IF ~ Body(b, 8, 9) THEN Bad
  ELSE LET off == RdLE(b, H + 4, 2)
           n == RdLE(b, H + 6, 2)
       IN IF ~ Within(b, off, n) THEN Bad
          ELSE Ok([session_flags |-> RdLE(b, H + 2, 2), security_buffer |-> Part(b, off, n)])

(* Tree connect. *)
EncodeTreeConnectRequest(m) ==
  Request(3, LE(9, 2) \o Zeros(2) \o LE(H + 8, 2) \o LE(2 * Len(m.path), 2) \o Utf16(m.path))

DecodeTreeConnectRequest(b) ==
  IF ~ Body(b, 8, 9) THEN Bad
  ELSE LET off == RdLE(b, H + 4, 2)
           n == RdLE(b, H + 6, 2)
       IN IF Within(b, off, n) THEN Ok([path |-> FromUtf16(Part(b, off, n))]) ELSE Bad

EncodeTreeConnectResponse(m) ==
  Response(3, LE(16, 2) \o LE(m.share_type, 1) \o Zeros(1) \o LE(m.share_flags, 4)
              \o LE(m.capabilities, 4) \o LE(m.maximal_access, 4))

DecodeTreeConnectResponse(b) ==
  IF ~ Body(b, 16, 16) THEN Bad
  ELSE Ok([share_type |-> RdLE(b, H + 2, 1), share_flags |-> RdLE(b, H + 4, 4),
           capabilities |-> RdLE(b, H + 8, 4), maximal_access |-> RdLE(b, H + 12, 4)])

(* Create. *)
EncodeCreateRequest(m) ==
  Request(5, LE(57, 2) \o LE(m.oplock_level, 1) \o Zeros(1) \o LE(m.impersonation_level, 4)
             \o LE64(m.smb_create_flags) \o Zeros(8) \o LE(m.desired_access, 4)
             \o LE(m.file_attributes, 4) \o LE(m.share_access, 4)
             \o LE(m.create_disposition, 4) \o LE(m.create_options, 4)
             \o LE(H + 56, 2) \o LE(2 * Len(m.name), 2) \o Zeros(8) \o Utf16(m.name))

DecodeCreateRequest(b) ==
  IF ~ Body(b, 56, 57) THEN Bad
  ELSE LET off == RdLE(b, H + 44, 2)
           n == RdLE(b, H + 46, 2)
       IN IF ~ Within(b, off, n) THEN Bad
          ELSE Ok([oplock_level |-> RdLE(b, H + 2, 1), impersonation_level |-> RdLE(b, H + 4, 4),
                   smb_create_flags |-> Take(b, H + 8, 8), desired_access |-> RdLE(b, H + 24, 4),
                   file_attributes |-> RdLE(b, H + 28, 4), share_access |-> RdLE(b, H + 32, 4),
                   create_disposition |-> RdLE(b, H + 36, 4),
                   create_options |-> RdLE(b, H + 40, 4), name |-> FromUtf16(Part(b, off, n))])

EncodeCreateResponse(m) ==
  Response(5, LE(89, 2) \o LE(m.oplock_level, 1) \o LE(m.flags, 1) \o LE(m.create_action, 4)
              \o FlattenSeq([i \in 1..6 |-> LE64(m.times_and_sizes[i])])
              \o LE(m.file_attributes, 4) \o Zeros(4) \o m.file_id \o Zeros(8))

DecodeCreateResponse(b) ==
  IF ~ Body(b, 88, 89) THEN Bad
  ELSE Ok([oplock_level |-> RdLE(b, H + 2, 1), flags |-> RdLE(b, H + 3, 1),
           create_action |-> RdLE(b, H + 4, 4),
           times_and_sizes |-> [i \in 1..6 |-> Take(b, H + 8 * i, 8)],
           file_attributes |-> RdLE(b, H + 56, 4), file_id |-> Take(b, H + 64, 16)])

(* Read. *)
EncodeReadRequest(m) ==
  Request(8, LE(49, 2) \o Zeros(2) \o LE(m.length, 4) \o LE64(m.offset) \o m.file_id
             \o LE(m.minimum_count, 4) \o Zeros(12))

DecodeReadRequest(b) ==
  IF ~ Body(b, 48, 49) THEN Bad
  ELSE Ok([length |-> RdLE(b, H + 4, 4), offset |-> Take(b, H + 8, 8),
           file_id |-> Take(b, H + 16, 16), minimum_count |-> RdLE(b, H + 32, 4)])

EncodeReadResponse(m) ==
  Response(8, Align(LE(17, 2) \o LE(H + 16, 1) \o Zeros(1) \o LE(Len(m.data), 4) \o Zeros(8), 8)
              \o m.data)

DecodeReadResponse(b) ==
  IF ~ Body(b, 16, 17) THEN Bad
  ELSE LET off == RdLE(b, H + 2, 1)
           n == RdLE(b, H + 4, 4)
       IN IF Within(b, off, n) THEN Ok([data |-> Part(b, off, n)]) ELSE Bad

(* Write. *)
EncodeWriteRequest(m) ==
  Request(9, LE(49, 2) \o LE(H + 48, 1) \o Zeros(1) \o LE(Len(m.data), 4) \o LE64(m.offset)
             \o m.file_id \o Zeros(16) \o m.data)

DecodeWriteRequest(b) ==
  IF ~ Body(b, 48, 49) THEN Bad
  ELSE LET off == RdLE(b, H + 2, 1)
           n == RdLE(b, H + 4, 4)
       IN IF ~ Within(b, off, n) THEN Bad
          ELSE Ok([offset |-> Take(b, H + 8, 8), file_id |-> Take(b, H + 16, 16),
                   data |-> Part(b, off, n)])

EncodeWriteResponse(m) ==
  Response(9, LE(17, 2) \o Zeros(2) \o LE(m.count, 4) \o Zeros(8))

DecodeWriteResponse(b) ==
  IF Body(b, 16, 17) THEN Ok([count |-> RdLE(b, H + 4, 4)]) ELSE Bad

(* Close. *)
EncodeCloseRequest(m) ==
  Request(6, LE(24, 2) \o LE(m.flags, 2) \o Zeros(4) \o m.file_id)

DecodeCloseRequest(b) ==
  IF ~ Body(b, 24, 24) THEN Bad
  ELSE Ok([flags |-> RdLE(b, H + 2, 2), file_id |-> Take(b, H + 8, 16)])

EncodeCloseResponse(m) ==
  Response(6, LE(60, 2) \o LE(m.flags, 2) \o Zeros(4)
              \o FlattenSeq([i \in 1..6 |-> LE64(m.times_and_sizes[i])])
              \o LE(m.file_attributes, 4))

DecodeCloseResponse(b) ==
  IF ~ Body(b, 60, 60) THEN Bad
  ELSE Ok([flags |-> RdLE(b, H + 2, 2),
           times_and_sizes |-> [i \in 1..6 |-> Take(b, H + 8 * i, 8)],
           file_attributes |-> RdLE(b, H + 56, 4)])

(* Logoff and echo carry nothing but their size. *)
EncodeLogoff(m) == Request(2, LE(4, 2) \o Zeros(2))

DecodeLogoff(b) == IF Body(b, 4, 4) THEN Ok([empty |-> TRUE]) ELSE Bad

EncodeEcho(m) == Response(13, LE(4, 2) \o Zeros(2))

DecodeEcho(b) == IF Body(b, 4, 4) THEN Ok([empty |-> TRUE]) ELSE Bad

(* The transform header in front of an encrypted message. *)
EncodeTransform(m) ==
  TRANSFORM_MAGIC \o m.signature \o m.nonce \o LE(m.original_message_size, 4) \o Zeros(2)
  \o LE(m.flags, 2) \o LE64(m.session_id)

DecodeTransform(b) ==
  IF Len(b) < 52 \/ Take(b, 0, 4) # TRANSFORM_MAGIC THEN Bad
  ELSE Ok([signature |-> Take(b, 4, 16), nonce |-> Take(b, 20, 16),
           original_message_size |-> RdLE(b, 36, 4), flags |-> RdLE(b, 42, 2),
           session_id |-> Take(b, 44, 8)])

(* The NetBIOS session frame: a type and a 24-bit length. *)
EncodeFrame(payload) == <<0>> \o BE(Len(payload), 3) \o payload

PeekHeader(b) == IF Len(b) < 4 THEN Bad ELSE Ok(<<b[1], RdBE(b, 1, 3)>>)

(* What the connection loops do with it: the payload, if all of it is there. *)
ReadFrame(b) ==
  LET h == PeekHeader(b)
  IN IF ~ h.ok THEN Bad
     ELSE IF h.val[1] # 0 \/ ~ Has(b, 4, h.val[2]) THEN Bad ELSE Ok(Take(b, 4, h.val[2]))

-----------------------------------------------------------------------------
(* The messages as client and server build them. *)
Nil64 == Zeros(8)

Contexts311(salt) ==
  <<PreauthIntegrity(<<1>>, salt), AlgorithmList(2, <<4, 2>>), AlgorithmList(7, <<2, 0>>)>>

NegotiateRequest311(guid, salt) ==
  [dialects |-> <<785>>, security_mode |-> 1, capabilities |-> 68, client_guid |-> guid,
   negotiate_contexts |-> Contexts311(salt)]

NegotiateResponse311(guid, salt) ==
  [security_mode |-> 1, dialect_revision |-> 785, server_guid |-> guid, capabilities |-> 4,
   max_transact_size |-> MAX_SMB2_MESSAGE_SIZE, max_read_size |-> MAX_SMB2_MESSAGE_SIZE,
   max_write_size |-> MAX_SMB2_MESSAGE_SIZE,
   system_time |-> Nil64, boot_time |-> Nil64, security_buffer |-> <<>>,
   negotiate_contexts |-> Contexts311(salt)]

SessionSetupRequest(buffer) ==
  [flags |-> 0, security_mode |-> 1, capabilities |-> 0, channel |-> 0,
   previous_session_id |-> Nil64, security_buffer |-> buffer]

SessionSetupResponse == [session_flags |-> 0, security_buffer |-> <<>>]

TreeConnectDisk == [share_type |-> 1, share_flags |-> 0, capabilities |-> 0, maximal_access |-> 2032127]

CreateRequest(name) ==
  [oplock_level |-> 0, impersonation_level |-> 2, smb_create_flags |-> Nil64, desired_access |-> 1507465,
   file_attributes |-> 128, share_access |-> 7, create_disposition |-> 3, create_options |-> 0, name |-> name]

CreateResponse(file_id, size) ==
  [oplock_level |-> 0, flags |-> 0, create_action |-> 1,
   times_and_sizes |-> <<Nil64, Nil64, Nil64, Nil64, size, size>>, file_attributes |-> 128, file_id |-> file_id]

ReadRequest(file_id, offset, length) ==
  [length |-> length, offset |-> offset, file_id |-> file_id, minimum_count |-> 1]

WriteRequest(file_id, offset, data) == [offset |-> offset, file_id |-> file_id, data |-> data]

CloseRequest(file_id) == [flags |-> 0, file_id |-> file_id]

CloseResponse == [flags |-> 0, times_and_sizes |-> [i \in 1..6 |-> Nil64], file_attributes |-> 0]

TransformHeader(size, session_id) ==
  [signature |-> Zeros(16), nonce |-> Zeros(16), original_message_size |-> size, flags |-> 1,
   session_id |-> session_id]
=============================================================================
