----------------------------- MODULE SmbService -----------------------------
(***************************************************************************)
(* adrian-smb-server's connection handlers, with an adrian-smb-client on   *)
(* the other end of some connections and a peer that sends what it likes   *)
(* on the others.  A connection answers one request at a time and has its  *)
(* own ConnectionState; the shares and their files are common to all.      *)
(***************************************************************************)
EXTENDS Naturals, Sequences

CONSTANTS
  Client, Peer,           \* connections, by what drives the far end
  Registered,             \* names given to with_shares
  Path,
  UncPath,                \* arguments of tree_connect: sequences of names
  PeerRequest,            \* what a peer may send
  Offset, Datum,          \* offsets and byte strings of reads and writes
  MaxSent,                \* bound: requests sent on each connection
  NoShare, NoFile, NoReply, Idle

Conn == Client \cup Peer

\* A name, by its letters and whether any of them is a capital.
Name(letters, capitals) == [letters |-> letters, capitals |-> capitals]

VARIABLES
  files,       \* VirtualFs of each share: contents by path, or NoFile
  conn,        \* ConnectionState of each connection
  client,      \* the session_id and tree_id fields of each SmbClient
  wire,        \* the request in progress on a connection and its reply, or Idle
  sent,        \* requests sent so far
  connected,   \* share of the client's last successful tree_connect
  held         \* handles its create calls returned and it has not closed

smbVars == <<files, conn, client, wire, sent, connected, held>>

Empty == <<>>

Inserted(map, k, v) == [x \in DOMAIN map \cup {k} |-> IF x = k THEN v ELSE map[x]]

NewSession == [tree_id |-> 0, share |-> NoShare, open_files |-> Empty]

ConnectionState ==
  [next_session_id |-> 1, next_tree_id |-> 1, next_file |-> 1, sessions |-> Empty]

SmbClientNew == [session_id |-> 0, tree_id |-> 0]

SmbInit ==
  /\ files = [s \in Registered |-> [p \in Path |-> NoFile]]
  /\ conn = [c \in Conn |-> ConnectionState]
  /\ client = [c \in Client |-> SmbClientNew]
  /\ wire = [c \in Conn |-> Idle]
  /\ sent = [c \in Conn |-> 0]
  /\ connected = [c \in Client |-> NoShare]
  /\ held = [c \in Client |-> {}]

-----------------------------------------------------------------------------
(* SmbClient: each method sends one request under its session_id.          *)

Send(c, r) ==
  /\ wire[c] = Idle /\ sent[c] < MaxSent[c]
  /\ wire' = [wire EXCEPT ![c] = [request |-> r, reply |-> NoReply]]
  /\ sent' = [sent EXCEPT ![c] = @ + 1]
  /\ UNCHANGED <<files, conn, client, connected, held>>

OwnRequest(c) ==
  LET id == client[c].session_id IN
  [cmd : {"negotiate", "session_setup", "logoff"}, session : {id}]
    \cup [cmd : {"tree_connect"}, session : {id}, unc : UncPath]
    \cup [cmd : {"create"}, session : {id}, path : Path, disposition : {3}]
    \cup [cmd : {"close"}, session : {id}, file : {h.file : h \in held[c]}]
    \cup [cmd : {"read"}, session : {id}, file : {h.file : h \in held[c]}, offset : Offset, length : {1}]
    \cup [cmd : {"write"}, session : {id}, file : {h.file : h \in held[c]}, offset : Offset, data : Datum]

ClientSend(c) == \E r \in OwnRequest(c) : Send(c, r)

PeerSend(c) == \E r \in PeerRequest : Send(c, r)

\* round_trip gives up on any status but success; the caller then changes nothing.
ClientReceive(c) ==
  LET r == wire[c].request
      a == wire[c].reply
      ok == a.status = "SUCCESS"
  IN /\ wire[c] # Idle /\ a # NoReply
     /\ wire' = [wire EXCEPT ![c] = Idle]
     /\ client' = [client EXCEPT
          ![c].session_id = IF r.cmd = "session_setup" /\ a.session # 0 THEN a.session ELSE @,
          ![c].tree_id = IF r.cmd = "tree_connect" /\ ok /\ a.tree # 0 THEN a.tree ELSE @]
     /\ connected' = [connected EXCEPT ![c] =
          CASE ok /\ r.cmd = "tree_connect" -> a.share
            [] ok /\ r.cmd = "logoff" -> NoShare
            [] OTHER -> @]
     /\ held' = [held EXCEPT ![c] =
          CASE ok /\ r.cmd = "create" -> @ \cup {[file |-> a.file, path |-> r.path, share |-> connected[c]]}
            [] ok /\ r.cmd = "close" -> {h \in @ : h.file # r.file}
            [] ok /\ r.cmd = "logoff" -> {}
            [] OTHER -> @]
     /\ UNCHANGED <<files, conn, sent>>

PeerReceive(c) ==
  /\ wire[c] # Idle /\ wire[c].reply # NoReply
  /\ wire' = [wire EXCEPT ![c] = Idle]
  /\ UNCHANGED <<files, conn, client, sent, connected, held>>

-----------------------------------------------------------------------------
(* VirtualFs.                                                              *)

FsRead(f, offset, length) ==
  IF offset >= Len(f) THEN <<>> ELSE SubSeq(f, offset + 1, IF offset + length < Len(f) THEN offset + length ELSE Len(f))

FsWrite(f, offset, data) ==
  [i \in 1 .. (IF Len(f) < offset + Len(data) THEN offset + Len(data) ELSE Len(f)) |->
     IF i \in offset + 1 .. offset + Len(data) THEN data[i - offset]
     ELSE IF i <= Len(f) THEN f[i] ELSE 0]

-----------------------------------------------------------------------------
(* ConnectionHandler.  A handler answers the request on the wire; the      *)
(* reply repeats the request's session unless the handler says otherwise.  *)

Pending(c, cmd) ==
  wire[c] # Idle /\ wire[c].reply = NoReply /\ wire[c].request.cmd = cmd

Reply(c, a) ==
  /\ wire' = [wire EXCEPT ![c].reply =
       IF "session" \in DOMAIN a THEN a ELSE Inserted(a, "session", wire[c].request.session)]
  /\ UNCHANGED <<client, sent, connected, held>>

Succeed(c) == Reply(c, [status |-> "SUCCESS"])

ErrorResponse(c, status) == Reply(c, [status |-> status]) /\ UNCHANGED <<files, conn>>

Sessions(c) == conn[c].sessions

ShareForSession(c, id) == IF id \in DOMAIN Sessions(c) THEN Sessions(c)[id].share ELSE NoShare

LookupOpenFile(c, id, file) ==
  IF id \in DOMAIN Sessions(c) /\ file \in DOMAIN Sessions(c)[id].open_files
  THEN Sessions(c)[id].open_files[file] ELSE NoFile

AllocSession(state, session) ==
  [state EXCEPT !.next_session_id = @ + 1, !.sessions = Inserted(@, state.next_session_id, session)]

HandleNegotiate(c) ==
  Pending(c, "negotiate") /\ Succeed(c) /\ UNCHANGED <<files, conn>>

\* A request under a session id is accepted whether or not the session exists.
HandleSessionSetup(c) ==
  LET id == wire[c].request.session IN
  /\ Pending(c, "session_setup")
  /\ \/ /\ id = 0
        /\ conn' = [conn EXCEPT ![c] = AllocSession(@, NewSession)]
        /\ Reply(c, [status |-> "SUCCESS", session |-> conn[c].next_session_id])
     \/ /\ id # 0
        /\ Succeed(c) /\ UNCHANGED conn
  /\ UNCHANGED files

HandleLogoff(c) ==
  /\ Pending(c, "logoff") /\ Succeed(c)
  /\ conn' = [conn EXCEPT ![c].sessions =
       [id \in DOMAIN @ \ {wire[c].request.session} |-> @[id]]]
  /\ UNCHANGED files

ParseShareName(unc) == IF Len(unc) < 2 THEN Name("", FALSE) ELSE [unc[2] EXCEPT !.capitals = FALSE]

\* Mutant: tree_connect that starts the session afresh.
AttachForgetting(state, id, share) ==
  LET connects == [tree_id |-> state.next_tree_id, share |-> share, open_files |-> Empty]
      next == [state EXCEPT !.next_tree_id = @ + 1]
  IN IF id \in DOMAIN state.sessions THEN [next EXCEPT !.sessions[id] = connects] ELSE AllocSession(next, connects)

\* A session that the server does not know gets one that the client is not told of.
Attach(state, id, share) ==
  LET next == [state EXCEPT !.next_tree_id = @ + 1]
      To(session) == [session EXCEPT !.tree_id = state.next_tree_id, !.share = share]
  IN IF id \in DOMAIN state.sessions THEN [next EXCEPT !.sessions[id] = To(@)]
     ELSE AllocSession(next, To(NewSession))

HandleTreeConnect(c) ==
  LET r == wire[c].request
      share == ParseShareName(r.unc)
  IN /\ Pending(c, "tree_connect")
     /\ \/ share \notin Registered /\ ErrorResponse(c, "BAD_NETWORK_NAME")
        \/ /\ share \in Registered
           /\ conn' = [conn EXCEPT ![c] = Attach(@, r.session, share)]
           /\ Reply(c, [status |-> "SUCCESS", tree |-> conn[c].next_tree_id, share |-> share])
           /\ UNCHANGED files

HandleTreeDisconnect(c) ==
  LET id == wire[c].request.session IN
  /\ Pending(c, "tree_disconnect") /\ Succeed(c)
  /\ conn' = IF id \in DOMAIN Sessions(c)
             THEN [conn EXCEPT ![c].sessions[id].share = NoShare, ![c].sessions[id].open_files = Empty]
             ELSE conn
  /\ UNCHANGED files

\* What the create disposition makes of a path: its new contents, or a status.
Disposed(f, disposition) ==
  CASE disposition = 1 -> IF f = NoFile THEN "NO_SUCH_FILE" ELSE "keep"
    [] disposition = 2 -> IF f # NoFile THEN "OBJECT_NAME_COLLISION" ELSE "empty"
    [] disposition = 3 -> IF f = NoFile THEN "empty" ELSE "keep"
    [] disposition = 4 -> IF f = NoFile THEN "NO_SUCH_FILE" ELSE "empty"
    [] disposition = 5 -> "empty"
    [] OTHER -> "keep"

\* The file id is spent before the disposition is looked at.
HandleCreate(c) ==
  LET r == wire[c].request
      share == ShareForSession(c, r.session)
      outcome == Disposed(files[share][r.path], r.disposition)
      id == conn[c].next_file
      opened == [path |-> r.path, share |-> share]
  IN /\ Pending(c, "create")
     /\ \/ share = NoShare /\ ErrorResponse(c, "ACCESS_DENIED")
        \/ /\ share # NoShare /\ outcome \notin {"keep", "empty"}
           /\ conn' = [conn EXCEPT ![c].next_file = @ + 1]
           /\ Reply(c, [status |-> outcome]) /\ UNCHANGED files
        \/ /\ share # NoShare /\ outcome \in {"keep", "empty"}
           /\ files' = IF outcome = "empty" THEN [files EXCEPT ![share][r.path] = <<>>] ELSE files
           /\ conn' = [conn EXCEPT ![c].next_file = @ + 1,
                                   ![c].sessions[r.session].open_files = Inserted(@, id, opened)]
           /\ Reply(c, [status |-> "SUCCESS", file |-> id])

HandleClose(c) ==
  LET r == wire[c].request IN
  /\ Pending(c, "close") /\ Succeed(c)
  /\ conn' = IF r.session \in DOMAIN Sessions(c)
             THEN [conn EXCEPT ![c].sessions[r.session].open_files =
                     [id \in DOMAIN @ \ {r.file} |-> @[id]]]
             ELSE conn
  /\ UNCHANGED files

HandleRead(c) ==
  LET r == wire[c].request
      open == LookupOpenFile(c, r.session, r.file)
  IN /\ Pending(c, "read")
     /\ \/ open = NoFile /\ ErrorResponse(c, "FILE_CLOSED")
        \/ /\ open # NoFile /\ UNCHANGED <<files, conn>>
           /\ LET f == files[open.share][open.path] IN
              Reply(c, IF f = NoFile THEN [status |-> "FILE_CLOSED"]
                       ELSE [status |-> "SUCCESS", data |-> FsRead(f, r.offset, r.length)])

HandleWrite(c) ==
  LET r == wire[c].request
      open == LookupOpenFile(c, r.session, r.file)
  IN /\ Pending(c, "write")
     /\ \/ open = NoFile /\ ErrorResponse(c, "FILE_CLOSED")
        \/ /\ open # NoFile /\ UNCHANGED conn
           /\ LET f == files[open.share][open.path] IN
              IF f = NoFile THEN Reply(c, [status |-> "FILE_CLOSED"]) /\ UNCHANGED files
              ELSE /\ files' = [files EXCEPT ![open.share][open.path] = FsWrite(f, r.offset, r.data)]
                   /\ Reply(c, [status |-> "SUCCESS", count |-> Len(r.data)])

HandleEcho(c) == Pending(c, "echo") /\ Succeed(c) /\ UNCHANGED <<files, conn>>

\* dispatch_frame's last arm.
HandleOther(c) == Pending(c, "query_info") /\ ErrorResponse(c, "INVALID_DEVICE_REQUEST")

DispatchFrame(c) ==
  \/ HandleNegotiate(c) \/ HandleSessionSetup(c) \/ HandleLogoff(c)
  \/ HandleTreeConnect(c) \/ HandleTreeDisconnect(c)
  \/ HandleCreate(c) \/ HandleClose(c) \/ HandleRead(c) \/ HandleWrite(c)
  \/ HandleEcho(c) \/ HandleOther(c)

SmbNext ==
  \/ \E c \in Conn : DispatchFrame(c)
  \/ \E c \in Client : ClientSend(c) \/ ClientReceive(c)
  \/ \E c \in Peer : PeerSend(c) \/ PeerReceive(c)

SmbSpec == SmbInit /\ [][SmbNext]_smbVars

-----------------------------------------------------------------------------
(* Between calls, the client and the server agree on the client's handles: *)
(* each one that create returned and close did not take back is open in    *)
(* the session the client names, on the path it asked for and the share it *)
(* was connected to then, whatever it connected to since, and its file is  *)
(* there, so that read and write do not answer STATUS_FILE_CLOSED.         *)
HandlesAgreed ==
  \A c \in Client : wire[c] = Idle =>
    \A h \in held[c] :
      LET open == LookupOpenFile(c, client[c].session_id, h.file) IN
      /\ open = [path |-> h.path, share |-> h.share]
      /\ files[h.share][h.path] # NoFile
=============================================================================
