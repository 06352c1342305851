----------------------------- MODULE MCFormats ------------------------------
(* Sample messages for every format: empty and non-empty lists and texts,  *)
(* lengths around the alignments and the limits of the length fields.      *)
EXTENDS Formats, TLC

U64(n) == Smb!LE(n, 4) \o <<0, 0, 0, n % 7>>

Guid(n) == [i \in 1..16 |-> (16 * n + i) % 256]

Text(n) == [i \in 1..n |-> 96 + i]

Bytes(n) == [i \in 1..n |-> (37 * i) % 256]

Texts == {<<>>, Text(1), Text(4), <<233, 8364>>}

Contexts == {<<>>, <<Smb!PreauthIntegrity(<<1>>, Bytes(5))>>,
             <<Smb!PreauthIntegrity(<<1>>, Bytes(5)), Smb!AlgorithmList(2, <<2, 1>>)>>}

NegotiateResponse ==
  [security_mode |-> 3, dialect_revision |-> 785, server_guid |-> Guid(2), capabilities |-> 127,
   max_transact_size |-> 1048576, max_read_size |-> 65536, max_write_size |-> 8388608,
   system_time |-> U64(9), boot_time |-> U64(3), security_buffer |-> <<>>, negotiate_contexts |-> <<>>]

Times == [i \in 1..6 |-> U64(i)]

Smb2Samples ==
  [header |-> {[Smb!NewRequest(5, U64(7)) EXCEPT !.flags = 8, !.credits = 31, !.tree_id = 70000],
               Smb!NewResponse(Smb!NewRequest(8, U64(2)))},
   negotiate_request |->
     {[dialects |-> d, security_mode |-> 1, capabilities |-> 127, client_guid |-> Guid(1),
       negotiate_contexts |-> c] : d \in {<<785>>, <<514, 528, 785>>}, c \in Contexts}
     \cup {Smb!NegotiateRequest311(Guid(1), Bytes(32))},
   negotiate_response |->
     {[NegotiateResponse EXCEPT !.negotiate_contexts = c, !.security_buffer = b]
      : c \in Contexts, b \in {<<>>, Bytes(1), Bytes(9), Smb!Zeros(9)}}
     \cup {Smb!NegotiateResponse311(Guid(1), Bytes(32))},
   session_setup_request |->
     {[flags |-> 0, security_mode |-> 1, capabilities |-> 1, channel |-> 0,
       previous_session_id |-> U64(4), security_buffer |-> Bytes(n)] : n \in {0, 3}}
     \cup {Smb!SessionSetupRequest(Bytes(4))},
   session_setup_response |->
     {[session_flags |-> 1, security_buffer |-> Bytes(3)], Smb!SessionSetupResponse},
   tree_connect_request |-> {[path |-> t] : t \in Texts},
   tree_connect_response |->
     {[share_type |-> 2, share_flags |-> 48, capabilities |-> 8, maximal_access |-> 7], Smb!TreeConnectDisk},
   create_request |->
     {[oplock_level |-> 8, impersonation_level |-> 2, smb_create_flags |-> U64(5), desired_access |-> 131097,
       file_attributes |-> 128, share_access |-> 7, create_disposition |-> 1, create_options |-> 64,
       name |-> t] : t \in Texts}
     \cup {Smb!CreateRequest(Text(5))},
   create_response |->
     {[oplock_level |-> 1, flags |-> 0, create_action |-> 2, times_and_sizes |-> Times,
       file_attributes |-> 32, file_id |-> Guid(3)], Smb!CreateResponse(Guid(4), U64(300))},
   read_request |-> {Smb!ReadRequest(Guid(2), U64(5), 70000), [length |-> 4096, offset |-> U64(6), file_id |-> Guid(3), minimum_count |-> 1]},
   read_response |-> {[data |-> Bytes(n)] : n \in {0, 1, 8}},
   write_request |-> {Smb!WriteRequest(Guid(3), U64(6), Bytes(n)) : n \in {0, 5}},
   write_response |-> {[count |-> 5]},
   close_request |-> {[flags |-> 1, file_id |-> Guid(4)], Smb!CloseRequest(Guid(5))},
   close_response |-> {[flags |-> 1, times_and_sizes |-> Times, file_attributes |-> 32], Smb!CloseResponse},
   logoff |-> {[empty |-> TRUE]},
   echo |-> {[empty |-> TRUE]},
   transform |-> {[signature |-> Guid(1), nonce |-> Guid(2), original_message_size |-> 300, flags |-> 1,
                   session_id |-> U64(8)], Smb!TransformHeader(9, U64(1))},
   preauth_context |-> {[algorithms |-> <<1, 2>>, salt |-> Bytes(n)] : n \in {0, 3}},
   encryption_context |-> {<<>>, <<2, 1>>},
   frame |-> {Bytes(n) : n \in {0, 7}}]

Bind == [rpc_vers |-> 5, rpc_vers_minor |-> 0, pfc_flags |-> 3, data_rep |-> 16, call_id |-> 9,
         max_xmit_frag |-> 5840, max_recv_frag |-> 4280, assoc_group_id |-> 77]

Syntaxes == [i \in 1..2 |-> [uuid |-> Guid(i), version |-> 2]]

Utd(n) == [dw_version |-> 2, entries |-> [i \in 1..n |->
             [usn_high |-> U64(i + 1), usn_low |-> U64(i), dsa_guid |-> Guid(i)]]]

DsNames == {[guid |-> Guid(1), sid |-> Bytes(n), name |-> t] : n \in {0, 6, 8}, t \in {<<>>, Text(1), Text(4)}}

Objects == [i \in 1..2 |-> [dn |-> Text(2 + i), uuid |-> Guid(i), usn_changed |-> U64(i),
              attributes |-> [j \in 1..i |-> [name |-> Text(j), value |-> Bytes(3 * j)]]]]

RpcSamples ==
  [ndr |-> {[array |-> Bytes(n), text |-> t, long |-> U64(3)] : n \in 0..3, t \in Texts},
   bind |-> {[context_elements |-> [i \in 1..n |-> [p_cont_id |-> i, iface |-> Guid(9), major |-> 4,
               minor |-> 1, transfer_syntaxes |-> SubSeq(Syntaxes, 1, i)]]] @@ Bind : n \in 0..2},
   bind_ack |-> {[sec_addr |-> Text(a), p_results |-> [i \in 1..n |->
                   [result |-> i - 1, reason |-> 0, transfer_syntax |-> Syntaxes[i]]]] @@ Bind
                 : a \in 0..3, n \in 0..2},
   pdu |-> {[call_id |-> 3, ctxt_id |-> 0, opnum |-> 4, stub |-> Bytes(n), following |-> Bytes(f)]
            : n \in {0, 5}, f \in {0, 20}},
   extensions |-> {[dw_flags |-> 3, site_obj_guid |-> Guid(5), pid |-> 12, dw_repl_epoch |-> 1,
                    dw_flags_ext |-> 8, extra |-> Bytes(n)] : n \in {0, 3, 4}},
   utd_vector |-> {Utd(n) : n \in 0..2},
   dsname |-> DsNames,
   get_changes |-> {[uuid_dsa_obj_dest |-> Guid(1), uuid_invoc_id_src |-> Guid(2), nc |-> d,
                     usn_vector |-> <<U64(1), U64(2)>>, utd_vector |-> Utd(1), ul_flags |-> 16,
                     c_max_objects |-> 100, c_max_bytes |-> 4096, ul_extended_op |-> 0,
                     li_fsmo_info |-> U64(0)] : d \in DsNames},
   changes_reply |-> {[c_num_objects |-> n, c_num_ncs |-> 1, p_objects |-> SubSeq(Objects, 1, n),
                       f_more_data |-> n = 1, utd_vector |-> Utd(n)] : n \in 0..2}]

(* Extensions of a client, and those it has in common with the server. *)
Extensions == {<<1, 1>>, <<3, 1>>, <<67, 65>>, <<65791, 65745>>, <<64, 0>>}

(* Two naming contexts, one below the other, an object of neither, and one that
   ends with a naming context's DN in the middle of an RDN. *)
DnText == [dc |-> <<68, 67, 61, 100>>, ou |-> <<79, 85, 61, 117>>, a |-> <<67, 78, 61, 97>>, b |-> <<67, 78, 61, 98>>]

Joined(names) == IF Len(names) = 1 THEN DnText[names[1]]
                 ELSE IF Len(names) = 2 THEN DnText[names[1]] \o <<44>> \o DnText[names[2]]
                 ELSE DnText[names[1]] \o <<44>> \o DnText[names[2]] \o <<44>> \o DnText[names[3]]

SourceDns == <<Joined(<<"b", "dc">>), Joined(<<"a", "ou", "dc">>), DnText.dc, Joined(<<"ou", "dc">>),
               Joined(<<"b", "a">>), DnText.b \o DnText.dc>>

Source == [i \in DOMAIN SourceDns |->
  [dn |-> SourceDns[i], uuid |-> Guid(i),
   attributes |-> [j \in 1..(i % 3) |-> [name |-> Text(j), value |-> Bytes(3 * j)]]]]

ChangesRequest(nc, max) ==
  [uuid_dsa_obj_dest |-> Guid(1), uuid_invoc_id_src |-> Guid(2), nc |-> Drs!FromDn(nc),
   usn_vector |-> <<U64(1), U64(2)>>, utd_vector |-> Utd(1), ul_flags |-> 16, c_max_objects |-> max,
   c_max_bytes |-> 4096, ul_extended_op |-> 0, li_fsmo_info |-> U64(0)]

AnswerSamples ==
  [drs_bind |-> {[client |-> [dw_flags |-> e[1], site_obj_guid |-> Guid(5), pid |-> 12, dw_repl_epoch |-> 1,
                              dw_flags_ext |-> 8, extra |-> Bytes(3)],
                  common |-> e[2], handle |-> Guid(7)] : e \in Extensions},
   nc_changes |-> {[objects |-> Source, invocation_id |-> Guid(3), request |-> ChangesRequest(nc, max)]
                   : nc \in {<<>>, DnText.dc, Joined(<<"ou", "dc">>)}, max \in {0, 1, 2, 9}}]

(* LDAP: an attribute whose value makes every length around it long. *)
Attributes == <<[name |-> Text(2), vals |-> <<Bytes(3), <<>>>>], [name |-> Text(3), vals |-> <<>>]>>

LdapResult(code) == [result_code |-> code, matched_dn |-> Text(2), diagnostic_message |-> <<>>]

Simple == {[kind |-> k, attribute |-> Text(2), value |-> v]
           : k \in {"equality", "ge", "le", "approx"}, v \in {<<>>, <<42, 40>>, <<92, 97, 0>>}}
          \cup {[kind |-> "present", attribute |-> Text(3)]}

Eq == [kind |-> "equality", attribute |-> Text(1), value |-> <<41>>]

Nested == {[kind |-> "not", subs |-> <<Eq>>],
           [kind |-> "and", subs |-> <<Eq, [kind |-> "or", subs |-> <<Eq, Eq>>]>>],
           [kind |-> "or", subs |-> <<Eq, [kind |-> "and", subs |-> <<>>]>>]}

Substrings ==
  {[kind |-> "substrings", attribute |-> Text(1), parts |-> p]
   : p \in {<<>>, <<[kind |-> "initial", value |-> Text(1)], [kind |-> "any", value |-> <<42>>],
                    [kind |-> "final", value |-> Text(2)]>>}}

Search(f) ==
  [op |-> "search_request", base_dn |-> Text(3), scope |-> 2, deref_aliases |-> 0, size_limit |-> 1000,
   time_limit |-> 0, types_only |-> FALSE, filter |-> f, attributes |-> <<Text(2), <<42>>>>]

Ops ==
  {[op |-> "bind_request", version |-> 3, name |-> t, auth |-> "simple", password |-> Bytes(3)] : t \in {<<>>, Text(3)}}
  \cup {[op |-> "bind_request", version |-> 3, name |-> Text(3), auth |-> "sasl", mechanism |-> Text(4), creds |-> c]
        : c \in {<<>>, <<Bytes(2)>>}}
  \cup {[op |-> "bind_response", result |-> LdapResult(49), creds |-> c] : c \in {<<>>, <<Bytes(3)>>}}
  \cup {[op |-> "unbind"]}
  \cup {Search(f) : f \in Nested \cup Substrings \cup {[kind |-> "present", attribute |-> Text(3)]}}
  \cup {[op |-> o, dn |-> Text(3), attributes |-> a] : o \in {"search_entry", "add_request"}, a \in {<<>>, Attributes}}
  \cup {[op |-> "search_entry", dn |-> Text(3), attributes |-> <<[name |-> Text(1), vals |-> <<Bytes(n)>>]>>]
        : n \in {130, 260}}
  \cup {[op |-> "modify_request", object |-> Text(3), changes |-> [i \in 1..n |->
           [operation |-> i - 1, modification |-> Attributes[1]]]] : n \in {0, 3}}
  \cup {[op |-> "del_request", dn |-> Text(3)]}
  \cup {[op |-> o, result |-> LdapResult(c)]
        : o \in {"search_done", "modify_response", "add_response", "del_response"}, c \in {0, 32}}

(* A tree that is searched: DNs with and without a space, before the base and
   inside it, in either case, and one whose RDN ends like the base. *)
Lowered(dn) == Lda!ToLower(dn)

Cn == <<99, 110>>

Sn == <<83, 78>>

Entry(dn, values) == [dn |-> dn, attributes |-> [i \in DOMAIN values |-> [name |-> Cn, value |-> values[i]]]
                                                \o <<[name |-> Sn, value |-> Text(2)]>>]

Ab == <<97, 98>>

Tree ==
  <<Entry(DnText.dc, <<>>), Entry(Joined(<<"ou", "dc">>), <<Ab>>),
    Entry(DnText.a \o <<44, 32>> \o Joined(<<"ou", "dc">>), <<Ab \o Ab, <<65>>>>),
    Entry(Joined(<<"b", "ou", "dc">>), <<<<65, 66, 99, 65, 66>>>>),
    Entry(Lowered(Joined(<<"a", "b">>)), <<<<97, 98, 97>>>>),
    Entry(DnText.a \o Joined(<<"ou", "dc">>), <<<<98>>>>),
    Entry(Joined(<<"b", "ou">>) \o <<44, 32>> \o DnText.dc, <<Ab>>),
    Entry(Lowered(Joined(<<"a", "dc">>)), <<Ab \o <<120>> \o Ab, Ab \o Ab>>)>>

Part(kind, v) == [kind |-> kind, value |-> v]

SearchFilters ==
  {[kind |-> "substrings", attribute |-> <<67, 110>>, parts |-> p]
   : p \in {<<Part("initial", Ab)>>, <<Part("final", <<66>>)>>, <<Part("initial", Ab), Part("final", Ab)>>,
             <<Part("initial", <<97, 98, 97>>), Part("final", <<98, 97, 98>>)>>,
             <<Part("any", Ab), Part("any", Ab)>>, <<Part("any", <<98, 97>>), Part("final", Ab)>>,
             <<Part("initial", <<97>>), Part("any", <<98>>), Part("any", <<>>), Part("final", <<97, 98>>)>>}}
  \cup {[kind |-> k, attribute |-> Cn, value |-> v] : k \in {"equality", "approx", "ge", "le"}, v \in {Ab, <<97, 66>>}}

SearchFor(base, scope, filter, wanted) ==
  [objects |-> Tree,
   request |-> [op |-> "search_request", base_dn |-> base, scope |-> scope, deref_aliases |-> 0, size_limit |-> 0,
                time_limit |-> 0, types_only |-> FALSE, filter |-> filter, attributes |-> wanted]]

Present == [kind |-> "present", attribute |-> Cn]

SearchSamples ==
  [search |->
     {SearchFor(base, scope, Present, <<Cn>>)
      : base \in {<<>>, DnText.dc, Joined(<<"ou", "dc">>), Lowered(Joined(<<"ou", "dc">>)), DnText.b}, scope \in 0..3}
     \cup {SearchFor(<<>>, 2, f, <<>>) : f \in SearchFilters}
     \cup {SearchFor(DnText.dc, 2, [kind |-> k, subs |-> IF k = "not" THEN <<f>> ELSE <<f, Present>>], <<>>)
           : k \in {"and", "or", "not"}, f \in {[kind |-> "equality", attribute |-> Sn, value |-> Text(2)],
                                               [kind |-> "equality", attribute |-> Cn, value |-> Ab]}}
     \cup {SearchFor(DnText.dc, 2, Present, w) : w \in {<<<<42>>>>, <<<<49, 46, 49>>>>, <<Cn, <<115, 110>>>>}}]

LdapSamples ==
  [ldap |-> {[message_id |-> 7, protocol_op |-> o, controls |-> <<>>] : o \in Ops}
            \cup {[message_id |-> i, protocol_op |-> [op |-> "unbind"],
                   controls |-> <<[control_type |-> Text(3), criticality |-> TRUE, control_value |-> v]>>]
                  : i \in {0, -1, 127, 128, -129, 65536}, v \in {<<>>, <<Bytes(2)>>}},
   filter_text |-> Simple \cup Nested]

Key(n) == [i \in 1..32 |-> (i * n) % 256]

(* A text that is no GeneralString, and a time that is in no calendar. *)
Odd == "no GeneralString"

Never == 2000000000

Ticket == [tkt_vno |-> 5, realm |-> "EXAMPLE", sname |-> <<"krbtgt", "EXAMPLE">>, kvno |-> 2, etype |-> 18,
           enc_part |-> Bytes(4)]

KdcRep(t) == [pvno |-> 5, msg_type |-> t, crealm |-> "EXAMPLE", cname |-> <<"alice">>, ticket |-> Ticket,
              enc_part_etype |-> 18, enc_part_kvno |-> 1, enc_part |-> Bytes(3)]

KerberosSamples ==
  [pa_enc_ts_enc |-> {[patimestamp |-> t, pausec |-> u] : t \in {1000, -1, Never}, u \in {0, 5}},
   enc_ticket_part |-> {[flags |-> f, crealm |-> r, cname |-> <<n>>, session_key |-> Key(3),
                         authtime |-> 1, starttime |-> 2, endtime |-> 3, renew_till |-> t,
                         client_uuid |-> Guid(1)]
                        : f \in {0, 1082130432}, r \in {"EXAMPLE", Odd}, n \in {"alice", Odd}, t \in {4, Never}},
   ticket |-> {Ticket, [Ticket EXCEPT !.realm = Odd], [Ticket EXCEPT !.sname[2] = Odd]},
   enc_kdc_rep_part |-> {[session_key |-> Key(3), nonce |-> 5, last_req |-> 0, authtime |-> 1, starttime |-> 2,
                          endtime |-> t, renew_till |-> 4, crealm |-> r, cname |-> <<"alice">>]
                         : t \in {3, Never}, r \in {"EXAMPLE", Odd}},
   as_req |-> {[pvno |-> 5, msg_type |-> 10, realm |-> r, cname |-> n, nonce |-> 5,
                etypes |-> e, padata |-> p, till |-> 99]
               : e \in {<<>>, <<18, 17>>}, p \in {<<>>, <<[padata_type |-> 2, padata_value |-> Bytes(3)]>>},
                 r \in {"EXAMPLE", Odd}, n \in {<<"alice">>, <<"alice", Odd>>}},
   as_rep |-> {KdcRep(11), [KdcRep(11) EXCEPT !.crealm = Odd], [KdcRep(11) EXCEPT !.ticket.realm = Odd]},
   tgs_req |-> {[pvno |-> 5, msg_type |-> 12, realm |-> "EXAMPLE", sname |-> <<"host", "web">>, nonce |-> 6,
                 etypes |-> <<18>>, tgt |-> [Ticket EXCEPT !.realm = r], authenticator_enc |-> Bytes(5), till |-> t]
                : r \in {"EXAMPLE", Odd}, t \in {99, Never}},
   tgs_rep |-> {KdcRep(13), [KdcRep(13) EXCEPT !.cname = <<Odd>>]},
   authenticator |-> {[crealm |-> r, cname |-> <<"alice">>, subkey |-> k, seq_number |-> 4, ctime |-> 7,
                       cusec |-> 8] : k \in {<<>>, <<Key(5)>>}, r \in {"EXAMPLE", Odd}},
   kpasswd_request |-> {[client_principal |-> Text(2), target_principal |-> Text(3), authenticator_mac |-> Bytes(2),
                         new_password |-> Bytes(n), password_encrypted |-> e] : n \in {0, 3}, e \in BOOLEAN},
   kpasswd_response |-> {[result_code |-> c, result_string |-> t] : c \in {5, 65536}, t \in {<<>>, Text(3)}},
   sealed |-> {[key |-> Key(7), usage |-> u, confounder |-> Bytes(16), plaintext |-> Bytes(n)]
               : u \in {1, 2}, n \in {0, 15, 16, 17}},
   sealed_with_key |-> {[key |-> Key(7), confounder |-> Bytes(16), plaintext |-> Bytes(n)] : n \in {1, 16, 31}}]

Sids == {PacB!NewSid(<<0, 0, 0, 0, 0, 5>>, <<>>), PacB!NewSid(<<0, 0, 0, 0, 0, 5>>, <<21, 7, 300, 9, 1104>>),
         PacB!NewSid(<<0, 16, 0, 0, 0, 171>>, <<4294967>>)}

Entries == <<[key |-> Text(3), value_name |-> Text(1), value_type |-> 4, value |-> Bytes(4)],
             [key |-> <<>>, value_name |-> <<91, 93>>, value_type |-> 1, value |-> <<>>]>>

WithSemicolon == {[Entries[1] EXCEPT !.key = <<97, 59, 98>>], [Entries[1] EXCEPT !.value_name = <<59>>],
                  [key |-> <<59, 52, 59, 48>>, value_name |-> <<>>, value_type |-> 4, value |-> <<>>]}

(* Policies: registry values of each type, texts with markup, and what a
   Linux host is meant to do about some settings. *)
Setting(key, value) == [key |-> key, value |-> value]

TextValue(s) == [type |-> "string", text |-> s]

Typed ==
  {TextValue(t) : t \in Texts} \cup {[type |-> "integer", number |-> n] : n \in {0, 70000}}
  \cup {[type |-> "boolean", flag |-> b] : b \in BOOLEAN}
  \cup {[type |-> "bytes", bytes |-> Bytes(n)] : n \in 0..4}
  \cup {[type |-> "string_list", texts |-> l] : l \in {<<>>, <<Text(2), <<38>>>>}}

(* Values that the registry cannot hold, and texts that end early. *)
Ended == <<97, 0>>

Unfit == {TextValue(Ended), [type |-> "integer", number |-> -1]}
         \cup {[type |-> "string_list", texts |-> l] : l \in {<<Text(1), <<>>, Text(2)>>, <<<<>>>>, <<Ended>>}}

Markup == <<60, 38, 97, 109, 112, 59, 34, 62, 39>>

PolicyOf(settings) == [name |-> Text(3), description |-> Markup, version |-> 12, settings |-> settings]

(* limits.<domain>.<type>.<item>, audit.<path>, firewall.allow.<service>. *)
LinuxPolicy(profile, flag) ==
  PolicyOf(<<Setting(Reg!Limits \o <<64, 97, 46, 98, 46, 99, 46, 100>>, [type |-> "integer", number |-> -1]),
             Setting(Reg!Limits \o <<97, 46, 98>>, TextValue(Text(2))),
             Setting(Reg!FirewallAllow \o Text(3), [type |-> "boolean", flag |-> TRUE]),
             Setting(Reg!FirewallAllow \o Text(2), [type |-> "boolean", flag |-> flag]),
             Setting(Reg!Audit \o <<118, 46, 108, 46, 120>>, [type |-> "boolean", flag |-> flag]),
             Setting(Reg!AuthselectProfile, TextValue(profile))>>)

LinuxEffect(profile, flag) ==
  [profile |-> profile, services |-> IF flag THEN <<Text(3), Text(2)>> ELSE <<Text(3)>>,
   limits |-> <<<<<<64, 97>>, <<98>>, <<99, 46, 100>>, <<45, 49>>>>>>,
   audit |-> IF flag THEN <<<<<<118>>, <<108>>, <<120>>>>>> ELSE <<>>]

HostSamples ==
  [registry_pol |-> {PolicyOf(<<Setting(Reg!Registry \o <<83, 92, 65, 92>> \o Text(2), v),
                                Setting(Reg!Audit \o Text(1), v)>>) : v \in Typed \cup Unfit}
                   \cup {PolicyOf(<<Setting(Reg!Registry \o k, TextValue(Text(1)))>>)
                         : k \in {<<83, 59, 92, 65>>, <<83, 92, 65, 59>>, Text(2)}},
   profile |-> {PolicyOf(<<Setting(Text(2) \o <<46>> \o Markup, v), Setting(Text(1) \o <<46>>, TextValue(Markup))>>) : v \in Typed},
   linux_files |->
     {[policy |-> LinuxPolicy(p, f), effect |-> LinuxEffect(IF p = Text(2) THEN Reg!Sssd ELSE p, f)]
      : p \in Reg!KNOWN_PROFILES \cup {Text(2)}, f \in BOOLEAN}
     \cup {[policy |-> PolicyOf(<<>>), effect |-> [profile |-> Reg!Sssd, services |-> <<>>, limits |-> <<>>, audit |-> <<>>]]}]

PolicySamples ==
  [sid |-> Sids,
   sid_text |-> Sids,
   sid_parts |->
     {[sid |-> s, kind |-> IF Len(s.sub_authorities) = 1 THEN "singleton" ELSE "builtin",
       rid |-> <<PacB!Last(s.sub_authorities)>>,
       domain |-> IF Len(s.sub_authorities) = 1 THEN "none" ELSE "builtin"] : s \in PacB!WellKnown}
     \cup {[sid |-> PacB!NewSid(<<0, 0, 0, 0, 0, 5>>, <<21, 7, 300, 9, 1104>>), kind |-> "account",
            rid |-> <<1104>>, domain |-> "domain"]},
   preg |-> {SubSeq(Entries, 1, n) : n \in 0..2} \cup {<<e>> : e \in WithSemicolon},
   reg_sz |-> Texts \cup {Ended},
   reg_dword |-> {0, 255, 16777216},
   reg_multi_sz |-> {<<>>, <<Text(2)>>, <<Text(1), Text(3)>>, <<Text(1), <<>>, Text(3)>>, <<<<>>>>, <<Ended, Text(1)>>}]

LogonInfo(groups) ==
  [times |-> Times, effective_name |-> Text(2), user_name |-> <<>>, logon_domain_name |-> Text(1), user_id |-> 1104,
   primary_group_id |-> 513, groups |-> groups, user_flags |-> 32, logon_server |-> Text(3),
   logon_domain_id |-> PacB!NewSid(<<0, 0, 0, 0, 0, 5>>, <<21, 7>>)]

PacSamples ==
  [pac |-> {[uuid |-> Text(2), sid |-> PacB!NewSid(<<0, 0, 0, 0, 0, 5>>, <<21, 7, 1104>>), realm |-> Text(3),
             key |-> 3, ticket |-> Bytes(n)] : n \in {0, 5}},
   logon_info |-> {LogonInfo(g) : g \in {<<>>, <<513, 512>>}},
   client_info |-> {[client_id |-> U64(2), name |-> t] : t \in Texts},
   upn_dns_info |-> {[upn |-> t, dns_domain_name |-> Text(2), flags |-> 1] : t \in Texts},
   requestor |-> {[sid |-> <<>>], [sid |-> <<PacB!NewSid(<<0, 0, 0, 0, 0, 5>>, <<21, 7, 9>>)>>]},
   signature |-> {[signature_type |-> 16, signature |-> Bytes(12)]},
   ticket_checksum |-> {[signature_type |-> 16, signature |-> Bytes(12)]}]

(* An attribute list that a server sends: names, a flags field of zeros, and
   the end marker. *)
TargetInfo == <<2, 0, 2, 0, 65, 0, 6, 0, 4, 0, 0, 0, 0, 0, 0, 0, 0, 0>>

NtlmChallenge(info) == [server_challenge |-> U64(5), flags |-> {0, 9, 31}, target_name |-> Text(2), target_info |-> info]

NtlmSamples ==
  [ntlm_negotiate |-> {[domain |-> t, workstation |-> Text(2)] : t \in Texts},
   ntlm_challenge |-> {NtlmChallenge(TargetInfo), NtlmChallenge(<<>>)},
   ntlm_authenticate |->
     {[client |-> [domain |-> Text(3), workstation |-> <<>>,
                   credentials |-> <<[user |-> Text(4), password |-> <<80, 233>>]>>],
       challenge |-> NtlmChallenge(i), binding |-> b, timestamp |-> U64(77)]
      : i \in {TargetInfo, <<0, 0, 0, 0>>}, b \in {<<>>, <<Nt!ComputeChannelBinding(Bytes(4), Text(21))>>}}]

AllSamples ==
  Smb2Samples @@ RpcSamples @@ LdapSamples @@ KerberosSamples @@ PolicySamples @@ PacSamples @@ NtlmSamples
  @@ AnswerSamples @@ SearchSamples @@ HostSamples
=============================================================================
