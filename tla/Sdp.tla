-------------------------------- MODULE Sdp --------------------------------
(***************************************************************************)
(* Session descriptions (SdpInfo.cpp): a remote description is read line   *)
(* by line into remoteSdp_, matched with the codecs erizo is configured    *)
(* with, and answered from localSdp_ (WebRtcConnection.cpp), which may     *)
(* have offered before.  A second description is read into the same        *)
(* object.  A codec stands for a name with a clock rate.                   *)
(***************************************************************************)
EXTENDS Integers, Sequences, FiniteSets

LOCAL SX == INSTANCE SequencesExt

CONSTANTS Internal,   \* rtp_mappings: [pt, codec, media, fb, params, apt]
          Codec,      \* what the peer gives its payload types: PT -> codec
          Params,     \* the format parameters a peer may state
          Feedbacks,  \* and its kinds of feedback
          Ssrcs,      \* ssrcs of the peer
          Users,      \* ICE credentials of the peer, a restart brings others
          Scenes,     \* each a set of the kinds of lines of a behaviour
          MaxLines,   \* bound on the lines of a behaviour
          MaxDescs    \* bound on the descriptions

Media == {"audio", "video"}
Directions == {"sendrecv", "sendonly", "recvonly"}
MediaOf(codec) == IF codec \in {"opus", "PCMU"} THEN "audio" ELSE "video"

Sensible ==
  /\ \A i \in DOMAIN Internal :
       /\ Internal[i].media \in Media /\ Internal[i].pt \in Nat
       /\ (Internal[i].codec = "rtx") = (Internal[i].apt # 0)
  /\ \A i, j \in DOMAIN Internal : Internal[i].pt = Internal[j].pt => i = j
  /\ DOMAIN Codec \subseteq Nat \ {0}
  /\ MaxLines \in Nat /\ MaxDescs \in Nat

VARIABLES
  remote, local,   \* remoteSdp_ and localSdp_
  mtype,           \* the section being read, "none" before the first
  reading,         \* processSdp is under way
  descs, lines,    \* descriptions read so far, and lines
  piped,           \* pipeline_initialized_
  shown,           \* what the last getSdp said of each medium
  scene

vars == <<remote, local, mtype, reading, descs, lines, piped, shown, scene>>

PT == DOMAIN Codec
None == 0
NoName == "none"
Unknown == [codec |-> NoName, media |-> NoName, fb |-> {}, params |-> {}, apt |-> None]
Parsed == [codec : {Codec[e] : e \in PT} \cup {NoName}, media : Media \cup {NoName},
           fb : SUBSET Feedbacks, params : SUBSET Params, apt : PT \cup {None}]

EmptySdp ==
  [bundle |-> FALSE, tags |-> <<>>, has |-> {}, role |-> "actpass",
   dir |-> [m \in Media |-> NoName], user |-> [m \in Media |-> NoName],
   cands |-> <<>>, ssrcs |-> <<>>, rtx |-> {}, audioSsrc |-> None,
   parsed |-> [e \in {} |-> Unknown], payloads |-> <<>>,
   codecs |-> [m \in Media |-> 0],
   inOut |-> [i \in {} |-> None], outIn |-> [e \in {} |-> None]]

TypeOK ==
  /\ \A s \in {remote, local} :
       /\ DOMAIN s = DOMAIN EmptySdp
       /\ s.bundle \in BOOLEAN /\ s.has \subseteq Media
       /\ s.role \in {"actpass", "active", "passive"}
       /\ s.dir \in [Media -> Directions \cup {NoName}]
       /\ s.user \in [Media -> Users \cup {NoName, "ours"}]
       /\ s.parsed \in [DOMAIN s.parsed -> Parsed] /\ DOMAIN s.parsed \subseteq PT
       /\ s.codecs \in [Media -> Nat]
  /\ mtype \in Media \cup {NoName} /\ reading \in BOOLEAN /\ piped \in BOOLEAN
  /\ descs \in 0..MaxDescs /\ lines \in 0..MaxLines

Init ==
  /\ remote = EmptySdp /\ local = EmptySdp /\ mtype = NoName /\ reading = FALSE
  /\ descs = 0 /\ lines = 0 /\ piped = FALSE
  /\ shown = [m \in {} |-> NoName] /\ scene \in Scenes

-----------------------------------------------------------------------------
(* Lines of a description.                                                 *)

Line(kind) ==
  /\ reading /\ kind \in scene /\ lines < MaxLines /\ lines' = lines + 1
  /\ UNCHANGED <<local, reading, descs, piped, shown, scene>>

In(m) == mtype = m /\ UNCHANGED mtype

\* a=group:BUNDLE, before the first section: all tags, of no medium yet.
Group ==
  /\ Line("group") /\ In(NoName)
  /\ remote' = [remote EXCEPT !.bundle = TRUE,
                  !.tags = @ \o <<[id |-> "audio", media |-> NoName],
                                  [id |-> "video", media |-> NoName]>>]

\* m=audio, m=video
MLine(m) ==
  /\ Line("m") /\ mtype # m
  /\ mtype' = m
  /\ remote' = [remote EXCEPT !.has = @ \cup {m}]

\* a=mid: the tag of that name is one of this section.
Mid(m) ==
  /\ Line("group") /\ In(m) /\ m # NoName
  /\ remote' = [remote EXCEPT !.tags =
       IF remote.bundle
       THEN [i \in DOMAIN @ |-> IF @[i].id = m THEN [@[i] EXCEPT !.media = m] ELSE @[i]]
       ELSE @]

\* Above the first section, credentials and direction are those of video.
Here == IF mtype = "audio" THEN "audio" ELSE "video"

\* a=ice-ufrag with a=ice-pwd
Credentials(u) ==
  /\ Line("ice") /\ UNCHANGED mtype
  /\ remote' = [remote EXCEPT !.user[Here] = u]

\* a=sendrecv, a=sendonly, a=recvonly
Direction(d) ==
  /\ Line("dir") /\ UNCHANGED mtype
  /\ remote' = [remote EXCEPT !.dir[Here] = d]

\* a=setup
Setup(role) ==
  /\ Line("dir") /\ UNCHANGED mtype
  /\ remote' = [remote EXCEPT !.role = role]

Candidate(m) == [media |-> m, user |-> NoName]

\* a=candidate, of UDP: any other is passed over (processCandidate).
CandidateLine(udp) ==
  /\ Line("ice") /\ UNCHANGED mtype
  /\ remote' = IF udp THEN [remote EXCEPT !.cands = Append(@, Candidate(mtype))] ELSE remote

\* Neither known twice nor one of retransmissions.
MaybeAddSsrcToList(s, ssrc) ==
  IF ssrc \in {p[2] : p \in s.rtx} \/ ssrc \in SX!ToSet(s.ssrcs) THEN s
  ELSE [s EXCEPT !.ssrcs = Append(@, ssrc)]

\* a=ssrc
Ssrc(ssrc) ==
  /\ Line("ssrc") /\ UNCHANGED mtype
  /\ remote' = CASE mtype = "video" -> MaybeAddSsrcToList(remote, ssrc)
                 [] mtype = "audio" /\ remote.audioSsrc = None -> [remote EXCEPT !.audioSsrc = ssrc]
                 [] OTHER -> remote

\* a=ssrc-group:SIM
SimulcastGroup(a, b) ==
  /\ Line("ssrc") /\ In("video") /\ a # b
  /\ remote' = MaybeAddSsrcToList(MaybeAddSsrcToList(remote, a), b)

\* a=ssrc-group:FID: the ssrc and the one of its retransmissions.
FidGroup(orig, rtx) ==
  /\ Line("ssrc") /\ In("video") /\ orig # rtx
  /\ remote' = [remote EXCEPT !.rtx = {p \in @ : p[2] # rtx} \cup {<<orig, rtx>>}]

At(s, e) == IF e \in DOMAIN s.parsed THEN s.parsed[e] ELSE Unknown
Learn(e, p) ==
  remote' = [remote EXCEPT !.parsed = [x \in DOMAIN @ \cup {e} |-> IF x = e THEN p ELSE @[x]]]

\* a=rtpmap, one for each payload type of the section
Rtpmap(e) ==
  /\ Line("codec") /\ In(MediaOf(Codec[e]))
  /\ Learn(e, [At(remote, e) EXCEPT !.codec = Codec[e], !.media = mtype])

\* a=rtcp-fb, which may come before the rtpmap
RtcpFb(e, f) ==
  /\ Line("codec") /\ In(MediaOf(Codec[e])) /\ Codec[e] # "rtx"
  /\ Learn(e, [At(remote, e) EXCEPT !.fb = @ \cup {f}])

\* a=fmtp
Fmtp(e, p) ==
  /\ Line("codec") /\ In(MediaOf(Codec[e])) /\ Codec[e] # "rtx"
  /\ Learn(e, [At(remote, e) EXCEPT !.params = @ \cup {p}])

\* a=fmtp of retransmissions: apt names the payload type they are for.
Apt(e, of) ==
  /\ Line("codec") /\ In("video") /\ Codec[e] = "rtx" /\ Codec[of] # "rtx"
  /\ MediaOf(Codec[of]) = "video"
  /\ Learn(e, [At(remote, e) EXCEPT !.apt = of])

-----------------------------------------------------------------------------
(* What follows the last line.                                             *)

\* The credentials of one medium serve the other when it has none.
FillCredentials(s) ==
  [s EXCEPT !.user = [m \in Media |->
     IF @[m] # NoName THEN @[m] ELSE CHOOSE u \in {@[n] : n \in Media \ {m}} : TRUE]]

\* Each candidate gets those of its medium.
UserOf(s, c) == s.user[IF c.media = "video" THEN "video" ELSE "audio"]
FillCandidates(s) ==
  [s EXCEPT !.cands = [i \in DOMAIN @ |-> [@[i] EXCEPT !.user = UserOf(s, s.cands[i])]]]

FillSsrcs(s) == IF s.ssrcs = <<>> THEN [s EXCEPT !.ssrcs = <<None>>] ELSE s

\* The pairs of equal codecs in the order of the two loops.
Before(p, q) == p[1] < q[1] \/ (p[1] = q[1] /\ p[2] < q[2])
Pairs(s, rtx) ==
  SX!SetToSortSeq({p \in (DOMAIN Internal) \X (DOMAIN s.parsed) :
                     /\ Internal[p[1]].codec = s.parsed[p[2]].codec
                     /\ rtx = (Internal[p[1]].codec = "rtx")}, Before)

Put(f, x, y) == [z \in DOMAIN f \cup {x} |-> IF z = x THEN y ELSE f[z]]

Entry(e, p) == [pt |-> e, media |-> p.media, fb |-> p.fb, params |-> p.params]

\* A payload type both have: i the internal one, e that of the peer.
Negotiated(s, i, e, entry) ==
  [s EXCEPT !.outIn = Put(@, e, i.pt), !.inOut = Put(@, i.pt, e),
            !.codecs[entry.media] = @ + 1, !.payloads = Append(@, entry)]

\* A codec, with the feedback and the parameters both state.
Match(s, p) ==
  LET i == Internal[p[1]]
      e == s.parsed[p[2]]
  IN Negotiated(s, i, p[2], [Entry(p[2], e) EXCEPT !.fb = @ \cap i.fb, !.params = @ \cap i.params])

\* Retransmissions match whatever they are for.
MatchRtx_any(s, e, i) ==
  IF Internal[i].codec = "rtx" THEN Negotiated(s, Internal[i], e, Entry(e, s.parsed[e])) ELSE s

\* Retransmissions of payload type e are tried with an internal mapping; the
\* question outInPTMap[apt] adds apt to the map when it is not there.
MatchRtx(s, e, i) ==
  IF Internal[i].codec # "rtx" THEN s
  ELSE LET apt == s.parsed[e].apt
           t == IF apt \in DOMAIN s.outIn THEN s ELSE [s EXCEPT !.outIn = Put(@, apt, 0)]
       IN IF t.outIn[apt] = Internal[i].apt
          THEN Negotiated(t, Internal[i], e, Entry(e, s.parsed[e]))
          ELSE t

\* "go through the payload_map_ and match it with internalPayloadVector_"
Match_all(s) == SX!FoldLeft(Match, s, Pairs(s, FALSE))

\* "Check atp rtx": as often as the codec "rtx" is configured.
Rtx_all(s) ==
  SX!FoldLeft(LAMBDA t, p : SX!FoldLeft(LAMBDA u, i : MatchRtx(u, p[2], i), t,
                                        [i \in DOMAIN Internal |-> i]),
              s, Pairs(s, TRUE))

HasUser(s) == \E m \in Media : s.user[m] # NoName

\* The end of processSdp, which fails without any credentials.
Finish(s) ==
  IF HasUser(s)
  THEN Rtx_all(Match_all(FillSsrcs(FillCandidates(FillCredentials(s))))) ELSE s

-----------------------------------------------------------------------------
(* The connection: WebRtcConnection.cpp.                                   *)

Mirror(d) ==
  CASE d = "sendonly" -> "recvonly" [] d = "recvonly" -> "sendonly" [] OTHER -> "sendrecv"

\* A direction no line gave is what was in memory.
Some(d) == IF d = NoName THEN Directions ELSE {d}

\* setOfferSdp
SetOfferSdp(l, r, video, audio) ==
  [l EXCEPT !.codecs = r.codecs, !.payloads = r.payloads, !.bundle = r.bundle,
            !.inOut = r.inOut, !.outIn = r.outIn, !.has = r.has, !.tags = r.tags,
            !.dir = [m \in Media |-> Mirror(IF m = "video" THEN video ELSE audio)]]

Sink == 1000    \* getVideoSinkSSRC, getAudioSinkSSRC

\* createOffer with createOfferSdp
CreateOffer(media, bundle) ==
  /\ "offer" \in scene /\ ~reading /\ descs = 0 /\ local.payloads = <<>>
  /\ local' = [local EXCEPT
       !.payloads = [i \in DOMAIN Internal |->
                       [pt |-> Internal[i].pt, media |-> Internal[i].media,
                        fb |-> Internal[i].fb, params |-> Internal[i].params]],
       !.bundle = bundle, !.has = media, !.role = "actpass",
       !.codecs = [m \in Media |-> @[m] + Cardinality({i \in DOMAIN Internal : Internal[i].media = m})],
       !.dir = [m \in Media |-> "sendrecv"],
       !.ssrcs = IF "video" \in media THEN Append(@, Sink) ELSE @,
       !.audioSsrc = IF "audio" \in media THEN Sink ELSE @]
  /\ UNCHANGED <<remote, mtype, reading, descs, lines, piped, shown, scene>>

\* setRemoteSdp: initWithSdp begins.  Where credentials are not the point, the
\* description begins with some.
Begin ==
  /\ ~reading /\ descs < MaxDescs
  /\ reading' = TRUE /\ descs' = descs + 1 /\ mtype' = NoName
  /\ remote' = IF "ice" \in scene THEN remote
               ELSE [remote EXCEPT !.user["video"] = CHOOSE u \in Users : TRUE]
  /\ UNCHANGED <<local, lines, piped, shown, scene>>

\* ... and ends, where all of a section was told: retransmissions have an apt,
\* feedback and parameters a codec.  Only the first description is answered.
End ==
  /\ reading /\ remote.has # {}
  /\ \A e \in DOMAIN remote.parsed :
       /\ remote.parsed[e].codec # NoName
       /\ remote.parsed[e].codec = "rtx" => remote.parsed[e].apt # None
  /\ reading' = FALSE /\ piped' = TRUE
  /\ remote' = Finish(remote)
  /\ \E video \in Some(remote.dir["video"]), audio \in Some(remote.dir["audio"]) :
       local' = IF piped THEN local
                ELSE [SetOfferSdp(local, remote', video, audio) EXCEPT
                        !.ssrcs = Append(@, Sink), !.audioSsrc = Sink,
                        !.role = IF remote.role = "actpass" THEN "active" ELSE @]
  /\ UNCHANGED <<mtype, descs, lines, shown, scene>>

\* addRemoteCandidate: the candidate is read into a description of its own,
\* with the credentials known by now; without any it is kept all the same.
AddRemoteCandidate(m) ==
  /\ ~reading /\ "ice" \in scene /\ lines < MaxLines /\ lines' = lines + 1
  /\ (piped \/ local.payloads # <<>>)
  /\ remote' = [remote EXCEPT !.cands = Append(@, [Candidate(m) EXCEPT !.user = remote.user[m]])]
  /\ UNCHANGED <<local, mtype, reading, descs, piped, shown, scene>>

\* The transports' credentials: DtlsTransport::processLocalSdp.
ProcessLocalSdp(l) == [l EXCEPT !.user = [m \in Media |-> "ours"]]

PtsOf(l, m) == SelectSeq(l.payloads, LAMBDA p : p.media = m)

\* A section of getSdp.  A payload type is followed by a space as long as the
\* count of codecs is not reached.
Section(l, m) ==
  [pts |-> [i \in DOMAIN PtsOf(l, m) |-> PtsOf(l, m)[i].pt],
   glued |-> Len(PtsOf(l, m)) > l.codecs[m],
   user |-> l.user[m], dir |-> l.dir[m],
   mids |-> {l.tags[i].id : i \in {j \in DOMAIN l.tags : l.tags[j].media = m}},
   ssrcs |-> IF l.dir[m] = "recvonly" THEN {}
             ELSE IF m = "video" THEN SX!ToSet(l.ssrcs) ELSE {l.audioSsrc}]

\* getLocalSdp, once there is a transport
GetLocalSdp ==
  /\ ~reading /\ (piped \/ local.payloads # <<>>)
  /\ LET l == ProcessLocalSdp(local) IN
       /\ shown' = [m \in l.has |-> Section(l, m)]
       /\ local' = l
       /\ (local # l \/ shown # shown')
  /\ UNCHANGED <<remote, mtype, reading, descs, lines, piped, scene>>

\* The translation of payload types: get{Audio,Video}{Internal,External}PT
InternalPT(s, e) == IF e \in DOMAIN s.outIn THEN s.outIn[e] ELSE e
ExternalPT(s, i) == IF i \in DOMAIN s.inOut THEN s.inOut[i] ELSE i

ReadLine ==
  \/ Group
  \/ \E m \in Media : MLine(m) \/ Mid(m)
  \/ \E u \in Users : Credentials(u)
  \/ \E d \in Directions : Direction(d)
  \/ \E role \in {"actpass", "active", "passive"} : Setup(role)
  \/ \E udp \in BOOLEAN : CandidateLine(udp)
  \/ \E a \in Ssrcs : Ssrc(a) \/ \E b \in Ssrcs : SimulcastGroup(a, b) \/ FidGroup(a, b)
  \/ \E e \in PT : \/ Rtpmap(e) \/ \E f \in Feedbacks : RtcpFb(e, f)
                   \/ \E p \in Params : Fmtp(e, p)
                   \/ \E of \in PT : Apt(e, of)

Next ==
  \/ ReadLine \/ Begin \/ End \/ GetLocalSdp
  \/ \E media \in SUBSET Media \ {{}}, bundle \in BOOLEAN : CreateOffer(media, bundle)
  \/ \E m \in Media : AddRemoteCandidate(m)

Spec == Init /\ [][Next]_vars

-----------------------------------------------------------------------------
(* Properties.                                                             *)

CodecOf(i) == (CHOOSE x \in SX!ToSet(Internal) : x.pt = i).codec
AptOf(i)   == (CHOOSE x \in SX!ToSet(Internal) : x.pt = i).apt

\* A packet translated on its way through keeps its codec: the two maps agree
\* with each other, and retransmissions follow what they are for.
Translated ==
  /\ \A i \in DOMAIN remote.inOut :
       LET e == remote.inOut[i] IN
       /\ InternalPT(remote, e) = i
       /\ remote.parsed[e].codec = CodecOf(i)
       /\ CodecOf(i) = "rtx" => InternalPT(remote, remote.parsed[e].apt) = AptOf(i)
  /\ \A e \in DOMAIN remote.outIn :
       LET i == remote.outIn[e] IN
       i # 0 => /\ remote.parsed[e].codec = CodecOf(i)
                /\ remote.parsed[ExternalPT(remote, i)].codec = CodecOf(i)

\* After any number of descriptions, offers and candidates each candidate has
\* the credentials of its medium, if the peer told any.
CandidatesKnown ==
  piped /\ ~reading /\ HasUser(remote) =>
    \A i \in DOMAIN remote.cands :
      remote.cands[i].user = UserOf(remote, remote.cands[i])

\* No payload types run into each other on an m= line.
Legible == \A m \in DOMAIN shown : ~shown[m].glued

\* The ssrcs of the peer's video are told once each.
SsrcsOnce ==
  \A i, j \in DOMAIN remote.ssrcs : remote.ssrcs[i] = remote.ssrcs[j] => i = j

\* What the two sides agreed on.
Agreed == Translated /\ CandidatesKnown /\ Legible /\ SsrcsOnce
=============================================================================
