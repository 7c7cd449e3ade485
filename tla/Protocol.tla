------------------------------ MODULE Protocol ------------------------------
(***************************************************************************)
(* The instructions of the Guacamole protocol as libguac/protocol.c sends  *)
(* them: opcode and arguments in the order in which they are written.      *)
(* Layers, streams and objects are written as their indexes.  How elements *)
(* become bytes is the business of module Wire; numbers and strings are    *)
(* values here.                                                            *)
(***************************************************************************)
EXTENDS Integers, Sequences

Flag(b) == IF b THEN 1 ELSE 0

(* Handshake and session *)
SendSelect(protocol) == <<"select", protocol>>
SendArgs(version, names) == <<"args", version>> \o names
SendConnect(values) == <<"connect">> \o values
SendReady(id) == <<"ready", id>>
SendName(name) == <<"name", name>>
SendError(error, status) == <<"error", error, status>>
SendLog(message) == <<"log", message>>
SendMsg(msg, args) == <<"msg", msg>> \o args
SendRequired(names) == <<"required">> \o names
SendDisconnect == <<"disconnect">>
SendNop == <<"nop">>
SendNest(index, data) == <<"nest", index, data>>
SendSync(timestamp, frames) == <<"sync", timestamp, frames>>

(* Streams *)
SendAck(stream, error, status) == <<"ack", stream, error, status>>
SendArgv(stream, mimetype, name) == <<"argv", stream, mimetype, name>>
SendAudio(stream, mimetype) == <<"audio", stream, mimetype>>
SendBlob(stream, data) == <<"blob", stream, data>>
SendBody(object, stream, mimetype, name) == <<"body", object, stream, mimetype, name>>
SendClipboard(stream, mimetype) == <<"clipboard", stream, mimetype>>
SendEnd(stream) == <<"end", stream>>
SendFile(stream, mimetype, name) == <<"file", stream, mimetype, name>>
SendFilesystem(object, name) == <<"filesystem", object, name>>
SendImg(stream, mode, layer, mimetype, x, y) == <<"img", stream, mode, layer, mimetype, x, y>>
SendPipe(stream, mimetype, name) == <<"pipe", stream, mimetype, name>>
SendUndefine(object) == <<"undefine", object>>
SendVideo(stream, layer, mimetype) == <<"video", stream, layer, mimetype>>

(* Drawing *)
SendArc(layer, x, y, radius, start, end, negative) ==
    <<"arc", layer, x, y, radius, start, end, Flag(negative)>>
SendCfill(mode, layer, r, g, b, a) == <<"cfill", mode, layer, r, g, b, a>>
SendClip(layer) == <<"clip", layer>>
SendClose(layer) == <<"close", layer>>
SendCopy(srcl, srcx, srcy, w, h, mode, dstl, dstx, dsty) ==
    <<"copy", srcl, srcx, srcy, w, h, mode, dstl, dstx, dsty>>
SendCstroke(mode, layer, cap, join, thickness, r, g, b, a) ==
    <<"cstroke", mode, layer, cap, join, thickness, r, g, b, a>>
SendCursor(x, y, srcl, srcx, srcy, w, h) == <<"cursor", x, y, srcl, srcx, srcy, w, h>>
SendCurve(layer, x1, y1, x2, y2, x, y) == <<"curve", layer, x1, y1, x2, y2, x, y>>
SendDispose(layer) == <<"dispose", layer>>
SendDistort(layer, m) == <<"distort", layer>> \o m
SendIdentity(layer) == <<"identity", layer>>
SendLfill(mode, layer, srcl) == <<"lfill", mode, layer, srcl>>
SendLine(layer, x, y) == <<"line", layer, x, y>>
SendLstroke(mode, layer, cap, join, thickness, srcl) ==
    <<"lstroke", mode, layer, cap, join, thickness, srcl>>
SendMove(layer, parent, x, y, z) == <<"move", layer, parent, x, y, z>>
SendPop(layer) == <<"pop", layer>>
SendPush(layer) == <<"push", layer>>
SendRect(layer, x, y, w, h) == <<"rect", layer, x, y, w, h>>
SendReset(layer) == <<"reset", layer>>
SendSet(layer, name, value) == <<"set", layer, name, value>>
SendSetInt(layer, name, value) == <<"set", layer, name, value>>
SendShade(layer, a) == <<"shade", layer, a>>
SendSize(layer, w, h) == <<"size", layer, w, h>>
SendStart(layer, x, y) == <<"start", layer, x, y>>
SendTransfer(srcl, srcx, srcy, w, h, fn, dstl, dstx, dsty) ==
    <<"transfer", srcl, srcx, srcy, w, h, fn, dstl, dstx, dsty>>
SendTransform(layer, m) == <<"transform", layer>> \o m

(* Input events, as a recording keeps them *)
SendKey(keysym, pressed, timestamp) == <<"key", keysym, Flag(pressed), timestamp>>
SendMouse(x, y, mask, timestamp) == <<"mouse", x, y, mask, timestamp>>
SendTouch(id, x, y, rx, ry, angle, force, timestamp) ==
    <<"touch", id, x, y, rx, ry, angle, force, timestamp>>

(* guac_protocol_send_blobs: the data in pieces of at most max.            *)
SendBlobs(stream, data, max) ==
    [k \in 1 .. (Len(data) + max - 1) \div max |->
        SendBlob(stream, SubSeq(data, (k - 1) * max + 1,
                                IF k * max < Len(data) THEN k * max ELSE Len(data)))]

-----------------------------------------------------------------------------
(* Protocol versions, the oldest first; 0 is GUAC_PROTOCOL_VERSION_UNKNOWN. *)
Versions == <<"VERSION_1_0_0", "VERSION_1_1_0", "VERSION_1_3_0", "VERSION_1_5_0">>

StringToVersion(string) ==
    IF \E v \in DOMAIN Versions : Versions[v] = string
    THEN CHOOSE v \in DOMAIN Versions : Versions[v] = string ELSE 0

(* guac_user_supports_required, guac_user_supports_msg *)
SupportsRequired(version) == version >= StringToVersion("VERSION_1_3_0")
SupportsMsg(version) == version >= StringToVersion("VERSION_1_5_0")
=============================================================================
