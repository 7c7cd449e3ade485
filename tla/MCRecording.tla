---------------------------- MODULE MCRecording ----------------------------
(* The instructions of a connection on their way through sockets and       *)
(* parser, and their recordings: the files, the video made of them and the *)
(* log of keys.  One at a time: focus says which.                          *)
EXTENDS Guacenc, Guaclog, Recorder, Wire

VARIABLE focus

(* Layer 0 is two pixels wide, 1 and 2 are one, each of its own colour.    *)
MCPrefix ==
    <<SendSize(0, 2, 1), SendSize(1, 1, 1), SendSize(2, 1, 1),
      SendRect(0, 0, 0, 2, 1), SendCfill("over", 0, 9, 0, 0, 255),
      SendRect(1, 0, 0, 1, 1), SendCfill("over", 1, 0, 9, 0, 255),
      SendRect(2, 0, 0, 1, 1), SendCfill("over", 2, 0, 0, 9, 255),
      SendMove(2, 1, 0, 0, 0), SendCursor(0, 0, 2, 0, 0, 1, 1)>>

MCRecorded ==
    {SendSize(l, w, 1) : l \in {-1, 1}, w \in {0, 2}} \cup
    {SendMove(l, p, x, 0, z) : l \in {1, 2}, p \in {0, 1, 2}, x \in {0, 1}, z \in {0, 1}} \cup
    {SendShade(l, a) : l \in {1, 2}, a \in {0, 255}} \cup
    {SendDispose(l) : l \in {-1, 1}} \cup
    {SendCopy(s, 0, 0, 1, 1, mode, d, 1, 0) : s \in {-1, 1, 9}, d \in {-1, 0}, mode \in {"src", "over"}} \cup
    {SendRect(1, 0, 0, 1, 1), SendCfill("over", 1, 0, 0, 0, 0), SendCfill("src", 1, 7, 0, 0, 255),
     SendTransfer(0, 0, 0, 1, 1, 3, 1, 0, 0), SendImg(0, "over", 0, "image/png", 1, 0),
     SendImg(1, "over", -1, "image/jpeg", 1, 0), SendBlob(0, <<<<7, 7, 7>>>>), SendEnd(0)} \cup
    {SendMove(1, 9, 0, 0, 0), SendMove(1, -1, 0, 0, 0)} \cup
    {SendSync(t, 1) : t \in {100, 130, 199, 999}} \cup {SendMouse(1, 0, 0, 150)}

MCKeysyms == {65027, 65289, 65507, 65513, 65, 16777316, 70000}

(* Elements with separators, a two-byte character and nothing at all in    *)
(* them; blobs of every length modulo 3, one longer than the ready buffer. *)
I(elements, data) == [elements |-> elements, blob |-> data]

MCScript ==
    "t1" :> << I(<< <<21>>, <<Semicolon, 200>> \o <<230>> >>, << >>),
               I(<< <<22>> >>, <<255, 0, 77, 3>>) >>
 @@ "t2" :> << I(<< <<23>>, << >>, <<3, Dot>> >>, << >>) >>

MCStream == << I(<< <<24>>, <<200, 230>> >>, << >>),
               I(<< <<25>>, << >>, <<Comma, 3>> >>, << >>),
               I(<< <<26>> >>, <<255, 9>>),
               Nop >>

Init ==
    /\ WireInit /\ EncInit /\ LogInit /\ RecInit
    /\ focus \in {"files", "video", "keys", "wire"}
    /\ focus # "files" => \A s \in Sessions, r \in Readers :
                             ~rec[s].include /\ ~rec[s].reuse /\ ~rdr[r].force
    /\ focus # "wire" => path = "recording"

Next ==
    /\ \/ focus = "video" /\ EncNext /\ UNCHANGED <<logVars, recVars, wireVars>>
       \/ focus = "keys" /\ LogNext /\ UNCHANGED <<encVars, recVars, wireVars>>
       \/ focus = "files" /\ RecNext /\ UNCHANGED <<encVars, logVars, wireVars>>
       \/ focus = "wire" /\ WireNext /\ UNCHANGED <<encVars, logVars, recVars>>
    /\ UNCHANGED focus

vars == <<encVars, logVars, recVars, wireVars, focus>>

(* The display of guacenc, the keys of guaclog and the recordings are what *)
(* their structures allow; above all, the parent of a layer is a layer.    *)
TypeOK ==
    /\ disp \in DisplayState
    /\ keys \in Seq(KeyState) /\ Len(keys) <= MaxKeys
    /\ rec \in [Sessions -> RecordingState]

Spec == Init /\ [][Next]_vars

-----------------------------------------------------------------------------
(* What a viewer should see of layer i: its own pixels under the pictures  *)
(* of its visible children, the child with the lower z nearer the viewer.  *)
Children(d, i) == {j \in Live(d) : d.layers[j].parent = i /\ d.layers[j].opacity > 0}
RECURSIVE Picture(_, _)
Picture(d, i) ==
    LET l == d.layers[i]
        hit(x) == {j \in Children(d, i) : At(Picture(d, j), x - d.layers[j].x) # Null}
        top(x) == CHOOSE j \in hit(x) : \A k \in hit(x) \ {j} :
                      d.layers[j].z < d.layers[k].z \/ (d.layers[j].z = d.layers[k].z /\ j > k)
    IN [k \in DOMAIN l.buffer.px |->
           IF hit(k - 1) = {} THEN l.buffer.px[k]
           ELSE At(Picture(d, top(k - 1)), k - 1 - d.layers[top(k - 1)].x)]

(* guacenc_display_flatten: the picture of a "sync" is that of the tree of *)
(* layers, in whatever order they were created, moved, resized, disposed   *)
(* and created again.                                                      *)
FlattenComplete ==
    /\ disp.flat # Null
    /\ ~disp.crashed
    /\ \A i \in Live(disp) : ~Circular(disp, i)
    => disp.flat = IF disp.layers[0] = Null THEN <<>> ELSE Picture(disp, 0)
=============================================================================
