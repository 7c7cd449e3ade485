------------------------------- MODULE MCRdp --------------------------------
(* The drive and the printer of an RDP connection on small instances.  The  *)
(* two devices share nothing, so a behaviour exercises one of them.         *)
EXTENDS RdpDrive, RdpPrint, TLC

VARIABLE device

vars == <<device, driveVars, printVars>>

\* \, \Download, \a, \Download\a and \a\a
MCPaths == {<<>>, <<"Download">>, <<"a">>, <<"Download", "a">>, <<"a", "a">>}

\* Paths as the owner writes them; some normalise to others.
MCOwnerPaths ==
    {Abs(<<>>), Abs(<<"a">>), Abs(<<"Download", "a">>),
     Abs(<<".", "Download", "x", "..", "a">>), Abs(<<"c:">>)}
MCUploadNames == {"a"}

\* Creates that meet every disposition, access and kind of file.
MCCreates ==
    {<<Abs(<<>>), "read", "OPEN", FALSE>>, <<[abs |-> FALSE, comps |-> <<>>], "read", "OPEN", TRUE>>,
     <<Abs(<<"a">>), "all", "OPEN_IF", FALSE>>, <<Abs(<<"a">>), "write", "SUPERSEDE", FALSE>>,
     <<Abs(<<"a">>), "read", "CREATE", TRUE>>, <<Abs(<<"c:">>), "read", "OPEN", FALSE>>,
     <<Abs(<<"Download", "a">>), "all", "OVERWRITE_IF", FALSE>>,
     <<Abs(<<"Download", "a">>), "write", "CREATE", FALSE>>,
     <<Abs(<<"Download", "a">>), "read", "OVERWRITE", FALSE>>,
     <<Abs(<<"Download">>), "read", "OPEN_IF", TRUE>>, <<Abs(<<"a">>), "read", "UNKNOWN", FALSE>>}

MCRenames == {Abs(<<"a">>), Abs(<<"Download", "a">>), Abs(<<"c:">>)}
MCPatterns == {MCPaths, {<<"a">>}}

\* The drive after the server has made \Download\a and written to it: what
\* Create, Write, Look and Count lead to.
Told == UserLoggedOn(ServerCapable(ServerAnnounced(InitDrive(<<<<"Download">>>>))))
Made == Left("rdp", ProcessCreate(Told, Abs(<<"Download", "a">>), "all", "OVERWRITE_IF", FALSE))
Written == [ProcessWrite(Made, 0, 0, 1) EXCEPT !.fs.n = 1, !.due["rdp"] = NoneDue]

MCInit ==
    /\ DriveInit \/ (drive = Written /\ calls = 0)
    /\ PrintInit
    /\ device \in {"drive", "printer"}
    /\ device = "printer" => drive = InitDrive(<<>>)

\* What the owner does before the server knows the drive commutes with the
\* handshake, so the owner starts after it.
DriveStep == ServerNext \/ CountNext \/ (DeviceList \in drive.chan.told /\ OwnerNext)

MCNext ==
    \/ device = "drive" /\ DriveStep /\ UNCHANGED <<device, printVars>>
    \/ device = "printer" /\ PrintNext /\ UNCHANGED <<device, driveVars>>

MCSpec == MCInit /\ [][MCNext]_vars /\ PrintFairness
=============================================================================
