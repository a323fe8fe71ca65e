------------------------------ MODULE MCWD2010 ------------------------------
(* The hard disc controller with one small drive.  The words of the blank   *)
(* drive are numbered by their place; the guest writes two others.          *)
EXTENDS WD2010

Polite == {<<"RESTORE", FALSE>>, <<"SEEK", FALSE>>, <<"READ", FALSE>>,
           <<"READ", TRUE>>, <<"WRITE", FALSE>>, <<"WRITE", TRUE>>,
           <<"FORMAT", FALSE>>, <<"EXT", FALSE>>}
WithScanId == Polite \cup {<<"SCAN_ID", FALSE>>}
SeekOnly == {<<"RESTORE", FALSE>>}

Size(d) == Tracks * Heads * Spt * SecWords
BlankDrives == [d \in Drives |-> [i \in 1..Size(d) |-> 100 * d + i]]
MCMemoryWords == {-1, -2}
MCWords == MCMemoryWords \cup UNION {{BlankDrives[d][i] : i \in 1..Size(d)} : d \in Drives}

\* Addresses on both drives, in and out of range, for one sector and for two; a
\* register holds 0 until it is written.
AllRegisters == [cyl |-> {1, Tracks}, head |-> {1}, sec |-> {1}, count |-> {1, 2},
                 drive |-> {1}]
\* Transfers within one track, on and off its last head and sector.
OneTrack == [head |-> {0, Heads}, sec |-> {0, 1, Spt}, count |-> {1, 2}]
=============================================================================
