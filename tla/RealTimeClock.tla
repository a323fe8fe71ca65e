---------------------------- MODULE RealTimeClock ----------------------------
(***************************************************************************)
(* The TC8250 clock of tc8250.c with its write port (IoWrite, RTCWRITE)    *)
(* and its read port (IoRead).  It keeps no time: each read of a digit     *)
(* asks the host for its local time anew, and the setters are empty, so    *)
(* that the address is all the state there is.  chip_enable, the latch     *)
(* enable and write_enable are set again by every write before one of them *)
(* is looked at, and only the latch enable has an effect that shows.       *)
(*                                                                         *)
(* A register is a pair <<field, digit>>; the codes that select none of    *)
(* them read as zero and are left out.  The guest reads a date digit by    *)
(* digit, in any order: date holds the digits it has, asked the register   *)
(* it last selected, and began when it started.                            *)
(***************************************************************************)
EXTENDS Integers

CONSTANTS Fields,   \* the fields of struct tm the guest asks for
          LastTime, \* bound on the host's clock
          Tm        \* localtime_r: the value of each field at each instant

ASSUME ClockAssumption ==
  /\ LastTime \in Nat
  /\ Tm \in [0..LastTime -> [Fields -> 0..99]]

VARIABLES now,      \* the host's clock
          address,  \* rtc_ctx.address
          asked,    \* what the guest last selected
          date,     \* the digits the guest has read since it began
          began     \* when it began

clock == <<now, address, asked, date, began>>

Digits == {"ONE", "TEN"}
Registers == Fields \X Digits
NotRead == -1

ClockTypeOK ==
  /\ now \in 0..LastTime /\ began \in 0..now
  /\ address \in Registers /\ asked \in Registers
  /\ date \in [Registers -> -1..9]

\* The get_ functions and their digits.  The year is always 87.
Digit(r, t) ==
  LET v == IF r[1] = "year" THEN 87 ELSE Tm[t][r[1]]
  IN IF r[2] = "ONE" THEN v % 10 ELSE v \div 10

\* tc8250_init selects register 0, the seconds.
ClockInit ==
  /\ now = 0 /\ began = 0
  /\ address = <<"second", "ONE">> /\ asked = address
  /\ date = [r \in Registers |-> NotRead]

HostClock ==
  /\ now < LastTime /\ now' = now + 1
  /\ UNCHANGED <<address, asked, date, began>>

\* Mutant of RtcWrite: the data of a write to a digit are taken for an address.
RtcWriteAlwaysLatches(r, ale) ==
  /\ address' = r
  /\ asked' = IF ale THEN r ELSE asked
  /\ UNCHANGED <<now, date, began>>

\* RTCWRITE: with the latch enable up the nibble is an address, otherwise the
\* value of a digit, which no setter keeps.
RtcWrite(r, ale) ==
  /\ IF ale THEN address' = r /\ asked' = r ELSE UNCHANGED <<address, asked>>
  /\ UNCHANGED <<now, date, began>>

BeginDate ==
  /\ date' = [r \in Registers |-> NotRead]
  /\ began' = now
  /\ UNCHANGED <<now, address, asked>>

\* tc8250_read_reg, for the digit the guest takes it for.
RtcRead ==
  /\ date[asked] = NotRead
  /\ date' = [date EXCEPT ![asked] = Digit(address, now)]
  /\ UNCHANGED <<now, address, asked, began>>

ClockGuest ==
  \/ \E r \in Registers, ale \in BOOLEAN : RtcWrite(r, ale)
  \/ BeginDate \/ RtcRead

-----------------------------------------------------------------------------
\* A date read digit by digit is one of the instants it was read at, unless a
\* digit other than the seconds' last one changed in between: then it may be no
\* moment at all (each tc8250_read_reg calls time()).
Carried == \E r \in Registers \ {<<"second", "ONE">>} : Digit(r, began) # Digit(r, now)

DateOfOneMoment ==
  (\A r \in Registers : date[r] # NotRead) /\ ~Carried =>
    \E t \in began..now : \A r \in Registers : date[r] = Digit(r, t)
=============================================================================
