------------------------------ MODULE Messages -------------------------------
(***************************************************************************)
(* What the program makes of the texts it reads: the loops that decode an  *)
(* SSID (hostapd/status.go) and the lines about a station or a status      *)
(* (station.go, status.go), and the three forms of a MAC address: what     *)
(* hostapd's parsers accept (hostapd/mac.go), what the daemon decodes and  *)
(* prints (presence/mac.go), and what goes into topics (hass/topics.go).   *)
(*                                                                         *)
(* A text is a sequence of characters, or of lines, of a small alphabet    *)
(* that has one of each sort that the code tells apart.                    *)
(***************************************************************************)
EXTENDS Naturals, Sequences, SequencesExt, FiniteSets

CONSTANTS MaxSsid,   \* bound on the length of an SSID
          MaxLines,  \* bound on the lines of an answer
          MaxMac,    \* bound on the characters of an address
          Bytes      \* of an address; in the code there are six

ASSUME LengthAssumption == {MaxSsid, MaxLines, MaxMac} \subseteq Nat
ASSUME BytesAssumption  == Bytes \in Nat \ {0}

VARIABLES
  task,   \* what is decoded: "ssid", "station", "status" or "mac"
  told,   \* what hostapd means by it
  text,   \* what is left of the text
  got,    \* what has been made of it
  end     \* "" while the loop goes on, then "ok" or "error"

vars == <<task, told, text, got, end>>

------------------------------------------------------------------------------
(* SSIDs.  A hexadecimal digit "a"; the letters of two escapes; the two     *)
(* characters that are escaped by themselves; a line feed; the byte 0xAA.   *)

SsidChar == {"a", "n", "x", "quote", "backslash", "LF", "AA"}

\* hostapd's printf_encode
PrintfEncode(c) ==
    CASE c = "quote"     -> <<"backslash", "quote">>
      [] c = "backslash" -> <<"backslash", "backslash">>
      [] c = "LF"        -> <<"backslash", "n">>
      [] c = "AA"        -> <<"backslash", "x", "a", "a">>
      [] OTHER           -> <<c>>

Encoded(ssid) == FlattenSeq([i \in DOMAIN ssid |-> PrintfEncode(ssid[i])])

\* What the character after a backslash stands for.
Escape(c) == IF c = "n" THEN "LF" ELSE c

Start(s, n) == SubSeq(s, 1, IF n < Len(s) THEN n ELSE Len(s))

Continues(n, chars) ==
    /\ text' = SubSeq(text, n + 1, Len(text))
    /\ got' = got \o chars
    /\ UNCHANGED <<task, told, end>>

Stops(how) == end' = how /\ UNCHANGED <<task, told, text, got>>

DecodePlain ==
    /\ task = "ssid" /\ end = "" /\ text # <<>>
    /\ Head(text) # "backslash"
    /\ Continues(1, <<Head(text)>>)

DecodeEscape ==
    /\ task = "ssid" /\ end = "" /\ Len(text) > 1
    /\ text[1] = "backslash" /\ text[2] # "x"
    /\ Continues(2, <<Escape(text[2])>>)

\* Faulty DecodeHex: one digit is one byte.
DecodeHexDigit ==
    /\ task = "ssid" /\ end = "" /\ Len(text) > 1
    /\ text[1] = "backslash" /\ text[2] = "x"
    /\ LET digits == Start(SubSeq(text, 3, Len(text)), 1) IN
       IF Len(digits) = 1
         THEN Continues(3, <<"AA">>)
         ELSE Continues(2, <<>>)

\* Two hexadecimal digits are a byte and one is an error; but at the end of the
\* text there is nothing to copy, which is none.
DecodeHex ==
    /\ task = "ssid" /\ end = "" /\ Len(text) > 1
    /\ text[1] = "backslash" /\ text[2] = "x"
    /\ LET digits == Start(SubSeq(text, 3, Len(text)), 2) IN
       CASE digits = <<"a", "a">> -> Continues(4, <<"AA">>)
         [] digits = <<>>         -> Continues(2, <<>>)
         [] OTHER                 -> Stops("error")

DecodeDangling == task = "ssid" /\ end = "" /\ text = <<"backslash">> /\ Stops("error")
DecodeDone     == task = "ssid" /\ end = "" /\ text = <<>> /\ Stops("ok")

------------------------------------------------------------------------------
(* The answers about a station and about the status, line by line.         *)

Line == {"mac", "flags=[ASSOC]", "flags=", "number", "nonumber", "other=", "noequals"}
Bad  == {"mac", "nonumber", "noequals"}
NoStation == [mac |-> FALSE, assoc |-> FALSE]

StationFirstLine ==
    /\ task = "station" /\ end = "" /\ text # <<>> /\ ~got.mac
    /\ IF Head(text) = "mac"
         THEN /\ got' = [got EXCEPT !.mac = TRUE]
              /\ text' = Tail(text)
              /\ UNCHANGED <<task, told, end>>
         ELSE Stops("error")

\* Faulty StationLine: flags once seen stay.
StationLineKeeps ==
    /\ task = "station" /\ end = "" /\ text # <<>> /\ got.mac
    /\ IF Head(text) \in Bad
         THEN Stops("error")
         ELSE /\ got' = [got EXCEPT !.assoc = @ \/ Head(text) = "flags=[ASSOC]"]
              /\ text' = Tail(text)
              /\ UNCHANGED <<task, told, end>>

\* A line without "=" is an error, and so is a number that is none; each line
\* with the flags sets Associated anew, and unknown keys are left out.
StationLine ==
    /\ task = "station" /\ end = "" /\ text # <<>> /\ got.mac
    /\ IF Head(text) \in Bad
         THEN Stops("error")
         ELSE /\ got' = [got EXCEPT !.assoc =
                            IF Head(text) \in {"flags=[ASSOC]", "flags="}
                              THEN Head(text) = "flags=[ASSOC]" ELSE @]
              /\ text' = Tail(text)
              /\ UNCHANGED <<task, told, end>>

StationDone == task = "station" /\ end = "" /\ text = <<>> /\ Stops("ok")

StatusLine ==
    /\ task = "status" /\ end = "" /\ text # <<>>
    /\ IF Head(text) \in Bad
         THEN Stops("error")
         ELSE text' = Tail(text) /\ UNCHANGED <<task, told, got, end>>

StatusDone == task = "status" /\ end = "" /\ text = <<>> /\ Stops("ok")

------------------------------------------------------------------------------
(* Addresses: two hexadecimal digits in both cases, a colon and a character *)
(* that is none of them.                                                    *)

MacChar == {"A", "a", "B", "b", ":", "g"}
Digit   == {"A", "a", "B", "b"}
ToLower(c) == CASE c = "A" -> "a" [] c = "B" -> "b" [] OTHER -> c
ToUpper(c) == CASE c = "a" -> "A" [] c = "b" -> "B" [] OTHER -> c

\* The regular expression of hostapd's parsers.
IsMAC(t) ==
    /\ Len(t) = 3 * Bytes - 1
    /\ \A i \in DOMAIN t : IF i % 3 = 0 THEN t[i] = ":" ELSE t[i] \in Digit

\* Faulty WithoutColons: one colon is left.
WithAColon(t) == t

\* As many colons go as an address has, wherever they are.
WithoutColons(t) ==
    LET colons == {i \in DOMAIN t : t[i] = ":"}
        first  == {i \in colons : Cardinality({j \in colons : j < i}) < Bytes - 1}
    IN  [k \in 1..(Len(t) - Cardinality(first)) |->
            t[CHOOSE i \in DOMAIN t \ first :
                  Cardinality({j \in DOMAIN t \ first : j < i}) = k - 1]]

\* hex.DecodeString takes whole bytes, in either case.
IsHex(s) == Len(s) % 2 = 0 /\ \A i \in DOMAIN s : s[i] \in Digit

\* MAC.Decode: the bytes, or an error.
Decodes(t) == IsHex(WithoutColons(t)) /\ Len(WithoutColons(t)) = 2 * Bytes
Decode(t) == LET s == WithoutColons(t) IN [i \in DOMAIN s |-> ToLower(s[i])]

\* MAC.String, and JSON with quotes around it.
String(mac) ==
    [i \in 1..(3 * Bytes - 1) |->
        IF i % 3 = 0 THEN ":" ELSE ToUpper(mac[i - i \div 3])]
MarshalJSON(mac) == <<"quote">> \o String(mac) \o <<"quote">>
UnmarshalJSON(t) == Decode(SubSeq(t, 2, Len(t) - 1))

\* sanitizeMACTopic
SanitizeMAC(t) == [i \in DOMAIN t |-> IF t[i] = ":" THEN "-" ELSE ToLower(t[i])]

\* VendorByMAC knows the vendor by the first half of an address.
VendorMACs == {[i \in 1..Bytes |-> IF i = 1 THEN "a" ELSE "b"]}
VendorByMAC(t) ==
    LET s == WithoutColons(t) IN
    IF IsHex(s) /\ Len(s) >= Bytes /\ SubSeq(Decode(t), 1, Bytes) \in VendorMACs
      THEN "vendor" ELSE ""

DecodeMAC ==
    /\ task = "mac" /\ end = ""
    /\ IF Decodes(text) THEN end' = "ok" /\ got' = Decode(text)
                        ELSE end' = "error" /\ UNCHANGED got
    /\ UNCHANGED <<task, told, text>>

------------------------------------------------------------------------------
\* hostapd encodes an SSID; the text may be cut where the buffer ends.
InitSsid ==
    /\ task = "ssid"
    /\ \E ssid \in BoundedSeq(SsidChar, MaxSsid) : \E cut \in 0..Len(Encoded(ssid)) :
          /\ told = [ssid |-> ssid, cut |-> cut]
          /\ text = Start(Encoded(ssid), cut)
    /\ got = <<>>

InitLines ==
    /\ task \in {"station", "status"}
    /\ told \in BoundedSeq(Line, MaxLines)
    /\ text = told
    /\ got = NoStation

InitMac ==
    /\ task = "mac"
    /\ told \in BoundedSeq(MacChar, MaxMac)
    /\ text = told
    /\ got = <<>>

Init == end = "" /\ (InitSsid \/ InitLines \/ InitMac)

Next ==
    \/ DecodePlain \/ DecodeEscape \/ DecodeHex \/ DecodeDangling \/ DecodeDone
    \/ StationFirstLine \/ StationLine \/ StationDone
    \/ StatusLine \/ StatusDone
    \/ DecodeMAC

Spec == Init /\ [][Next]_vars

------------------------------------------------------------------------------
\* The SSID that is told to Home Assistant is the one that hostapd means: what
\* has been decoded never differs from it, however the text was cut, and a text
\* that was not cut is decoded whole and without an error (status.go:72-128).
SsidSurvives ==
    task = "ssid" =>
        /\ IsPrefix(got, told.ssid)
        /\ end # "" /\ told.cut = Len(Encoded(told.ssid)) => end = "ok" /\ got = told.ssid

\* A bad line anywhere is an error, whatever came before it; and the last line of
\* flags decides whether a station counts as associated (station.go:24-96,
\* status.go:26-70).
LinesDecide ==
    task \in {"station", "status"} /\ end = "ok" =>
        LET flags == {i \in DOMAIN told : told[i] \in {"flags=[ASSOC]", "flags="}} IN
        /\ \A i \in DOMAIN told : told[i] \notin Bad \/ (i = 1 /\ task = "station")
        /\ task = "station" /\ told # <<>> =>
              /\ told[1] = "mac"
              /\ got.assoc <=> \E i \in flags :
                                  (\A j \in flags : j <= i) /\ told[i] = "flags=[ASSOC]"

\* An address that hostapd's parsers accept is never an error to the daemon, in
\* either case of its digits; it names the station of the configuration, whose
\* own text may be any that decodes, and both share their topics; and what the
\* daemon prints decodes to the same (daemon.go:218, 379, 437, 519, mac.go:13-52).
OneStationOneName ==
    task = "mac" =>
        /\ end = "error" => ~IsMAC(told)
        /\ end = "ok" =>
              /\ IsMAC(String(got)) /\ Decode(String(got)) = got
              /\ UnmarshalJSON(MarshalJSON(got)) = got
              /\ VendorByMAC(told) = VendorByMAC(String(got))
              /\ IsMAC(told) => SanitizeMAC(told) = SanitizeMAC(String(got))
==============================================================================
