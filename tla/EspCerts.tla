------------------------------- MODULE EspCerts -------------------------------
(* The pure parts of the ESP32 crypto binding: the DER encoding of an RSA key, *)
(* the calendar of certificates, and the verdict on a certificate. A state is  *)
(* an input; the calendar walks from day to day.                               *)
EXTENDS Integers, Sequences, FiniteSets

CONSTANTS
    Moduli, Exponents,   \* RSA numbers, sequences of bytes
    FirstYear, LastYear, \* the years the calendar walks through
    Times                \* times of the certificates and of the clocks

VARIABLE in   \* the input: of a kind, and what it consists of
vars == <<in>>

----------------------------------------------------------------------------
(* DER.                                                                     *)
DerLenLen(n) == IF n < 128 THEN 1 ELSE IF n <= 255 THEN 2 ELSE IF n <= 65535 THEN 3 ELSE 4

DerLen(n) ==
    IF n < 128 THEN <<n>>
    ELSE IF n <= 255 THEN <<129, n>>
    ELSE IF n <= 65535 THEN <<130, n \div 256, n % 256>>
    ELSE <<131, (n \div 65536) % 256, (n \div 256) % 256, n % 256>>

\* strip_leading_zeroes keeps one byte
Strip(v) == LET k == CHOOSE i \in DOMAIN v : /\ v[i] # 0 \/ i = Len(v)
                                             /\ \A j \in 1..(i-1) : v[j] = 0
            IN  SubSeq(v, k, Len(v))

\* mutant: the sign bit is forgotten
ValueUnsigned(v) == Strip(v)

\* a number whose top bit is set is led by a zero byte
Value(v) == LET s == Strip(v) IN IF s[1] >= 128 THEN <<0>> \o s ELSE s

Integer(v)      == <<2>> \o DerLen(Len(Value(v))) \o Value(v)
IntegerSize(v)  == 1 + DerLenLen(Len(Value(v))) + Len(Value(v))
SequenceLen(m, e) == IntegerSize(m) + IntegerSize(e)
PublicKeyLen(m, e) == 1 + DerLenLen(SequenceLen(m, e)) + SequenceLen(m, e)
PublicKey(m, e) == <<48>> \o DerLen(SequenceLen(m, e)) \o Integer(m) \o Integer(e)

----------------------------------------------------------------------------
(* The calendar; C divides towards zero.                                    *)
Quotient(a, b) == IF a >= 0 THEN a \div b ELSE -((-a) \div b)

\* mutant: a year is not taken to begin in March
YearOf(d) == d.year

MarchYear(d) == d.year - IF d.month <= 2 THEN 1 ELSE 0

DaysFromCivil(d) ==
    LET year == MarchYear(d)
        era  == Quotient(IF year >= 0 THEN year ELSE year - 399, 400)
        yoe  == year - era * 400
        doy  == Quotient(153 * (d.month + IF d.month > 2 THEN -3 ELSE 9) + 2, 5) + d.day - 1
        doe  == yoe * 365 + Quotient(yoe, 4) - Quotient(yoe, 100) + doy
    IN  era * 146097 + doe - 719468

----------------------------------------------------------------------------
(* The verdict. The library checks the chain, and the validity against the   *)
(* platform's clock, which may not be set; the binding against its caller's.  *)
(* With an older library the binding checks the signature itself.             *)
TimeFlags == {"expired", "future"}
LibraryFlags(s, platform) ==
    (IF s.named /\ s.signed THEN {} ELSE {"notTrusted"})
    \cup (IF platform > s.to THEN {"expired"} ELSE {})
    \cup (IF platform < s.from THEN {"future"} ELSE {})

\* mutant: the platform's clock has a say
Forgiven(flags) == flags = {}

\* time_flags are not held against the certificate
Harmless(flags) == flags \subseteq TimeFlags

\* verify_cert_signature: the issuer's name, a digest and a key that can be
\* used, and the signature
SignatureHolds(s) == s.named /\ s.usable /\ s.signed

Verify(s, now, platform) ==
    /\ s.parses
    /\ ~(now < s.from \/ now > s.to)
    /\ IF s.newLibrary THEN Harmless(LibraryFlags(s, platform)) ELSE SignatureHolds(s)

\* the names are tried in turn; one that is no DNS name, or does not parse, is
\* passed over, and none is matched in part
VerifyHostname(sans, host) == \E i \in DOMAIN sans : sans[i] = [type |-> "dns", name |-> host]

----------------------------------------------------------------------------
Sans  == [type: {"dns", "ip", "bad"}, name: {"host", "hos", "other"}]
Certs == [parses: BOOLEAN, from: Times, to: Times, named: BOOLEAN, usable: BOOLEAN,
          signed: BOOLEAN, newLibrary: BOOLEAN]

Init ==
    \/ \E m \in Moduli, e \in Exponents : in = [kind |-> "key", m |-> m, e |-> e]
    \/ in = [kind |-> "date", year |-> FirstYear, month |-> 1, day |-> 1, n |-> 0]
    \/ \E s \in Certs, now \in Times, platform \in Times :
          in = [kind |-> "cert", s |-> s, now |-> now, platform |-> platform]
    \/ \E n \in 0..2 : \E sans \in [1..n -> Sans] : in = [kind |-> "names", sans |-> sans]

Leap(y) == y % 4 = 0 /\ (y % 100 # 0 \/ y % 400 = 0)
MonthLen(y, m) == IF m = 2 THEN IF Leap(y) THEN 29 ELSE 28
                  ELSE IF m \in {4, 6, 9, 11} THEN 30 ELSE 31

NextDay ==
    /\ in.kind = "date" /\ in.year <= LastYear
    /\ in' = IF in.day < MonthLen(in.year, in.month)
             THEN [in EXCEPT !.day = @ + 1, !.n = @ + 1]
             ELSE IF in.month < 12
             THEN [in EXCEPT !.month = @ + 1, !.day = 1, !.n = @ + 1]
             ELSE [in EXCEPT !.year = @ + 1, !.month = 1, !.day = 1, !.n = @ + 1]
Next == NextDay
Spec == Init /\ [][Next]_vars

----------------------------------------------------------------------------
\* The size computed before the buffer is allocated is the size of what is
\* written to it, and a reader of the encoding finds the two numbers, without
\* leading zeroes and not negative.
ReadLen(s)  == IF s[1] < 128 THEN s[1] ELSE IF s[1] = 129 THEN s[2] ELSE s[2] * 256 + s[3]
HeadLen(s)  == IF s[1] < 128 THEN 1 ELSE s[1] - 127
Body(s)     == LET t == Tail(s) IN SubSeq(t, HeadLen(t) + 1, HeadLen(t) + ReadLen(t))
After(s)    == LET t == Tail(s) IN SubSeq(t, HeadLen(t) + ReadLen(t) + 1, Len(t))
Reads(s, v) == s[1] = 2 /\ Body(s)[1] < 128 /\ Strip(Body(s)) = Strip(v)
KeyExact == in.kind = "key" =>
    LET key == PublicKey(in.m, in.e)
        two == Body(key)
    IN  /\ Len(key) = PublicKeyLen(in.m, in.e)
        /\ key[1] = 48 /\ After(key) = <<>>
        /\ Reads(two, in.m) /\ Reads(After(two), in.e)
        /\ After(After(two)) = <<>>

\* Every day counts one more than the day before it, over leap years, the
\* centuries that are none and the year 2000, and the count is zero on the
\* first of January 1970.
Date(y, m, d) == [year |-> y, month |-> m, day |-> d]
DaysExact == in.kind = "date" =>
    /\ DaysFromCivil(in) = in.n + DaysFromCivil(Date(FirstYear, 1, 1))
    /\ DaysFromCivil(Date(1970, 1, 1)) = 0

\* A certificate is accepted exactly when its chain holds and the caller's
\* clock is within its time, whatever the platform's clock says, with either
\* library (a digest the older one does not know refuses it as well); and it is
\* taken for a host's only by a DNS name that is the host's, whole.
VerdictExact ==
    /\ in.kind = "cert" =>
          (Verify(in.s, in.now, in.platform) <=>
              /\ in.s.parses /\ in.s.named /\ in.s.signed
              /\ in.s.usable \/ in.s.newLibrary
              /\ in.now \in in.s.from..in.s.to)
    /\ in.kind = "names" =>
          (VerifyHostname(in.sans, "host") <=>
              Cardinality({i \in DOMAIN in.sans : in.sans[i].type = "dns" /\ in.sans[i].name = "host"}) > 0)
=============================================================================
