--------------------------- MODULE GenuineDocuments ---------------------------
(***************************************************************************)
(* What genuine documents say, as the offices that issue them write them:  *)
(* numbers composed from a region, a birth and a serial, check digits that *)
(* make a sum come out, a machine readable zone that repeats what is       *)
(* printed, amounts worked out from the lines.  It states what the rules   *)
(* of services/ocr are for, apart from how they check it, and models none  *)
(* of its code.                                                            *)
(***************************************************************************)
EXTENDS DocumentRules

\* How old somebody is: a year less before this year's birthday.
LaterInYear(x) == 100 * x.m + x.d > 100 * Today.m + Today.d
Age(x) == Today.y - x.y - (IF LaterInYear(x) THEN 1 ELSE 0)

Born(x) == OnCalendar(x) /\ x.y >= 1900 /\ Past(x)

\* What may be left out.
Citizenships == {"", "INDONESIA", "WNI", "WNA"}
BloodTypes   == {"", "-", "A", "B", "AB", "O"}
Currencies   == {"", "IDR"}

-----------------------------------------------------------------------------
(* KTP: a region, the birth (a woman's day 40 higher) and a serial number.   *)

Region(n) == Two(n, 1) \in Provinces /\ Two(n, 3) # 0 /\ Two(n, 5) # 0

IssuedNIK(nik, birth, woman) ==
  /\ Len(nik) = 16 /\ Digits(nik)
  /\ Region(nik)
  /\ Two(nik, 7) = birth.d + (IF woman THEN 40 ELSE 0)
  /\ Two(nik, 9) = birth.m /\ Two(nik, 11) = birth.y % 100
  /\ Serial(nik)

\* Of somebody whose birth is not printed with it, of this century or the last.
NIKOfSomebody(nik, woman) ==
  /\ Len(nik) = 16
  /\ \E century \in {1900, 2000}, d \in 1 .. 31 :
       LET birth == Day(century + Two(nik, 11), Two(nik, 9), d) IN
       OnCalendar(birth) /\ IssuedNIK(nik, birth, woman)

GenuineKTP(doc) ==
  /\ Born(doc.birth) /\ doc.birth.iso
  /\ doc.gender \in {"LAKI-LAKI", "PEREMPUAN"}
  /\ IssuedNIK(doc.nik, doc.birth, doc.gender = "PEREMPUAN")
  /\ doc.citizenship \in Citizenships
  /\ doc.has = KTPFields

-----------------------------------------------------------------------------
(* SIM: of somebody of seventeen years or more.                              *)

GenuineSIM(doc) ==
  /\ doc.number.length \in 12 .. 16 /\ doc.number.chars = "digits"
  /\ doc.class \in SIMClasses \cup {"B1", "B2", "C1", "C2", "D1"}
  /\ Born(doc.birth) /\ Age(doc.birth) >= 17
  /\ doc.gender \in {"PRIA", "WANITA", "LAKI-LAKI", "PEREMPUAN"}
  /\ doc.blood \in BloodTypes
  /\ OnCalendar(doc.expiry) /\ doc.expiry.y \in 2000 .. 2100
  /\ doc.has = SIMFields

-----------------------------------------------------------------------------
(* Passport: the second line of the MRZ is what is printed above it.         *)

Men   == {"M", "L", "PRIA", "LAKI-LAKI"}
Women == {"F", "P", "W", "WANITA", "PEREMPUAN"}

\* The date x as YYMMDD from the character i on.
WrittenAt(line, i, x) ==
  /\ \A j \in i .. i + 5 : line[j] \in 0 .. 9
  /\ Two(line, i) = x.y % 100 /\ Two(line, i + 2) = x.m /\ Two(line, i + 4) = x.d

\* An empty personal number may have a filler for its check digit.
WrittenMRZ(line, doc) ==
  /\ Len(line) = 44
  /\ \A i \in 1 .. 9 : line[i] = IF i <= Len(doc.number) THEN doc.number[i] ELSE Filler
  /\ WrittenAt(line, 14, doc.birth) /\ WrittenAt(line, 22, doc.expiry)
  /\ line[21] = IF doc.gender \in Men THEN 22 ELSE 15
  /\ MRZChecked(line, 1, 9, 10) /\ MRZChecked(line, 14, 19, 20) /\ MRZChecked(line, 22, 27, 28)
  /\ IF \A i \in 29 .. 42 : line[i] = Filler THEN line[43] \in {Filler, 0}
                                             ELSE MRZChecked(line, 29, 42, 43)
  /\ line[44] = MRZCheckDigit(SubSeq(line, 1, 10) \o SubSeq(line, 14, 20) \o SubSeq(line, 22, 43))

\* The name is in the MRZ too.
NameOf(doc) == IF doc.name = "" THEN doc.mrz.name ELSE doc.name

\* Two digits of a year tell the last hundred years of birth apart, and the
\* expiries of this century from thirty years ago to seventy years ahead.
GenuinePassport(doc) ==
  /\ Len(doc.number) \in 8 .. 9 /\ doc.number[1] \in 10 .. 35
  /\ \A i \in DOMAIN doc.number : doc.number[i] \in 0 .. 35
  /\ Born(doc.birth) /\ doc.birth.y > Today.y - 100
  /\ OnCalendar(doc.expiry)
  /\ doc.expiry.y \in Today.y - 30 .. Today.y + 69 /\ doc.expiry.y >= Century
  /\ doc.issue # Missing => OnCalendar(doc.issue) /\ Ord(doc.issue) < Ord(doc.expiry)
  /\ doc.gender \in Men \cup Women
  /\ HasTD3(doc) /\ WrittenMRZ(doc.mrz.line, doc)
  /\ NameOf(doc) = "ok"
  /\ doc.has = {"place", "office"}

-----------------------------------------------------------------------------
(* NPWP: eight digits, one that makes the weighted sum a multiple of ten,    *)
(* three of the office and three of the branch; or a NIK.                    *)

DigitSum(n) == (n \div 10) + (n % 10)

IssuedNPWP(n) ==
  /\ Len(n) = 15 /\ Digits(n) /\ Two(n, 1) # 0
  /\ (n[1] + DigitSum(2 * n[2]) + n[3] + DigitSum(2 * n[4]) + n[5] + DigitSum(2 * n[6])
      + n[7] + DigitSum(2 * n[8]) + n[9]) % 10 = 0
  /\ \E i \in 10 .. 12 : n[i] # 0

\* Whatever is printed between the digits.
NPWPNumber(s) ==
  LET n == Clean(s) IN
  \/ IssuedNPWP(n)
  \/ Len(n) = 16 /\ n[1] = 0 /\ IssuedNPWP(SubSeq(n, 2, 16))
  \/ \E woman \in BOOLEAN : NIKOfSomebody(n, woman)

\* The registration may be dated in a time zone ahead of the server's.
GenuineNPWP(doc) ==
  /\ NPWPNumber(doc.npwp)
  /\ doc.nik = <<>> \/ \E woman \in BOOLEAN : NIKOfSomebody(Clean(doc.nik), woman)
  /\ doc.registered = Missing
     \/ (Parses(doc.registered) /\ Ord(doc.registered) <= Ord(Tomorrow))
  /\ doc.has = {"nama", "alamat", "kpp"}

-----------------------------------------------------------------------------
(* Family card: a region, the day of its registration, a serial number; one  *)
(* head of the family, whose name the card begins with, in full or not.      *)

KKNumber(s) ==
  LET n == Clean(s) IN
  /\ Len(n) = 16 /\ Region(n) /\ Serial(n)
  /\ \E century \in {1900, 2000} : OnCalendar(Day(century + Two(n, 11), Two(n, 9), Two(n, 7)))

GenuineKK(doc) ==
  /\ KKNumber(doc.nomor)
  /\ doc.head # <<>> /\ doc.alamat
  /\ \A i \in DOMAIN doc.members : LET m == doc.members[i] IN
       /\ m.nama # <<>> /\ m.relation \in KKRelations
       /\ m.gender \in {"LAKI-LAKI", "PEREMPUAN"} /\ NIKOfSomebody(m.nik, m.gender = "PEREMPUAN")
  /\ \E h \in DOMAIN doc.members :
       /\ \A i \in DOMAIN doc.members : doc.members[i].relation = "KEPALA KELUARGA" <=> i = h
       /\ IsPrefix(doc.head, doc.members[h].nama)

-----------------------------------------------------------------------------
(* Invoice: the sum of its lines, less the discount, is the base of a tax    *)
(* at a rate of the law, rounded.  The amounts that follow from others need  *)
(* not be printed.                                                           *)

LinePrices(items) == SumOf([i \in DOMAIN items |-> items[i].qty * items[i].price])

Taxed(base, ppn) == ppn = 0 \/ \E rate \in {10, 11, 12} : Gap(100 * ppn, rate * base) <= 50

Printed(amount, value) == amount \in {0, value}

GenuineInvoice(doc) ==
  LET sum  == IF doc.items = <<>> THEN doc.subtotal ELSE LinePrices(doc.items)
      base == sum - doc.discount
  IN /\ doc.header /\ doc.currency \in Currencies
     /\ Parses(doc.issued) /\ doc.issued.y \in 1990 .. 2100
     /\ doc.due = Missing \/ (Parses(doc.due) /\ Ord(doc.due) >= Ord(doc.issued))
     /\ \A party \in {doc.seller, doc.buyer} : party = <<>> \/ NPWPNumber(party)
     /\ \A i \in DOMAIN doc.items : LET it == doc.items[i] IN
          it.qty > 0 /\ it.price >= 0 /\ Printed(it.total, it.qty * it.price)
     /\ doc.discount >= 0 /\ base > 0 /\ Taxed(base, doc.ppn)
     /\ Printed(doc.subtotal, sum) /\ Printed(doc.dpp, base) /\ Printed(doc.grand, base + doc.ppn)

-----------------------------------------------------------------------------

Genuine(type, doc) == CASE type = "ktp"      -> GenuineKTP(doc)
                        [] type = "sim"      -> GenuineSIM(doc)
                        [] type = "passport" -> GenuinePassport(doc)
                        [] type = "npwp"     -> GenuineNPWP(doc)
                        [] type = "kk"       -> GenuineKK(doc)
                        [] type = "invoice"  -> GenuineInvoice(doc)
=============================================================================
