---------------------------- MODULE DocumentRules ----------------------------
(***************************************************************************)
(* The deterministic rules of services/ocr: what makes the number of an    *)
(* Indonesian document valid, how the fields read from a KTP, SIM or       *)
(* passport are normalised and scored, and when an NPWP, a family card or  *)
(* an invoice is accepted.                                                 *)
(*                                                                         *)
(* A string is what the rules can tell about it: a number is a sequence of *)
(* characters (digits are 0..9, letters A..Z are 10..35, Filler is the '<' *)
(* of an MRZ, Other is the rest), a date a record, a name of a family card *)
(* the sequence of its parts (letters, words, blanks), a text that only    *)
(* has to be there (or to be long enough, or in a list) a member of `has'. *)
(* Blanks around a field and case are dropped by the code and left out.    *)
(* Scores are percents, amounts integers; messages (issues, errors) are    *)
(* left out.                                                               *)
(***************************************************************************)
EXTENDS Integers, Sequences, FiniteSets, SequencesExt

CONSTANT Today  \* time.Now() as a date; the day is after the first midnight

Filler == 36
Other  == 37
Text   == Seq(0 .. Other)
Digits(s)    == \A i \in DOMAIN s : s[i] \in 0 .. 9
Two(s, i)    == 10 * s[i] + s[i + 1]
Points(c, n) == IF c THEN n ELSE 0
Clamp(n)     == IF n < 0 THEN 0 ELSE IF n > 100 THEN 100 ELSE n
Gap(a, b)    == IF a > b THEN a - b ELSE b - a

\* The sum of a sequence of integers, term by term.
SumOf(t) ==
  LET upTo[k \in 0 .. Len(t)] == IF k = 0 THEN 0 ELSE upTo[k - 1] + t[k] IN upTo[Len(t)]

-----------------------------------------------------------------------------
(* Dates: iso is YYYY-MM-DD, what time.Parse takes; other layouts are not. *)

Date        == [iso : BOOLEAN, y : Int, m : Int, d : Int]
Missing     == [iso |-> TRUE, y |-> 0, m |-> 0, d |-> 0]
Day(y, m, d) == [iso |-> TRUE, y |-> y, m |-> m, d |-> d]
Leap(y)     == y % 4 = 0 /\ (y % 100 # 0 \/ y % 400 = 0)
MonthDays(m, leap) == IF m = 2 THEN (IF leap THEN 29 ELSE 28)
                      ELSE IF m \in {4, 6, 9, 11} THEN 30 ELSE 31

OnCalendar(x) == x.m \in 1 .. 12 /\ x.d \in 1 .. MonthDays(x.m, Leap(x.y))
Parses(x)     == x.iso /\ OnCalendar(x)
Ord(x)        == 10000 * x.y + 100 * x.m + x.d
Past(x)       == Ord(x) <= Ord(Today)

\* normalizeDate: any of the layouts, if it names a day.
NormalDate(x) == IF OnCalendar(x) THEN [x EXCEPT !.iso = TRUE] ELSE x

\* A date of birth, but for the minimum age.
Birth(x) == Parses(x) /\ x.y >= 1900 /\ Past(x)

\* Add(24 * time.Hour)
Tomorrow == IF Today.d < MonthDays(Today.m, Leap(Today.y)) THEN Day(Today.y, Today.m, Today.d + 1)
            ELSE IF Today.m < 12 THEN Day(Today.y, Today.m + 1, 1)
            ELSE Day(Today.y + 1, 1, 1)

ASSUME TodayAssumption == Today \in Date /\ Parses(Today) /\ Today.y >= 2000

-----------------------------------------------------------------------------
(* NIK *)

Provinces == (11 .. 19) \cup {21} \cup (31 .. 36) \cup (51 .. 53) \cup (61 .. 65)
             \cup (71 .. 76) \cup {81, 82} \cup (91 .. 96)

\* A woman's day of birth is written 40 higher.
Female(nik)  == Two(nik, 7) > 40
NIKDay(nik)  == IF Female(nik) THEN Two(nik, 7) - 40 ELSE Two(nik, 7)

\* The serial number is not 0000.
Serial(n) == \E i \in 13 .. 16 : n[i] # 0

ValidNIK(nik) ==
  /\ Len(nik) = 16 /\ Digits(nik)
  /\ Two(nik, 1) \in Provinces
  /\ Two(nik, 3) # 0 /\ Two(nik, 5) # 0
  /\ Serial(nik)
  /\ Two(nik, 7) \notin 32 .. 40
  /\ Two(nik, 9) \in 1 .. 12
  /\ NIKDay(nik) \in 1 .. MonthDays(Two(nik, 9), TRUE)

-----------------------------------------------------------------------------
(* KTP *)

\* "kawin" and "agama" are present if the value is in its list.
KTPFields == {"nama", "tempat", "alamat", "rt_rw", "kelurahan", "kecamatan", "agama", "kawin"}
KTPData == [nik : Text, birth : Date, gender : STRING, citizenship : STRING, has : SUBSET KTPFields]

BirthAgrees(nik, x) == x.d = NIKDay(nik) /\ x.m = Two(nik, 9) /\ x.y % 100 = Two(nik, 11)
GenderAgrees(nik, g) ==
  ~(g = "PEREMPUAN" /\ ~Female(nik)) /\ ~(g = "LAKI-LAKI" /\ Female(nik))

Citizenship(c) == IF c \in {"", "INDONESIA"} THEN "WNI" ELSE c

NormalKTP(doc) == [doc EXCEPT !.citizenship = Citizenship(@)]

KTPAgrees(doc) ==
  /\ Birth(doc.birth) => BirthAgrees(doc.nik, doc.birth)
  /\ GenderAgrees(doc.nik, doc.gender)

KTPScore(n) ==
  LET has(f) == f \in n.has IN
  Clamp((IF ~ValidNIK(n.nik) THEN 0
         ELSE 30 + (IF KTPAgrees(n) THEN Points(Birth(n.birth), 10) ELSE -15))
        + Points(has("nama"), 15) + Points(Birth(n.birth) /\ has("tempat"), 15)
        + Points(n.gender \in {"LAKI-LAKI", "PEREMPUAN"}, 5)
        + Points(has("alamat"), 5) + Points(has("rt_rw"), 5)
        + Points(has("kelurahan") /\ has("kecamatan"), 5)
        + Points(has("agama"), 4) + Points(has("kawin"), 3)
        + Points(n.citizenship \in {"WNI", "WNA"}, 3))

ValidateKTP(doc) == [data |-> NormalKTP(doc), score |-> KTPScore(NormalKTP(doc))]

-----------------------------------------------------------------------------
(* SIM; of the number, lookalikes are letters that stand for digits.         *)

SIMFields  == {"nama", "tempat", "alamat", "pekerjaan", "polda"}
SIMData == [number : [length : Nat, chars : {"digits", "lookalikes", "other"}], class : STRING,
            birth : Date, gender : STRING, blood : STRING, expiry : Date, has : SUBSET SIMFields]
SIMClasses == {"A", "A UMUM", "B I", "B I UMUM", "B II", "B II UMUM",
               "C", "C I", "C II", "D", "D I", "INTERNASIONAL"}

\* The code behind "SIM ", in which the roman numeral may be a digit.
SIMClass(c) ==
  CASE c = "B1" -> "B I" [] c = "B2" -> "B II" [] c = "C1" -> "C I"
    [] c = "C2" -> "C II" [] c = "D1" -> "D I" [] OTHER -> c

ValidSIMNumber(n) == n.length \in 12 .. 16 /\ n.chars \in {"digits", "lookalikes"}

\* minAgeDate: seventeen years before now.
\* AddDate(-17, 0, 0): a leap day that the other year has not is its 1 March.
SeventeenAgo == IF Today.m = 2 /\ Today.d = 29 THEN Day(Today.y - 17, 3, 1)
                                              ELSE Day(Today.y - 17, Today.m, Today.d)
Driver(x) == Birth(x) /\ Ord(x) <= Ord(SeventeenAgo)

SIMGender(g) ==
  CASE g \in {"LAKI-LAKI", "L", "PRIA"} -> "PRIA"
    [] g \in {"PEREMPUAN", "P", "W", "WANITA"} -> "WANITA"
    [] OTHER -> g

NormalSIM(doc) ==
  [doc EXCEPT !.number = IF ValidSIMNumber(@) THEN [@ EXCEPT !.chars = "digits"] ELSE @,
              !.class = SIMClass(@), !.gender = SIMGender(@),
              !.blood = IF @ = "" THEN "-" ELSE @,
              !.birth = NormalDate(@), !.expiry = NormalDate(@)]

SIMScore(n) ==
  LET has(f) == f \in n.has IN
  Clamp(Points(ValidSIMNumber(n.number), 25) + Points(n.class \in SIMClasses, 15)
        + Points(has("nama"), 15) + Points(Driver(n.birth) /\ has("tempat"), 15)
        + Points(Parses(n.expiry) /\ n.expiry.y \in 2000 .. 2100, 10)
        + Points(n.gender \in {"PRIA", "WANITA"}, 5)
        + Points(has("alamat"), 5) + Points(has("pekerjaan"), 5) + Points(has("polda"), 3)
        + Points(n.blood \in {"A", "B", "AB", "O", "-"}, 2))

ValidateSIM(doc) == [data |-> NormalSIM(doc), score |-> SIMScore(NormalSIM(doc))]

-----------------------------------------------------------------------------
(* The machine readable zone of a passport, its second line.                 *)

CharValue(c) == IF c \in {Filler, Other} THEN 0 ELSE c

\* CalculateMRZCheckDigit: weights 7, 3, 1, over and over.
MRZWeight(i) == CASE i % 3 = 1 -> 7 [] i % 3 = 2 -> 3 [] i % 3 = 0 -> 1
MRZCheckDigit(s) == SumOf([i \in 1 .. Len(s) |-> MRZWeight(i) * CharValue(s[i])]) % 10

Century == (Today.y \div 100) * 100

\* Mutant: this year's two digits are taken for the last century's.
MutantBirthYear(yy) == IF yy >= Today.y % 100 THEN Century - 100 + yy ELSE Century + yy

\* ParseMRZDate: which century two digits mean.
BirthYear(yy)  == IF yy > Today.y % 100 THEN Century - 100 + yy ELSE Century + yy
ExpiryYear(yy) == IF Century + yy < Today.y - 30 THEN Century + yy + 100 ELSE Century + yy

\* Any day up to 31 passes; "" (Missing) is an error.
MRZDate(s, year) ==
  IF Digits(s) /\ Two(s, 3) \in 1 .. 12 /\ Two(s, 5) \in 1 .. 31
    THEN Day(year, Two(s, 3), Two(s, 5)) ELSE Missing

MRZBirth(line)  == LET s == SubSeq(line, 14, 19) IN MRZDate(s, BirthYear(Two(s, 1)))
MRZExpiry(line) == LET s == SubSeq(line, 22, 27) IN MRZDate(s, ExpiryYear(Two(s, 1)))

\* 'M', 'F', filler; no other character is a sex.
MRZGender(line) == CASE line[21] = 22 -> "LAKI-LAKI" [] line[21] = 15 -> "PEREMPUAN" [] OTHER -> ""

\* Fillers are trimmed off its right.
MRZNumber(line) ==
  SubSeq(line, 1, CHOOSE n \in 0 .. 9 : /\ n # 0 => line[n] # Filler
                                        /\ \A i \in n + 1 .. 9 : line[i] = Filler)

MRZChecked(line, first, last, check) == line[check] = MRZCheckDigit(SubSeq(line, first, last))

ValidMRZ(line) ==
  /\ MRZChecked(line, 1, 9, 10)
  /\ MRZChecked(line, 14, 19, 20) /\ MRZBirth(line) # Missing
  /\ MRZChecked(line, 22, 27, 28) /\ MRZExpiry(line) # Missing
  /\ IF \A i \in 29 .. 42 : line[i] = Filler THEN line[43] \in {Filler, 0}
                                             ELSE MRZChecked(line, 29, 42, 43)
  /\ line[44] = MRZCheckDigit(SubSeq(line, 1, 10) \o SubSeq(line, 14, 20) \o SubSeq(line, 22, 43))
  /\ line[21] \in {22, 15, Filler}

-----------------------------------------------------------------------------
(* Passport; of the machine readable zone, td3 says that both lines have 44  *)
(* characters and begin with P, name is the first line's.                    *)

NoMRZ == <<>>
Names == {"", "short", "ok"}
PassportData ==
  [number : Text, nationality : STRING, birth : Date, gender : STRING, name : Names, issue : Date,
   expiry : Date, has : SUBSET {"place", "office"},
   mrz : {NoMRZ} \cup [td3 : BOOLEAN, name : Names, line : Text]]

ValidPassportNumber(n) == Len(n) \in 8 .. 9 /\ n[1] \in 10 .. 35 /\ \A i \in DOMAIN n : n[i] \in 0 .. 35

PassportGender(g) ==
  CASE g \in {"M", "L", "PRIA", "LAKI-LAKI"} -> "LAKI-LAKI"
    [] g \in {"F", "P", "W", "WANITA", "PEREMPUAN"} -> "PEREMPUAN"
    [] OTHER -> g

HasTD3(doc) == doc.mrz # NoMRZ /\ doc.mrz.td3

\* The name of the MRZ stands in for one that was not read.
NormalPassport(doc) ==
  [doc EXCEPT !.nationality = IF @ \in {"INDONESIA", "WNI", ""} THEN "IDN" ELSE @,
              !.birth = NormalDate(@), !.issue = NormalDate(@), !.expiry = NormalDate(@),
              !.gender = PassportGender(@),
              !.name = IF @ = "" /\ HasTD3(doc) THEN doc.mrz.name ELSE @]

\* What is subtracted for each printed field the MRZ contradicts.
Contradictions(n) ==
  LET line == n.mrz.line
      differs(a, b, none) == a # none /\ b # none /\ a # b
  IN IF ~HasTD3(n) THEN 0
     ELSE Points(differs(MRZNumber(line), n.number, <<>>), 10)
        + Points(differs(MRZBirth(line), n.birth, Missing), 10)
        + Points(differs(MRZExpiry(line), n.expiry, Missing), 10)
        + Points(differs(MRZGender(line), n.gender, ""), 5)

\* Mutant: the name is checked before the MRZ's one stands in.
MutantNamed(doc) == doc.name = "ok"

Named(doc) == NormalPassport(doc).name = "ok"

PassportScore(n, named) ==
  LET number == ValidPassportNumber(n.number)
      has(f) == f \in n.has
  IN Clamp(Points(number, 25)
        + (IF n.mrz = NoMRZ THEN Points(number, 15)
           ELSE (IF HasTD3(n) /\ ValidMRZ(n.mrz.line) THEN 25 ELSE 10) - Contradictions(n))
        + Points(named, 15) + Points(Birth(n.birth) /\ has("place"), 15)
        + (IF ~Parses(n.expiry) THEN 0
           ELSE IF ~Parses(n.issue) THEN 8 ELSE Points(Ord(n.expiry) > Ord(n.issue), 10))
        + (IF n.nationality = "IDN" THEN 5 ELSE 3)
        + Points(n.gender \in {"LAKI-LAKI", "PEREMPUAN"}, 3) + Points(has("office"), 2))

ValidatePassport(doc) ==
  [data |-> NormalPassport(doc), score |-> PassportScore(NormalPassport(doc), Named(doc))]

-----------------------------------------------------------------------------
(* NPWP *)

NPWPData == [npwp : Text, nik : Text, registered : Date, has : SUBSET {"nama", "alamat", "kpp"}]

\* CleanNPWP, CleanNomorKK: the digits of s in their order.  The k-th digit is
\* the one that has k digits up to it.
DigitsUpTo(s, i) == {j \in 1 .. i : s[j] \in 0 .. 9}
Clean(s) ==
  [k \in 1 .. Cardinality(DigitsUpTo(s, Len(s))) |->
     s[CHOOSE i \in DigitsUpTo(s, Len(s)) : Cardinality(DigitsUpTo(s, i)) = k]]

\* Mutant: 9 is not subtracted from a product above 9.
MutantDoubled(d) == 2 * d

\* A digit at an even position counts twice, and then as the sum of its digits.
Doubled(d) == IF 2 * d > 9 THEN 2 * d - 9 ELSE 2 * d

LuhnSum(n) == n[1] + Doubled(n[2]) + n[3] + Doubled(n[4])
            + n[5] + Doubled(n[6]) + n[7] + Doubled(n[8])

\* CalculateNPWPCheckDigit
NPWPCheckDigit(n) == (10 - (LuhnSum(n) % 10)) % 10

ValidNPWP15(n) ==
  /\ Len(n) = 15 /\ Digits(n)
  /\ Two(n, 1) # 0
  /\ n[9] = NPWPCheckDigit(n)
  /\ \E i \in 10 .. 12 : n[i] # 0

ValidNPWP16(n) ==
  Len(n) = 16 /\ (IF n[1] = 0 THEN ValidNPWP15(SubSeq(n, 2, 16)) ELSE ValidNIK(n))

ValidNPWP(raw) == ValidNPWP15(Clean(raw)) \/ ValidNPWP16(Clean(raw))

\* Two days ahead is the future.
ValidateNPWPData(doc) ==
  /\ ValidNPWP(doc.npwp)
  /\ {"nama", "alamat", "kpp"} \subseteq doc.has
  /\ doc.nik # <<>> => ValidNIK(Clean(doc.nik))
  /\ doc.registered # Missing => Parses(doc.registered) /\ Ord(doc.registered) <= Ord(Tomorrow)

-----------------------------------------------------------------------------
(* Family card *)

KKData ==
  [nomor : Text, head : Seq(STRING), alamat : BOOLEAN,
   members : Seq([nama : Seq(STRING), nik : Text, gender : STRING, relation : STRING])]

KKRelations == {"KEPALA KELUARGA", "SUAMI", "ISTRI", "ANAK", "MENANTU", "CUCU", "ORANG TUA",
                "MERTUA", "FAMILI LAIN", "PEMBANTU", "LAINNYA"}

ValidNomorKK(raw) ==
  LET n == Clean(raw) IN
  /\ Len(n) = 16
  /\ Two(n, 1) \in Provinces
  /\ Serial(n)
  /\ Two(n, 9) \in 1 .. 12
  /\ Two(n, 7) \in 1 .. MonthDays(Two(n, 9), Two(n, 11) % 4 = 0)

Heads(doc) == {i \in DOMAIN doc.members : doc.members[i].relation = "KEPALA KELUARGA"}

\* strings.Contains
Within(part, name) ==
  \E before, after \in 0 .. Len(name) :
    before + Len(part) + after = Len(name) /\ SubSeq(name, before + 1, before + Len(part)) = part

ValidateKK(doc) ==
  /\ ValidNomorKK(doc.nomor)
  /\ doc.head # <<>> /\ doc.alamat
  /\ \A i \in DOMAIN doc.members : LET m == doc.members[i] IN
       /\ m.nama # <<>> /\ ValidNIK(m.nik)
       /\ m.gender \in {"LAKI-LAKI", "PEREMPUAN"} /\ m.relation \in KKRelations
  /\ Cardinality(Heads(doc)) = 1
  /\ \E i \in Heads(doc) : LET name == doc.members[i].nama IN
       Within(name, doc.head) \/ Within(doc.head, name)

-----------------------------------------------------------------------------
(* Invoice; header: its number and the names are there; seller and buyer are *)
(* NPWPs; an amount not read is 0.                                           *)

LineItem == [qty : Int, price : Int, total : Int]
InvoiceData ==
  [header : BOOLEAN, issued : Date, due : Date, seller : Text, buyer : Text, currency : STRING,
   items : Seq(LineItem), subtotal : Int, discount : Int, dpp : Int, ppn : Int, grand : Int]

Rounding == 2  \* floatRoundingTolerance

Placeholder(raw) == raw = <<>> \/ (Len(Clean(raw)) \in {15, 16} /\ \A i \in DOMAIN Clean(raw) : Clean(raw)[i] = 0)

HeaderOK(d) ==
  /\ d.header
  /\ Parses(d.issued) /\ d.issued.y \in 1990 .. 2100
  /\ d.due # Missing => Parses(d.due) /\ Ord(d.due) >= Ord(d.issued)
  /\ Placeholder(d.seller) \/ ValidNPWP(d.seller)
  /\ Placeholder(d.buyer) \/ ValidNPWP(d.buyer)
  /\ d.currency # "bad"

BadItem(it) ==
  \/ it.qty <= 0 \/ it.price < 0
  \/ it.total # 0 /\ Gap(it.total, it.qty * it.price) > Rounding

\* The totals are filled in up to the first bad item.
FilledItems(items) ==
  [i \in DOMAIN items |->
     IF items[i].total = 0 /\ \A j \in 1 .. i : ~BadItem(items[j])
       THEN [items[i] EXCEPT !.total = items[i].qty * items[i].price] ELSE items[i]]

ItemSum(items) == SumOf([i \in DOMAIN items |-> items[i].total])

\* matchPPNRate, times 2000.
PPNRateOK(dpp, ppn) ==
  \/ ppn = 0
  \/ /\ dpp > 0
     /\ \E rate \in {12, 11, 10} :
          Gap(2000 * ppn, 20 * rate * dpp) <= (IF dpp > 4000 THEN dpp ELSE 4000)

\* ValidateInvoice fills amounts in as it goes: [ok, data], the data as it is
\* when the first check fails.
Verdict(ok, d) == [ok |-> ok, data |-> d]

CheckGrandTotal(d) ==
  LET g == IF d.grand = 0 THEN d.dpp + d.ppn ELSE d.grand IN
  Verdict(Gap(g, d.dpp + d.ppn) <= Rounding /\ g > 0, [d EXCEPT !.grand = g])

CheckTax(d) ==
  LET base == IF d.dpp # 0 THEN d
              ELSE IF d.subtotal > 0 THEN [d EXCEPT !.dpp = d.subtotal - d.discount]
              ELSE IF d.grand > 0 THEN [d EXCEPT !.dpp = d.grand - d.ppn, !.subtotal = d.grand - d.ppn]
              ELSE d
  IN IF base.dpp < -Rounding \/ base.ppn < 0 \/ ~PPNRateOK(base.dpp, base.ppn)
       THEN Verdict(FALSE, base) ELSE CheckGrandTotal(base)

CheckDiscount(d) ==
  IF d.discount < 0 \/ (d.subtotal > 0 /\ d.discount > d.subtotal + Rounding)
    THEN Verdict(FALSE, d) ELSE CheckTax(d)

ValidateInvoice(d) ==
  LET items == FilledItems(d.items)
      lined == [d EXCEPT !.items = items]
      sum   == ItemSum(items)
  IN IF ~HeaderOK(d) THEN Verdict(FALSE, d)
     ELSE IF \E i \in DOMAIN items : BadItem(items[i]) THEN Verdict(FALSE, lined)
     ELSE IF items = <<>> THEN CheckDiscount(lined)
     ELSE IF d.subtotal = 0 THEN CheckDiscount([lined EXCEPT !.subtotal = sum])
     ELSE IF Gap(d.subtotal, sum) > Rounding THEN Verdict(FALSE, lined)
     ELSE CheckDiscount(lined)
=============================================================================
