---------------------------- MODULE MCOcrPipeline ----------------------------
(* Instances of OcrPipeline for TLC: documents of every type, genuine ones as *)
(* they are, with one character of a number misread, and with one field read  *)
(* as something else.  The numbers are those of the repository's tests.       *)
EXTENDS OcrPipeline, TLC

MCToday == [iso |-> TRUE, y |-> 2026, m |-> 7, d |-> 15]
Symmetry == Permutations(Orgs) \cup Permutations(UsageRows) \cup Permutations(Cleaners)

\* Two ways to misread a digit, another character for a letter.
Misread(c) == IF c \in 0 .. 9 THEN {(c + 1) % 10, (c + 5) % 10} ELSE {c - 1}
OneMisread(s, positions) == UNION {{[s EXCEPT ![i] = c] : c \in Misread(s[i])} : i \in positions}
Numbers(s) == OneMisread(s, DOMAIN s) \cup {<<>>, Tail(s), [s EXCEPT ![3] = Other], <<Other>> \o s}

Reading(type, how, doc) == [type |-> type, how |-> how, doc |-> doc]

\* doc with each field in turn replaced by what values gives for it.
With(doc, field, values) == {[doc EXCEPT ![field] = v] : v \in values}
LessOne(set) == {set \ {x} : x \in set}

Dates(x) == {Missing, [x EXCEPT !.iso = FALSE], [x EXCEPT !.d = 31, !.m = 2], [x EXCEPT !.y = 1899],
             [x EXCEPT !.y = 2030], [x EXCEPT !.d = (x.d % 28) + 1], [x EXCEPT !.y = 2010]}

MaleNIK   == <<3,2,0,1,0,2,1,7,0,8,9,0,0,0,0,1>>
FemaleNIK == <<3,2,0,1,0,1,5,5,0,5,9,5,0,0,0,2>>

KTPCards == {
  [nik |-> MaleNIK, birth |-> Day(1990, 8, 17), gender |-> "LAKI-LAKI", citizenship |-> "WNI", has |-> KTPFields],
  [nik |-> FemaleNIK, birth |-> Day(1995, 5, 15), gender |-> "PEREMPUAN", citizenship |-> "WNI", has |-> KTPFields],
  [nik |-> <<3,5,7,8,0,1,2,9,0,2,0,4,0,0,0,3>>, birth |-> Day(2004, 2, 29), gender |-> "LAKI-LAKI",
   citizenship |-> "", has |-> KTPFields]}
KTPAltered(doc) ==
  With(doc, "nik", Numbers(doc.nik)) \cup With(doc, "birth", Dates(doc.birth))
  \cup With(doc, "gender", {"", "L", "LAKI-LAKI", "PEREMPUAN"})
  \cup With(doc, "citizenship", {"INDONESIA", "WNA", "X"}) \cup With(doc, "has", LessOne(KTPFields))
  \cup {[doc EXCEPT !.birth = Missing, !.gender = g] : g \in {"LAKI-LAKI", "PEREMPUAN"}}

SIMCards == {[number |-> [length |-> 14, chars |-> "digits"], class |-> "C1", birth |-> Day(2009, 7, 15),
              gender |-> "PEREMPUAN", blood |-> "", expiry |-> Day(2029, 7, 15), has |-> SIMFields]}
SIMAltered(doc) ==
  With(doc, "number", [length : {11, 12, 16, 17}, chars : {"digits", "lookalikes", "other"}])
  \cup With(doc, "class", {"A", "B2", "X"}) \cup With(doc, "birth", Dates(doc.birth) \cup {Day(2009, 7, 16)})
  \cup With(doc, "gender", {"", "L", "P", "X"}) \cup With(doc, "blood", {"AB", "X"})
  \cup With(doc, "expiry", Dates(doc.expiry)) \cup With(doc, "has", LessOne(SIMFields))

F == Filler
\* The specimen of ICAO 9303, and a child's, born this year.
Specimen == <<21,8,9,8,9,0,2,12,3,6, 30,29,24, 7,4,0,8,1,2,2, 15, 1,2,0,4,1,5,9,
              35,14,1,8,4,2,2,6,11,F,F,F,F,F,1,0>>
Child ==
  LET number == <<33,1,2,3,4,5,6,7,F>>
      birth  == <<2,6,0,1,2,0>>
      expiry == <<3,1,0,1,1,9>>
      personal == [i \in 1 .. 14 |-> F] \o <<0>>
      first == number \o <<MRZCheckDigit(number)>>
      dates == birth \o <<MRZCheckDigit(birth)>>
      rest  == expiry \o <<MRZCheckDigit(expiry)>> \o personal
  IN first \o <<18,13,23>> \o dates \o <<22>> \o rest \o <<MRZCheckDigit(first \o dates \o rest)>>

MRZ(line) == [td3 |-> TRUE, name |-> "ok", line |-> line]
Passports == {
  [number |-> <<21,8,9,8,9,0,2,12,3>>, nationality |-> "UTO", birth |-> Day(1974, 8, 12), gender |-> "F",
   name |-> "ok", issue |-> Day(2007, 4, 15), expiry |-> Day(2012, 4, 15), has |-> {"place", "office"},
   mrz |-> MRZ(Specimen)],
  [number |-> <<33,1,2,3,4,5,6,7>>, nationality |-> "", birth |-> Day(2026, 1, 20), gender |-> "M",
   name |-> "ok", issue |-> Missing, expiry |-> Day(2031, 1, 19), has |-> {"place", "office"},
   mrz |-> MRZ(Child)]}
CheckedInMRZ == (1 .. 10) \cup (14 .. 20) \cup (22 .. 28) \cup (29 .. 37) \cup {43, 44}
PassportMisread(doc) ==
  {[doc EXCEPT !.mrz.line = l] :
     l \in OneMisread(doc.mrz.line, {i \in CheckedInMRZ : doc.mrz.line[i] # F})}
PassportAltered(doc) ==
  With(doc, "number", {<<>>, <<1,2,3,4,5,6,7,8>>, <<10,1,2,3,4,5,6,7>>, <<10,1>>, [doc.number EXCEPT ![4] = F],
                       [doc.number EXCEPT ![4] = Other]})
  \cup With(doc, "nationality", {"INDONESIA", "WNI", "IDN"}) \cup With(doc, "birth", Dates(doc.birth))
  \cup With(doc, "gender", {"", "W", "L", "X"}) \cup With(doc, "name", {"", "short"})
  \cup {[doc EXCEPT !.name = "", !.mrz.name = n] : n \in {"", "short"}}
  \cup {[doc EXCEPT !.mrz.line[21] = c] : c \in {F, Other, 33, 22, 15}}
  \cup {[doc EXCEPT !.mrz.line[43] = c] : c \in {F, Other, 0}}
  \cup With(doc, "issue", Dates(doc.expiry)) \cup With(doc, "expiry", Dates(doc.expiry))
  \cup With(doc, "has", LessOne(doc.has)) \cup With(doc, "mrz", {NoMRZ, [doc.mrz EXCEPT !.td3 = FALSE]})

NPWP15 == <<0,9,2,5,4,2,9,4,3,4,0,7,0,0,0>>
NPWPCards == {
  [npwp |-> NPWP15, nik |-> <<>>, registered |-> Missing, has |-> {"nama", "alamat", "kpp"}],
  [npwp |-> <<0,9,Other,2,5,4,2,9,4,3,Other,4,0,7,0,0,0>>, nik |-> MaleNIK, registered |-> Day(2026, 7, 16),
   has |-> {"nama", "alamat", "kpp"}],
  [npwp |-> MaleNIK, nik |-> <<>>, registered |-> Day(2020, 1, 1), has |-> {"nama", "alamat", "kpp"}]}
NPWPMisread(doc) == IF doc.npwp = NPWP15 THEN With(doc, "npwp", OneMisread(doc.npwp, 1 .. 9)) ELSE {}
NPWPAltered(doc) ==
  With(doc, "npwp", (Numbers(doc.npwp) \ OneMisread(doc.npwp, 1 .. 9)) \cup {<<0>> \o NPWP15} \cup {<<0>> \o n : n \in Numbers(NPWP15)})
  \cup With(doc, "nik", Numbers(MaleNIK) \cup {<<Other>>}) \cup With(doc, "has", LessOne(doc.has))
  \cup With(doc, "registered", Dates(Day(2026, 7, 16)) \cup {Day(2026, 7, 17)})

\* BUDI AGUS SANTOSO
BudiNames == <<"BUDI", " ", "AGUS", " ", "SANTOSO">>
Budi == [nama |-> BudiNames, nik |-> MaleNIK, gender |-> "LAKI-LAKI", relation |-> "KEPALA KELUARGA"]
Siti == [nama |-> <<"SITI">>, nik |-> FemaleNIK, gender |-> "PEREMPUAN", relation |-> "ISTRI"]
KKCards == {[nomor |-> <<3,1,7,1,0,1,2,9,0,2,2,0,0,0,0,1>>, head |-> <<"BUDI">>, alamat |-> TRUE,
             members |-> <<Budi, Siti>>]}
KKAltered(doc) ==
  With(doc, "nomor", Numbers(doc.nomor)) \cup With(doc, "head",
       {<<>>, <<"SITI">>, BudiNames, <<"AGUS", " ", "SANTOSO">>, BudiNames \o <<" ", "WIJAYA">>,
        <<"BUDI", " ", "SANTOSO">>, <<"SANTOSO", " ", "BUDI">>})
  \cup With(doc, "alamat", {FALSE})
  \cup With(doc, "members", {<<>>, <<Budi>>, <<Siti>>, <<Siti, Budi>>,
       <<Budi, [Siti EXCEPT !.relation = "KEPALA KELUARGA"]>>, <<Budi, [Siti EXCEPT !.relation = "X"]>>,
       <<Budi, [Siti EXCEPT !.gender = "X"]>>, <<Budi, [Siti EXCEPT !.nama = <<>>]>>,
       <<[Budi EXCEPT !.nik = FemaleNIK \o <<1>>], Siti>>})

Sale == [header |-> TRUE, issued |-> Day(2026, 7, 1), due |-> Missing, seller |-> NPWP15, buyer |-> <<>>,
         currency |-> "IDR", items |-> <<[qty |-> 2, price |-> 500, total |-> 1000],
                                         [qty |-> 1, price |-> 9000, total |-> 9000]>>,
         subtotal |-> 10000, discount |-> 0, dpp |-> 10000, ppn |-> 1100, grand |-> 11100]
Invoices == {Sale, [Sale EXCEPT !.items = <<>>, !.due = Day(2026, 8, 1), !.buyer = NPWP15],
             [Sale EXCEPT !.discount = 1000, !.dpp = 9000, !.ppn = 1080, !.grand = 10080],
             [Sale EXCEPT !.ppn = 0, !.grand = 10000]}
Free == [qty |-> 1, price |-> 0, total |-> 0]
InvoiceAltered(d) ==
  With(d, "header", {FALSE}) \cup With(d, "issued", Dates(d.issued)) \cup With(d, "due", Dates(d.issued))
  \cup With(d, "seller", Numbers(NPWP15)) \cup With(d, "currency", {"", "bad"})
  \cup UNION {{[d EXCEPT !.items = items, !.subtotal = s, !.dpp = b] :
                 items \in {d.items, <<>>, <<Free>>, <<[Free EXCEPT !.qty = 0]>>,
                            <<[qty |-> 10, price |-> 1000, total |-> 0]>>,
                            <<[qty |-> 10, price |-> 1000, total |-> 1000]>>}} :
               s \in {0, 10000}, b \in {0, d.dpp}}
  \cup {[d EXCEPT !.subtotal = s, !.discount = c, !.dpp = b, !.ppn = p, !.grand = g] :
          s \in {0, 9997, 10002}, c \in {0, -1, 1000, 10003}, b \in {0, 9000, 10000, -3},
          p \in {0, 990, 1100, 1105, 500, -1}, g \in {0, d.grand, 9990}}
  \* Rejected by the provider's pass, accepted by the handler's.
  \cup {[d EXCEPT !.items = <<[qty |-> 1, price |-> 1, total |-> 1]>>, !.subtotal = -1, !.dpp = 0,
                  !.ppn = 1, !.grand = 1]}

All(type, cards, Misreads(_), Altered(_)) ==
  UNION {{Reading(type, "faithful", doc)} \cup {Reading(type, "misread", d) : d \in Misreads(doc)}
         \cup {Reading(type, "altered", d) : d \in Altered(doc) \ cards} : doc \in cards}
NoMisread(doc) == {}

MCReadings ==
  All("ktp", KTPCards, NoMisread, KTPAltered) \cup All("sim", SIMCards, NoMisread, SIMAltered)
  \cup All("passport", Passports, PassportMisread, PassportAltered)
  \cup All("npwp", NPWPCards, NPWPMisread, NPWPAltered) \cup All("kk", KKCards, NoMisread, KKAltered)
  \cup All("invoice", Invoices, NoMisread, InvoiceAltered)

\* The documents of the tests are genuine; so are some altered ones.
ASSUME FaithfulAssumption == \A x \in MCReadings : x.how = "faithful" => Genuine(x.type, x.doc)
==============================================================================
