----------------------------- MODULE OcrPipeline -----------------------------
(***************************************************************************)
(* An OCR request from its arrival to its answer (handlers/ocr.go): quota, *)
(* upload, image check, engine, classification, normalisation, the         *)
(* metadata row; with the provider's own first validation                  *)
(* (providers/gemini.go) and the retention of the row.                     *)
(*                                                                         *)
(* What the provider makes of a picture is a member of Readings: a record  *)
(* [type, how, doc], where how says if doc is what a genuine document      *)
(* says ("faithful"), that with one checked character misread ("misread"), *)
(* or anything else ("altered").                                           *)
(***************************************************************************)
EXTENDS GenuineDocuments, Retention

CONSTANTS Orgs, NoOrg,    \* the organization of a key; a session may have none
          Readings,
          ProviderConfs   \* the confidences a provider reports of itself

VARIABLE req  \* the request in flight

pipelineVars == <<rows, sweep, req>>

Types  == {"ktp", "sim", "passport", "npwp", "kk", "invoice"}
\* Scored by the rules; the others carry the confidence of the provider.
Scored == {"ktp", "sim", "passport"}

\* ocr.KTPData and the others.
Documents(type) == CASE type = "ktp"      -> KTPData
                     [] type = "sim"      -> SIMData
                     [] type = "passport" -> PassportData
                     [] type = "npwp"     -> NPWPData
                     [] type = "kk"       -> KKData
                     [] type = "invoice"  -> InvoiceData

\* Misread is one of the first nine digits of an NPWP of fifteen, or a character
\* of the second line of an MRZ that its last check digit covers (or that digit)
\* as one of another value modulo ten.
ASSUME ReadingAssumption ==
  /\ ProviderConfs \subseteq Int
  /\ \A x \in Readings :
       /\ x.type \in Types /\ x.doc \in Documents(x.type)
       /\ x.how = "misread" =>
            \/ /\ x.type = "npwp" /\ x.doc.npwp \in Seq(0 .. 9)
               /\ \E i \in 1 .. 9, d \in 0 .. 9 :
                    d # x.doc.npwp[i] /\ ValidNPWP15([x.doc.npwp EXCEPT ![i] = d])
            \/ /\ x.type = "passport" /\ x.doc.mrz # NoMRZ /\ Len(x.doc.mrz.line) = 44
               /\ \E i \in (1 .. 10) \cup (14 .. 20) \cup (22 .. 44), c \in 0 .. Other :
                    /\ CharValue(c) % 10 # CharValue(x.doc.mrz.line[i]) % 10
                    /\ ValidMRZ([x.doc.mrz.line EXCEPT ![i] = c])

Idle == [pc |-> "idle", org |-> NoOrg, type |-> "none", status |-> 0]

PipelineInit ==
  /\ RetentionInit
  /\ req = Idle

-----------------------------------------------------------------------------
(* Rules applied by type.                                                    *)

Score(type, doc) == CASE type = "ktp"      -> ValidateKTP(doc)
                      [] type = "sim"      -> ValidateSIM(doc)
                      [] type = "passport" -> ValidatePassport(doc)

Accepts(type, doc) == CASE type = "npwp"    -> ValidateNPWPData(doc)
                        [] type = "kk"      -> ValidateKK(doc)
                        [] type = "invoice" -> ValidateInvoice(doc).ok

\* What is left in the fields: the numbers cleaned, the amounts filled in.
Tidied(type, doc) == CASE type = "npwp"    -> [doc EXCEPT !.npwp = Clean(@)]
                       [] type = "kk"      -> [doc EXCEPT !.nomor = Clean(@)]
                       [] type = "invoice" -> ValidateInvoice(doc).data

\* No confidence from the provider counts as 95 percent.
Given(c) == IF c <= 0 THEN 95 ELSE c

\* GeminiOCREngine.Extract: [data, conf], whole percents rounded down.
Extracted(type, doc, c) ==
  IF type \in Scored
    THEN LET v == Score(type, doc) IN [data |-> v.data, conf |-> v.score]
  ELSE IF type = "npwp"
    THEN [data |-> [Tidied(type, doc) EXCEPT !.nik = Clean(@)], conf |-> Given(c)]
  ELSE [data |-> Tidied(type, doc),
        conf |-> IF Accepts(type, doc) THEN Given(c) ELSE (7 * Given(c)) \div 10]

\* Mutant: what the rules reject keeps the confidence of the provider.
MutantCapped(type, doc, conf) == conf

Capped(type, doc, conf) == IF ~Accepts(type, doc) /\ conf > 50 THEN 50 ELSE conf

\* normalize: the handler validates again, whatever the engine has done.
Normalized(type, res) ==
  IF type \in Scored
    THEN LET v == Score(type, res.data) IN [data |-> v.data, conf |-> v.score]
    ELSE [data |-> Tidied(type, res.data), conf |-> Capped(type, res.data, res.conf)]

-----------------------------------------------------------------------------
(* The request                                                               *)

\* Bound: time passes and sweeps run before a request arrives or after its
\* answer; a sweep deletes rows that are due and a request inserts a fresh
\* one, so their steps commute.
Quiet == req.pc \in {"idle", "answered"}

Goto(pc) == req' = [req EXCEPT !.pc = pc] /\ UNCHANGED <<rows, sweep>>

Fail(status) ==
  /\ req' = [Idle EXCEPT !.pc = "answered", !.status = status]
  /\ UNCHANGED <<rows, sweep>>

\* A request without a key (401), or one of the key's organization.
Arrive ==
  /\ req = Idle /\ RetentionInit
  /\ \/ Fail(401)
     \/ \E org \in Orgs \cup {NoOrg}, type \in Types :
          /\ req' = [Idle EXCEPT !.pc = "keyed", !.org = org, !.type = type]
          /\ UNCHANGED <<rows, sweep>>

\* CheckQuota refuses to count for no organization.
CheckQuota ==
  /\ req.pc = "keyed"
  /\ IF req.org = NoOrg
       THEN IF req.type \in {"kk", "invoice"} THEN Goto("allowed") ELSE Fail(500)
       ELSE Goto("allowed") \/ Fail(429) \/ Fail(500)

\* The multipart form and its file, then ValidateImage.
Upload == req.pc = "allowed" /\ (Goto("uploaded") \/ Fail(400))
CheckImage == req.pc = "uploaded" /\ (Goto("valid") \/ Fail(400))

\* An error is the sentinels it wraps (of the errors for a document of the wrong
\* type, "unsupported" stands for all); {} wraps none.  A request to Gemini that
\* fails carries the error of its context too.
GeminiErrors == {{"unsupported"}, {"failed"}, {"failed", "deadline"}}
EngineErrors == GeminiErrors \cup {{"open"}, {}}

\* The branches of the handler, in their order.
ErrorStatus(type, err) ==
  IF "unsupported" \in err THEN 422
  ELSE IF err \cap {"open", "deadline"} # {} THEN 504
  ELSE IF type \in Scored /\ "failed" \notin err THEN 500
  ELSE 502

\* With no engine configured the answer is 502.
EngineFails ==
  req.pc = "valid" /\ (Fail(502) \/ \E err \in EngineErrors : Fail(ErrorStatus(req.type, err)))

\* A document of another type than the one of the path is not accepted.
WrongType == req.pc = "valid" /\ Fail(422)

Extract ==
  /\ req.pc = "valid"
  /\ \E reading \in {x \in Readings : x.type = req.type} :
       \E c \in (IF req.type \in Scored THEN {0} ELSE ProviderConfs) :
         req' = [pc |-> "extracted", org |-> req.org, type |-> req.type, status |-> 0,
                 reading |-> reading, given |-> c,
                 res |-> Extracted(req.type, reading.doc, c)]
  /\ UNCHANGED <<rows, sweep>>

Normalize ==
  /\ req.pc = "extracted"
  /\ req' = [pc |-> "normalized", org |-> req.org, type |-> req.type, status |-> 0,
             reading |-> req.reading, given |-> req.given, res |-> req.res,
             out |-> Normalized(req.type, req.res)]
  /\ UNCHANGED <<rows, sweep>>

\* The column confidence NUMERIC(5, 4) rounds to hundredths of a percent: a score
\* is whole percents, the confidence of a provider may be rounded up to the next.
\* It takes nothing from 10 (1000 percent) up; org_id references organizations.
Rounded(type, conf) == IF type \in Scored THEN {conf} ELSE {conf, conf + 1}

Storable(org, conf) == org # NoOrg /\ conf < 1000

\* CreateOCRRequest fails without consequence: the answer carries the id anyway.
\* The columns are not modelled.
Save ==
  /\ req.pc = "normalized"
  /\ \/ UNCHANGED rows
     \/ \E r \in OcrRows, stored \in Rounded(req.type, req.out.conf) :
          /\ Storable(req.org, stored) /\ rows[r] = "none"
          /\ rows' = [rows EXCEPT ![r] = "fresh"]
  /\ req' = [Idle EXCEPT !.pc = "answered", !.status = 200]
  /\ UNCHANGED sweep

PipelineNext ==
  \/ Arrive \/ CheckQuota \/ Upload \/ CheckImage \/ EngineFails \/ WrongType
  \/ Extract \/ Normalize \/ Save
  \/ Quiet /\ RetentionNext /\ UNCHANGED req

PipelineSpec == PipelineInit /\ [][PipelineNext]_pipelineVars

-----------------------------------------------------------------------------
(* Properties                                                                *)

Done    == req.pc = "normalized"
Read    == req.reading.doc
Answer  == req.out.data
Conf    == req.out.conf

\* Two readings the second pass may accept though the rules reject them: a NIK
\* of an NPWP without a digit ("-") is none once it is cleaned, and a subtotal
\* below zero is replaced, for the tolerances let it pass for a sum of lines.
Excused(type, doc) ==
  \/ type = "npwp" /\ doc.nik # <<>> /\ Clean(doc.nik) = <<>>
  \/ type = "invoice" /\ doc.subtotal < 0

(* The handler validates what the provider has validated already.  A document *)
(* the rules score gets the same score twice (what the first pass normalises  *)
(* or fills in does not count as read in the second), and one the rules       *)
(* reject as it was read is not accepted after its fields were tidied.        *)
SecondPassAgrees ==
  Done => IF req.type \in Scored THEN Conf = req.res.conf
          ELSE ~Accepts(req.type, Read) => Conf <= 50 \/ Excused(req.type, Read)

\* Each amount of an invoice follows from the one before: the lines add up to the
\* subtotal, the tax is at a rate of its base, base and tax make the total.  One
\* link is missing, for ValidateInvoice has no check for it: a base that was read
\* may be any amount beside the subtotal less the discount.
Balanced(d) ==
  /\ \A i \in DOMAIN d.items : Gap(d.items[i].total, d.items[i].qty * d.items[i].price) <= Rounding
  /\ d.items # <<>> => Gap(d.subtotal, ItemSum(d.items)) <= Rounding
  /\ PPNRateOK(d.dpp, d.ppn) /\ d.grand > 0 /\ Gap(d.grand, d.dpp + d.ppn) <= Rounding

(* A confidence above the level an answer can reach without it means that the *)
(* parts of the answered document agree: a KTP's NIK with its birth and       *)
(* gender, a SIM's number with a driver's age, a passport with its MRZ; and   *)
(* where the confidence is the provider's own, that the number of an NPWP is  *)
(* valid, a family has one head and valid NIKs, and the amounts of an invoice *)
(* are balanced, of which a base that was not read follows from the subtotal. *)
HighConfidenceIsSound ==
  Done =>
    CASE req.type = "ktp" -> Conf > 75 =>
           /\ ValidNIK(Answer.nik) /\ GenderAgrees(Answer.nik, Answer.gender)
           /\ Birth(Answer.birth) => BirthAgrees(Answer.nik, Answer.birth)
      [] req.type = "sim" -> Conf > 85 =>
           Answer.number.chars = "digits" /\ Driver(Answer.birth) /\ Answer.class \in SIMClasses
      [] req.type = "passport" -> Conf > 95 =>
           HasTD3(Answer) /\ ValidMRZ(Answer.mrz.line) /\ Contradictions(Answer) = 0
      [] req.type = "npwp" -> Conf > 50 => ValidNPWP(Answer.npwp)
      [] req.type = "kk" -> Conf > 50 =>
           /\ Cardinality(Heads(Answer)) = 1
           /\ \A i \in DOMAIN Answer.members : ValidNIK(Answer.members[i].nik)
      [] req.type = "invoice" -> Conf > 50 =>
           /\ Balanced(Answer)
           /\ (Read.dpp = 0 /\ Read.subtotal > 0) => Answer.dpp = Read.subtotal - Read.discount

(* One character misread in a part that a check digit covers (the first nine  *)
(* digits of an NPWP, the second line of an MRZ) never goes unnoticed, if the *)
(* two values differ modulo ten.                                              *)
MisreadCaught ==
  Done /\ req.reading.how = "misread" =>
    Conf <= CASE req.type = "npwp" -> 50 [] req.type = "passport" -> 85

(* A genuine document read as it is gets a full score, or the confidence of   *)
(* the provider, whatever the century of a date or the form of a number, and  *)
(* with amounts left out that follow from the others.                         *)
FaithfulReadingAccepted ==
  Done /\ Genuine(req.type, Read) =>
    IF req.type \in Scored THEN Conf >= 95 ELSE Conf = Given(req.given)
==============================================================================
