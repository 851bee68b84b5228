---------------------------- MODULE MCPromotion -----------------------------
(***************************************************************************)
(* An instance of Promotion: one run and one that GitHub does not know,    *)
(* heads that are sound in all but one respect, answers of the server      *)
(* around every bound.                                                     *)
(***************************************************************************)
EXTENDS Promotion, TLC

CONSTANTS r1, r0, k1, k2, b1, c1, c2

HeadSurface(workflow, policy) == WORKFLOW :> workflow @@ PROBE :> "p1" @@ POLICY :> policy

MCSurfaceOf == c1 :> HeadSurface("w1", "f1") @@ c2 :> HeadSurface("w0", "f1")

Row(r, carrier, binary, fixture) ==
  [hosted_run |-> r, artifact |-> carrier, binary |-> binary, fixture |-> fixture]
Pair(r, carrier, binary, fixture) ==
  [carrier |-> carrier,
   provenance |-> [hosted_run |-> r, binary |-> binary, fixture |-> fixture,
                   artifact |-> carrier, release |-> PINNED_RELEASE_ASSET_DIGEST]]

MCOtherPairs ==
  {[carrier |-> k1, provenance |-> Garbled], Pair(r1, k1, b1, "f1"),
   Pair(r1, k1, PINNED_RELEASE_ASSET_DIGEST, Null)}

MCSoundHead ==
  [row |-> Row(r1, k1, b1, "f1"), pair |-> Pair(r1, k1, b1, "f1"),
   surface |-> HeadSurface("w1", "f1"), ancestors |-> {c1, c2}]

MCHeads ==
  {MCSoundHead,
   [MCSoundHead EXCEPT !.row = Row(r1, k2, b1, "f1"), !.pair = Pair(r1, k2, b1, "f1")],
   [MCSoundHead EXCEPT !.surface = HeadSurface("w1", "f2"), !.row.fixture = "f2"],
   [MCSoundHead EXCEPT !.surface = HeadSurface("w1", "f2")],
   [MCSoundHead EXCEPT !.surface = HeadSurface("w0", "f1")],
   [MCSoundHead EXCEPT !.ancestors = {}],
   [MCSoundHead EXCEPT !.row.hosted_run = r0],
   [MCSoundHead EXCEPT !.row.hosted_run = Null],
   [MCSoundHead EXCEPT !.row.binary = k2],
   [MCSoundHead EXCEPT !.row.artifact = k2],
   [MCSoundHead EXCEPT !.pair.provenance = Garbled],
   [MCSoundHead EXCEPT !.pair = NoFiles]}

MCBases == {NoRow, [hosted_run |-> r1]}

MCResponses ==
  [declared : 0..MaxZip + 1, chunks : {<<>>, <<1>>, <<1, 1>>, <<1, MaxZip>>},
   entries : {<<CARRIER_FILE, PROVENANCE_FILE>>},
   size : {[n \in REQUIRED_ARTIFACT_ENTRIES |-> MaxEntry]}]
   \cup
  [declared : {1}, chunks : {<<1>>},
   entries : {<<CARRIER_FILE, PROVENANCE_FILE, CARRIER_FILE>>,
              <<CARRIER_FILE>>, <<CARRIER_FILE, PROVENANCE_FILE, "extra">>,
              <<PROVENANCE_FILE, CARRIER_FILE>>},
   size : {[n \in REQUIRED_ARTIFACT_ENTRIES |-> MaxEntry],
           (CARRIER_FILE :> MaxEntry @@ PROVENANCE_FILE :> MaxEntry + 1)}]
=============================================================================
