-------------------------- MODULE ArtifactDownload --------------------------
(***************************************************************************)
(* The download of the enforcement-health artifact (materialize-           *)
(* PromotionArtifacts() of harness/src/enforcement_health_artifact.ts):    *)
(* the response streamed to a file under two bounds, then the zip listed   *)
(* and its two entries extracted by child processes, each of which can     *)
(* fail, be killed by its timeout or overrun its buffer.                   *)
(***************************************************************************)
EXTENDS Naturals, Sequences, SequencesExt

CONSTANTS
  MaxZip,    \* MAX_ARTIFACT_ZIP_BYTES, in chunks of the model.
  MaxEntry,  \* MAX_CARRIER_FILE_BYTES and MAX_PROVENANCE_FILE_BYTES.
  Responses  \* What the server may answer: see StartDownload.

VARIABLES
  response,  \* The answer being read, or NoResponse.
  stage,     \* "idle", "stream", "list", "extract", "ok" or "failed".
  written    \* Bytes of the zip on disk.

downloadVars == <<response, stage, written>>

CARRIER_FILE == "enforcement-health.json"
PROVENANCE_FILE == "recipe.provenance.json"
REQUIRED_ARTIFACT_ENTRIES == {CARRIER_FILE, PROVENANCE_FILE}

ASSUME BoundsAssumption == MaxZip \in Nat /\ MaxEntry \in Nat
ASSUME ResponsesAssumption ==
  \A r \in Responses :
    /\ r = [declared |-> r.declared, chunks |-> r.chunks, entries |-> r.entries, size |-> r.size]
    /\ r.declared \in Nat
    /\ r.chunks \in Seq(Nat \ {0})
    /\ r.entries \in Seq(STRING)

NoLength == 0   \* A Content-Length that is missing or not a positive integer.
NoResponse == [declared |-> NoLength, chunks |-> <<>>, entries |-> <<>>,
               size |-> [name \in REQUIRED_ARTIFACT_ENTRIES |-> 0]]

DownloadInit ==
  /\ response = NoResponse
  /\ stage = "idle"
  /\ written = 0

(* A response: the declared length, the chunks of the body by their        *)
(* length, the names the zip lists and the expanded size of its entries.   *)
StartDownload(r) ==
  /\ response' = r
  /\ written' = 0
  /\ stage' = IF r.declared = NoLength \/ r.declared > MaxZip
              THEN "failed" ELSE "stream"

(* A slip: a chunk is written before it is counted. *)
ChunkWrittenFirst ==
  /\ stage = "stream"
  /\ response.chunks # <<>>
  /\ written' = written + Head(response.chunks)
  /\ response' = [response EXCEPT !.chunks = Tail(@)]
  /\ stage' = IF written' > MaxZip \/ written' > response.declared
              THEN "failed" ELSE "stream"

Chunk ==
  /\ stage = "stream"
  /\ response.chunks # <<>>
  /\ LET total == written + Head(response.chunks)
         over == total > MaxZip \/ total > response.declared
     IN  /\ stage' = IF over THEN "failed" ELSE "stream"
         /\ written' = IF over THEN written ELSE total
  /\ response' = [response EXCEPT !.chunks = Tail(@)]

(* The body ends; one shorter than declared is not refused here. *)
EndOfBody ==
  /\ stage = "stream"
  /\ response.chunks = <<>>
  /\ stage' = "list"
  /\ UNCHANGED <<response, written>>

(* A slip: extra entries are ignored. *)
ListEntriesLoosely ==
  /\ stage = "list"
  /\ stage' = IF REQUIRED_ARTIFACT_ENTRIES \subseteq ToSet(response.entries)
              THEN "extract" ELSE "failed"
  /\ UNCHANGED <<response, written>>

(* The two names, each once, and nothing else. *)
ListEntries ==
  /\ stage = "list"
  /\ stage' = IF /\ IsInjective(response.entries)
                 /\ ToSet(response.entries) = REQUIRED_ARTIFACT_ENTRIES
              THEN "extract" ELSE "failed"
  /\ UNCHANGED <<response, written>>

ExtractEntries ==
  /\ stage = "extract"
  /\ stage' = IF \A name \in REQUIRED_ARTIFACT_ENTRIES : response.size[name] <= MaxEntry
              THEN "ok" ELSE "failed"
  /\ UNCHANGED <<response, written>>

(* The connection breaks, unzip refuses the file, or a process is killed.  *)
DownloadFails ==
  /\ stage \in {"stream", "list", "extract"}
  /\ stage' = "failed"
  /\ UNCHANGED <<response, written>>

DownloadNext == Chunk \/ EndOfBody \/ ListEntries \/ ExtractEntries \/ DownloadFails

-----------------------------------------------------------------------------
(* No byte beyond the cap or beyond the declared length ever reaches the   *)
(* disk, and an accepted artifact had a declared length, exactly its two   *)
(* files, each once, and no entry over its expanded cap.                   *)
AcceptedDownloadIsBounded ==
  /\ written <= MaxZip
  /\ written <= response.declared
  /\ stage = "ok" =>
       /\ response.declared \in 1..MaxZip
       /\ Len(response.entries) = 2
       /\ ToSet(response.entries) = REQUIRED_ARTIFACT_ENTRIES
       /\ \A name \in REQUIRED_ARTIFACT_ENTRIES : response.size[name] <= MaxEntry
=============================================================================
