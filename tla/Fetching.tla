---------------------------- MODULE Fetching ----------------------------
(***************************************************************************)
(* One artifact on its way into a temporary file: Downloader.Fetch and     *)
(* attempt of internal/update/download.go, over HTTP.                      *)
(*                                                                         *)
(* An artifact is the blocks 1..size; the file and the body of a response  *)
(* are sequences of blocks, 0 standing for bytes that are none of them.    *)
(* A source is honest as long as it serves the blocks it was asked for and *)
(* ends after the last; its connections may still break at any point, and  *)
(* it may ignore the range it was asked for.  The hash that Fetch returns  *)
(* is left out, as its callers hash the file again.                        *)
(***************************************************************************)
EXTENDS Naturals, Sequences

CONSTANTS
  MaxTries,  \* maxRetries: 3 in the code
  MaxBlocks  \* MaxArtifactBytes, in blocks

ASSUME TriesAssumption  == MaxTries \in Nat \ {0}
ASSUME BlocksAssumption == MaxBlocks \in Nat

VARIABLE fetch

\* pc; the attempt; the size of the artifact; the temporary file; the block the
\* response goes on with; the conduct of the source; why the fetch failed.
Off == [pc |-> "off", try |-> 0, size |-> 0, file |-> <<>>, next |-> 0,
        source |-> "honest", why |-> "none"]

FetchStarts(size) == [Off EXCEPT !.pc = "request", !.try = 1, !.size = size]

\* fail removes the file.
GaveUp(f, why) == [f EXCEPT !.pc = "failed", !.file = <<>>, !.next = 0, !.why = why]

\* A failed attempt leaves the file to the next one.
Retried(f) ==
  IF f.try < MaxTries THEN [f EXCEPT !.pc = "request", !.try = @ + 1, !.next = 0]
  ELSE GaveUp(f, "tries")

\* No connection, or a status that is no success; 416 after the last block is one.
RequestFails ==
  /\ fetch.pc = "request"
  /\ fetch' = Retried(fetch)

\* Mutation: a server that ignores the range is taken to have resumed.
KeepsTheRest ==
  /\ fetch.pc = "request"
  /\ fetch' = [fetch EXCEPT !.pc = "body", !.next = 1]

\* 200: the server starts over, and so does the file.
StartsOver ==
  /\ fetch.pc = "request"
  /\ fetch' = [fetch EXCEPT !.pc = "body", !.file = <<>>, !.next = 1]

\* 206: the body is taken to begin where the file ends; Content-Range is not read.
Resumes ==
  /\ fetch.pc = "request"
  /\ \E at \in 1..fetch.size :
       fetch' = [fetch EXCEPT !.pc = "body", !.next = at,
                              !.source = IF at = Len(fetch.file) + 1 THEN @ ELSE "lying"]

\* A block that is none of the artifact's, one more than the rest of it included.
Reads ==
  /\ fetch.pc = "body"
  /\ \E block \in {0, fetch.next} :
       LET genuine == block # 0 /\ block <= fetch.size
           told == [fetch EXCEPT !.source = IF genuine THEN @ ELSE "lying"]
       IN fetch' = IF Len(fetch.file) < MaxBlocks
                   THEN [told EXCEPT !.file = Append(@, IF genuine THEN block ELSE 0),
                                     !.next = IF genuine THEN block + 1 ELSE @]
                   ELSE Retried(told)

Breaks ==
  /\ fetch.pc = "body"
  /\ fetch' = Retried(fetch)

\* End of the body: too little or too much is final, without another attempt.
Ends ==
  /\ fetch.pc = "body"
  /\ LET told == [fetch EXCEPT !.source = IF fetch.next > fetch.size THEN @ ELSE "lying"]
     IN fetch' = IF Len(fetch.file) = fetch.size THEN [told EXCEPT !.pc = "done"]
                 ELSE GaveUp(told, "length")

\* The deadline of the handler: 30 minutes.
TimesOut ==
  /\ fetch.pc \in {"request", "body"}
  /\ fetch' = GaveUp(fetch, "context")

Fetches == RequestFails \/ StartsOver \/ Resumes \/ Reads \/ Breaks \/ Ends \/ TimesOut

\* VerifySHA256 of the file, collisions aside.
Genuine(f) == f.file = [k \in 1..f.size |-> k]
=============================================================================
