--------------------------- MODULE CandleArchive ---------------------------
(***************************************************************************)
(* ParquetOHLCVArchive (src/ai4binance/data/archive.py): one dataset, kept *)
(* as a Parquet file and a manifest beside it.                             *)
(*                                                                         *)
(* A candle is its open time, counted in intervals of the timeframe. Each  *)
(* file is replaced atomically, but they are two files: a write replaces   *)
(* the Parquet file first and the manifest next, and a crash may fall      *)
(* between the two.                                                        *)
(***************************************************************************)
EXTENDS Integers, FiniteSetsExt

VARIABLES
    parquet,    \* the candles in the Parquet file, none when there is no file
    manifest    \* the manifest, or NoManifest

NoManifest == [absent |-> TRUE]

----------------------------------------------------------------------------
(* Manifests.                                                               *)

\* _find_gaps over sorted candles: the pairs of neighbours with a hole between.
Holes(candles) ==
    {pair \in candles \X candles :
        /\ pair[1] + 1 < pair[2]
        /\ \A t \in pair[1] + 1 .. pair[2] - 1 : t \notin candles}

\* The manifest update and truncate_from write. The checksum is the file's
\* content; early says that generated_at is before the last candle's end.
ManifestOf(candles, early) ==
    [checksum |-> candles, first |-> Min(candles), last |-> Max(candles),
     gaps |-> Holes(candles), early |-> early]

\* Mutant: the gaps known before are not carried over.
AppendedManifestForgetful(incoming) ==
    [checksum |-> parquet \cup incoming, first |-> manifest.first,
     last |-> Max(incoming), gaps |-> Holes(incoming), early |-> FALSE]

\* The manifest append_verified_tail writes without a look at the old rows.
AppendedManifest(incoming) ==
    [checksum |-> parquet \cup incoming, first |-> manifest.first,
     last |-> Max(incoming),
     gaps |-> manifest.gaps \cup Holes(incoming)
                \cup (IF Min(incoming) - manifest.last # 1
                      THEN {<<manifest.last, Min(incoming)>>} ELSE {}),
     early |-> FALSE]

----------------------------------------------------------------------------
(* Reading.                                                                 *)

\* manifest and read: both files are there and the checksum is the file's.
Verified == /\ parquet # {}
            /\ manifest # NoManifest
            /\ manifest.checksum = parquet

\* _read_manifest_verified_table: the rows have the manifest's bounds and gaps.
TableVerified == /\ manifest.first = Min(parquet)
                 /\ manifest.last = Max(parquet)
                 /\ manifest.gaps = Holes(parquet)

----------------------------------------------------------------------------
(* What a verified manifest is worth.                                       *)

\* A manifest that matches its file lists exactly the holes of the file and its
\* first and last candle, whether it was computed from all rows (update,
\* truncate_from) or from the old manifest and the new tail
\* (append_verified_tail).
ManifestTrue == Verified => TableVerified
=============================================================================
