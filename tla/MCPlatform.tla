---------------------------- MODULE MCPlatform ----------------------------
(***************************************************************************)
(* The parts of the platform that share no state with one another, checked *)
(* by one run: a behaviour is a behaviour of one of them, chosen at the    *)
(* start, and the other parts stay in their initial state.                 *)
(***************************************************************************)
EXTENDS NavTransfer, RinexCache, Accounts, ModelRegistry, Directory, SampleIngest,
        Dataset, Evaluation, ConfigReply, RawxConversion

VARIABLE subject

platformVars ==
  <<subject, transferVars, cacheVars, accountsVars, registryVars,
    directoryVars, sampleVars, datasetVars, evaluationVars, replyVars, conversionVars>>

(* Files uploaded *)

A(d, i, t) == [device |-> d, index |-> i, time |-> t, marked |-> FALSE, fix |-> 0,
               located |-> FALSE, precise |-> FALSE, wellFormed |-> TRUE]
T(d, t, fix) == [A(d, 0, t) EXCEPT !.marked = TRUE, !.fix = fix, !.located = TRUE, !.precise = TRUE]
P(d, t, fix, precise) == [T(d, t, fix) EXCEPT !.marked = FALSE, !.precise = precise]
File(mode, type, kind, d, stamp, rows) ==
  [name |-> <<type, d, stamp>>, mode |-> mode, type |-> type, role |-> kind, device |-> d,
   rows |-> rows, count |-> Len(rows), battery |-> TRUE, received |-> 9]
MCStations == [base |-> "s1", rover |-> "s1", other |-> "s1", far |-> "s2"]
MCBaselined == {"rover"}
MCUploads ==
  { File("lora", "gnss", "base", "base", 1, <<P("base", 1, 0, TRUE), P("rover", 1, 2, TRUE)>>),
    File("lora", "accel", "rover", "rover", 1, <<A("rover", 1, 1), A("rover", 2, 2), T("rover", 1, 2)>>),
    File("4g", "accel", "rover", "rover", 3, <<A("rover", 1, 1), A("rover", 1, 2), T("rover", 1, 0)>>),
    File("4g", "accel", "rover", "rover", 3, <<A("rover", 1, 1), T("rover", 2, 0)>>),
    File("4g", "accel", "rover", "rover", 3, <<A("rover", 1, 2), A("rover", 2, 1), T("rover", 2, 0)>>),
    File("lora", "gnss", "base", "base", 1, <<P("rover", 1, 1, FALSE), P("far", 2, 2, TRUE)>>) }

(* Rows of measurements *)

MCUnits == [disp |-> "mm", rain |-> "mm/h"]
Row(d, t, v) == [site |-> "s1", device |-> d, time |-> t, quantity |-> "disp", value |-> v,
                unit |-> "mm", source |-> "device", validation |-> "unverified",
                file |-> TRUE, flag |-> NoFlag]
Rain(d, t) == [Row(d, t, "c") EXCEPT !.quantity = "rain", !.unit = "mm/h",
                                     !.source = "external", !.validation = "not_applicable"]
MCPersisted ==
  { Row("n1", 1, "a"), Row("n1", 1, "b"), Row("n1", 2, "a"), Row("n2", 3, "a"),
    [Row("n1", 1, "c") EXCEPT !.flag = "suspect"], [Row("n1", 2, "c") EXCEPT !.site = "s2"],
    [Row("n2", 2, "c") EXCEPT !.unit = "m"], [Row("n1", 1, "nan") EXCEPT !.flag = "ok"],
    Rain("WEATHER-API", 2), Rain("n1", 1),
    [Rain("WEATHER-API", 1) EXCEPT !.file = FALSE],
    [Rain("WEATHER-API", 3) EXCEPT !.quantity = "disp", !.unit = "mm"] }
MCTargets == { [device |-> "n1", time |-> 3, horizon |-> 1], [device |-> "n2", time |-> 4, horizon |-> 1],
               [device |-> "n1", time |-> 3, horizon |-> 2] }

MCEventWindows == {<<0, 1>>, <<0, 3>>, <<1, 1>>, <<2, 3>>}

MCFleetOrder == <<"BASE-01", "LONE", "OLD", "ROVER">>
MCFleetType == ("BASE-01" :> "base") @@ ("LONE" :> "gnss_base") @@ ("OLD" :> "base") @@ ("ROVER" :> "rover")
MCFleetSite == [d \in {"BASE-01", "LONE", "OLD", "ROVER"} |-> IF d = "LONE" THEN "s2" ELSE "s1"]

(* Retained streams and calls of the conversion *)

R(d, e, off) == [device |-> d, valid |-> TRUE, epoch |-> e, time |-> e + off, utc |-> TRUE]
MCStreams ==
  [rover |-> <<R("rover", 1, 1), R("rover", 2, 2), [R("rover", 0, 9) EXCEPT !.utc = FALSE],
               R("rover", 2, 3), R("rover", 3, 2)>>,
   back |-> <<R("rover", 1, 0), R("rover", 3, 0), R("rover", 2, 0), R("rover", 4, 9)>>,
   base |-> <<R("base", 3, 7), [R("base", 4, 7) EXCEPT !.utc = FALSE]>>,
   far |-> <<R("base", 5, 1), R("base", 6, 3)>>,
   mixed |-> <<R("rover", 1, 0), R("base", 3, 0)>>,
   silent |-> <<R("rover", 0, 0)>>,
   torn |-> <<[R("rover", 1, 0) EXCEPT !.valid = FALSE], R("rover", 2, 0)>>]
Alone(s) == [rover |-> s, base |-> NoStream, coords |-> "none", nav |-> "none",
             config |-> TRUE, convbin |-> TRUE, solver |-> TRUE]
Paired(s, b) == [Alone(s) EXCEPT !.base = b, !.coords = "valid", !.nav = "file"]
MCCalls ==
  {Alone(s) : s \in DOMAIN MCStreams}
    \cup {Paired(s, b) : s \in {"rover", "back"}, b \in {"base", "far", "back", "silent"}}
    \cup {[Paired("rover", "base") EXCEPT !.convbin = cb, !.solver = FALSE] : cb \in BOOLEAN}
    \cup {[Paired("rover", "base") EXCEPT !.coords = c, !.nav = n] :
            c \in {"none", "invalid", "valid"}, n \in {"none", "missing", "file"}}
    \cup {[Alone("rover") EXCEPT !.convbin = FALSE], [Alone("base") EXCEPT !.coords = "valid"],
          [Alone("far") EXCEPT !.nav = "file"], [Paired("rover", "base") EXCEPT !.config = FALSE]}
MCOutcomes == {<<>>, <<1>>, <<2, 3>>, <<3, 3>>, <<3, 2>>}

MCLengths == <<2, 2>>
MCSources == <<"BKG_WRD", "CDDIS_IGS">>

-----------------------------------------------------------------------------
MCInit ==
  /\ subject \in {"nav", "cache", "accounts", "registry",
                  "directory", "ingest", "dataset", "evaluation",
                  "reply", "conversion"}
  /\ TransferInit
  /\ CacheInit
  /\ AccountsInit
  /\ RegistryInit
  /\ DirectoryInit
  /\ SampleInit
  /\ DatasetInit
  /\ EvaluationInit
  /\ ReplyInit
  /\ ConversionInit

MCNext ==
  \/ /\ subject = "nav" /\ TransferNext
     /\ UNCHANGED <<subject, cacheVars, accountsVars, registryVars,
                    directoryVars, sampleVars, datasetVars, evaluationVars, replyVars, conversionVars>>
  \/ /\ subject = "cache" /\ CacheNext
     /\ UNCHANGED <<subject, transferVars, accountsVars, registryVars,
                    directoryVars, sampleVars, datasetVars, evaluationVars, replyVars, conversionVars>>
  \/ /\ subject = "accounts" /\ AccountsNext
     /\ UNCHANGED <<subject, transferVars, cacheVars, registryVars,
                    directoryVars, sampleVars, datasetVars, evaluationVars, replyVars, conversionVars>>
  \/ /\ subject = "registry" /\ RegistryNext
     /\ UNCHANGED <<subject, transferVars, cacheVars, accountsVars,
                    directoryVars, sampleVars, datasetVars, evaluationVars, replyVars, conversionVars>>
  \/ /\ subject = "directory" /\ DirectoryNext
     /\ UNCHANGED <<subject, transferVars, cacheVars, accountsVars,
                    registryVars, sampleVars, datasetVars, evaluationVars, replyVars, conversionVars>>
  \/ /\ subject = "ingest" /\ SampleNext
     /\ UNCHANGED <<subject, transferVars, cacheVars, accountsVars,
                    registryVars, directoryVars, datasetVars, evaluationVars, replyVars, conversionVars>>
  \/ /\ subject = "dataset" /\ DatasetNext
     /\ UNCHANGED <<subject, transferVars, cacheVars, accountsVars,
                    registryVars, directoryVars, sampleVars, evaluationVars, replyVars, conversionVars>>
  \/ /\ subject = "evaluation" /\ EvaluationNext
     /\ UNCHANGED <<subject, transferVars, cacheVars, accountsVars,
                    registryVars, directoryVars, sampleVars, datasetVars, replyVars, conversionVars>>
  \/ /\ subject = "reply" /\ ReplyNext
     /\ UNCHANGED <<subject, transferVars, cacheVars, accountsVars, registryVars,
                    directoryVars, sampleVars, datasetVars, evaluationVars, conversionVars>>
  \/ /\ subject = "conversion" /\ ConversionNext
     /\ UNCHANGED <<subject, transferVars, cacheVars, accountsVars, registryVars,
                    directoryVars, sampleVars, datasetVars, evaluationVars, replyVars>>

MCSpec == MCInit /\ [][MCNext]_platformVars
=============================================================================
