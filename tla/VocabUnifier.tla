---------------------------- MODULE VocabUnifier ----------------------------
(***************************************************************************)
(* The vocabulary unifier and the artefacts it leaves for the memmap       *)
(* builder: unify_vocab (tokenizer/vocab_unifier/unifier.py) merges the    *)
(* local vocabularies of a list of per-binary CSVs into one table, writes  *)
(* a mapping file per CSV and, last, unified_vocab.csv.  The table is a    *)
(* VocabularyManager without a platform (tokenizer/token_manager.py); the  *)
(* files go through save_vocabulary and load_vocab_manager, and the        *)
(* builder encodes its variant records against what it loads.              *)
(*                                                                         *)
(* The module follows one output directory written in place over several  *)
(* runs, as the command line tool does; a run may be killed at any point   *)
(* and in the middle of a write.  Ids are counted from 1, the 256 digit    *)
(* slots are the few of DigitNames, a token name is a prefix and a word.   *)
(***************************************************************************)
EXTENDS Naturals, FiniteSets, Sequences, SequencesExt

CONSTANTS
  DigitNames,   \* the reserved digit slots (_V2_RESERVED_DIGIT_COUNT of them)
  Canonical,    \* words of the number and identity blocks, in slot order
  FamilyOf,     \* PLATFORM_FAMILY: ISA -> family prefix
  UnifiedOf,    \* PLATFORM_UNIFIED: family -> name of a joint platform
  Corpora,      \* inputs of a run: [csvs : list of CSVs, legacy : flag]
  Positional,   \* the positional variant axes, in declared order
  Keys,         \* the sidecar keys, alphabetically
  Words,        \* the values of variant axes, alphabetically
  SpacedWords,  \* those of them that hold a space
  CommaParts,   \* the two parts of each of them whose text holds a comma
  Ceiling,      \* _UINT16_CEILING
  MaxRuns       \* bound on the runs over one output directory

Isas == DOMAIN FamilyOf
NoPlatform == "none"

(* What VariantInfo.from_csv and VariantInventory.add make of a CSV's name *)
(* and sidecar: axes, an error that is skipped, or a ':' inside a key.     *)
Sidecars == {"ok", "unparsable", "colon in key"}

(* A local token as the tokenizer registered it; "literal" stands for an   *)
(* identifier literal, which no representative of a v2 vocabulary covers.  *)
TokenKinds == {"platform", "marker", "literal"}

VariantName == [prefix : Range(Positional) \cup Range(Keys), word : Range(Words)]

CsvOk(csv) ==
  /\ csv.isa \in Isas
  /\ csv.loads \in BOOLEAN /\ csv.legacy \in BOOLEAN
  /\ csv.version \in Nat
  /\ csv.tokens \in Seq([kind : TokenKinds, word : STRING])
  /\ csv.sidecar \in Sidecars
  /\ csv.meta \subseteq VariantName

(* The flag of a run tells the era of its CSVs; nothing in the code checks *)
(* it.                                                                     *)
ASSUME CorporaAssumption ==
  \A c \in Corpora :
    c.legacy \in BOOLEAN /\ \A csv \in Range(c.csvs) : CsvOk(csv) /\ csv.legacy = c.legacy
ASSUME SizeAssumption == DigitNames \in Seq(STRING) /\ Ceiling \in Nat /\ MaxRuns \in Nat

Digits == Len(DigitNames)

Files == {csv.file : csv \in UNION {Range(c.csvs) : c \in Corpora}}

VARIABLES
  pc,         \* where unify_vocab stands; "idle" before the first run
  runs,       \* number of the current run
  corpus,     \* its input
  k,          \* the CSV the loop is at
  at,         \* the local id the representative walk is at
  vm,         \* the unified table: id -> [name, type, plat]
  mapping,    \* mappings of the current CSV: local id -> unified id, 0 unset
  inventory,  \* variant_inventory._tokens
  loaded,     \* loaded_count
  skipped,    \* files the loop passed over in this run
  disk        \* the output directory: [map : file -> mapping file, vocab]

vars == <<pc, runs, corpus, k, at, vm, mapping, inventory, loaded, skipped, disk>>

-----------------------------------------------------------------------------
(* VocabularyManager                                                       *)

Entry(prefix, word, type, plat) ==
  [name |-> [prefix |-> prefix, word |-> word], type |-> type, plat |-> plat]

DigitSlots == [i \in 1..Digits |-> Entry("digit", DigitNames[i], "digit", NoPlatform)]
ValueNegative == Entry("", "value_negative", "value_negative", NoPlatform)

(* The prefix every table starts with; a CSV from before value_negative    *)
(* was reserved has the digits only.                                       *)
ReservedPrefix(legacy) == DigitSlots \o (IF legacy THEN <<>> ELSE <<ValueNegative>>)

(* A fresh unified VM after _register_v2_canonical_blocks.                 *)
FreshVm ==
  ReservedPrefix(FALSE)
    \o [i \in DOMAIN Canonical |-> Entry("", Canonical[i], "marker", NoPlatform)]

IdsNamed(table, name) == {i \in DOMAIN table : table[i].name = name}

(* get_token_id, 0 for a name that is not registered.                      *)
TokenId(table, name) ==
  IF IdsNamed(table, name) = {} THEN 0 ELSE CHOOSE i \in IdsNamed(table, name) : TRUE

(* Mutant: the platform stays that of the first ISA.                       *)
PromotedNever(entry, plat) == entry

(* _maybe_promote_to_unified_platform: a second ISA of the family makes    *)
(* the platform of the token the joint one.                                *)
Promoted(entry, plat) ==
  IF NoPlatform \in {entry.plat, plat} \/ entry.plat = plat
    THEN entry
    ELSE [entry EXCEPT !.plat = UnifiedOf[FamilyOf[plat]]]

(* _private_add_token on the unified VM.                                   *)
AddToken(table, entry) ==
  LET id == TokenId(table, entry.name)
  IN  IF id = 0 THEN Append(table, entry)
      ELSE [table EXCEPT ![id] = Promoted(@, entry.plat)]

(* PlatformTokenInner: the name is under the ISA in a per-binary VM and    *)
(* under the family in the unified one.                                    *)
LocalEntry(csv, t) ==
  IF t.kind = "platform" THEN Entry(csv.isa, t.word, "platform", csv.isa)
                         ELSE Entry("", t.word, t.kind, NoPlatform)

UnifiedEntry(e) ==
  IF e.type = "platform" THEN [e EXCEPT !.name.prefix = FamilyOf[e.plat]] ELSE e

-----------------------------------------------------------------------------
(* The vocabulary row: save_vocabulary and load_vocab_manager_csv_row_bytes *)

(* The comma-joined cell split again: a word with a comma comes back as    *)
(* two tokens.                                                             *)
Split(name) ==
  IF name.word \in DOMAIN CommaParts
    THEN <<[name EXCEPT !.word = CommaParts[name.word][1]],
           [prefix |-> "", word |-> CommaParts[name.word][2]]>>
    ELSE <<name>>

Strip(table, legacy) == SubSeq(table, Len(ReservedPrefix(legacy)) + 1, Len(table))

Saved(table) ==
  LET body == Strip(table, FALSE)
  IN  [cells |-> FlattenSeq([i \in DOMAIN body |-> Split(body[i].name)]),
       types |-> [i \in DOMAIN body |-> body[i].type],
       plats |-> [i \in DOMAIN body |-> body[i].plat]]

(* A file is absent, whole, or torn: its writer was killed.                *)
Absent == [state |-> "absent", run |-> 0]
TornFile == [state |-> "torn", run |-> runs]
None == <<>>

(* load_unified_vocab_manager: None for a row that does not parse or whose *)
(* names and types do not align.                                           *)
LoadUnified(file) ==
  IF file.state # "whole" THEN None
  ELSE IF Len(file.row.cells) # Len(file.row.types) THEN None
  ELSE ReservedPrefix(FALSE)
         \o [i \in DOMAIN file.row.cells |->
              [name |-> file.row.cells[i], type |-> file.row.types[i], plat |-> file.row.plats[i]]]

(* What the ids of the CSV's token stream mean.                            *)
StreamTable(csv) ==
  ReservedPrefix(csv.legacy) \o [i \in DOMAIN csv.tokens |-> LocalEntry(csv, csv.tokens[i])]

(* Mutant: the flag for CSVs from before value_negative is not passed on.  *)
LoadedTableModern(csv, legacy) == ReservedPrefix(FALSE) \o Strip(StreamTable(csv), csv.legacy)

(* load_vocab_manager of a per-binary CSV: the prefix the flag calls for   *)
(* before the names the row holds.                                         *)
LoadedTable(csv, legacy) == ReservedPrefix(legacy) \o Strip(StreamTable(csv), csv.legacy)

-----------------------------------------------------------------------------
(* Variant axes: VariantInventory, build_axis_strings, encode_record        *)

AxisOrder == Positional \o Keys
Place(seq, x) == CHOOSE i \in DOMAIN seq : seq[i] = x

(* Axis by axis, positional ones first; alphabetical within an axis.       *)
AxisGrouped(names) ==
  SetToSortSeq(names, LAMBDA a, b :
    \/ Place(AxisOrder, a.prefix) < Place(AxisOrder, b.prefix)
    \/ a.prefix = b.prefix /\ Place(Words, a.word) < Place(Words, b.word))

RegisterVariants(table, names) ==
  FoldLeft(LAMBDA t, n : AddToken(t, Entry(n.prefix, n.word, "variant", NoPlatform)),
           table, AxisGrouped(names))

EncodeRecord(csv, table) ==
  LET names == AxisGrouped(csv.meta)
  IN  [i \in DOMAIN names |-> TokenId(table, names[i])]

(* decode_record: the positional axes by place, the rest by their key.     *)
DecodeRecord(record, table) ==
  [axes |-> [i \in DOMAIN Positional |-> table[record[i]].name],
   tail |-> {table[record[i]].name : i \in Len(Positional) + 1..Len(record)}]

-----------------------------------------------------------------------------
(* unify_vocab                                                             *)

Running == {"csv", "merge", "save"}
Csv == corpus.csvs[k]
Local == LoadedTable(Csv, corpus.legacy)
NoCorpus == [csvs |-> <<>>, legacy |-> FALSE]

Init ==
  /\ pc = "idle" /\ runs = 0 /\ corpus = NoCorpus
  /\ k = 1 /\ at = 1 /\ vm = FreshVm /\ mapping = <<>>
  /\ inventory = {} /\ loaded = 0 /\ skipped = {}
  /\ disk = [map |-> [f \in Files |-> Absent], vocab |-> Absent]

Start ==
  /\ pc \notin Running /\ runs < MaxRuns
  /\ corpus' \in Corpora
  /\ pc' = "csv" /\ runs' = runs + 1
  /\ k' = 1 /\ at' = 1 /\ vm' = FreshVm /\ mapping' = <<>>
  /\ inventory' = {} /\ loaded' = 0 /\ skipped' = {}
  /\ UNCHANGED disk

AtCsv == pc = "csv" /\ k <= Len(corpus.csvs)

SkipUnloadable ==
  /\ AtCsv /\ ~Csv.loads
  /\ k' = k + 1 /\ skipped' = skipped \cup {Csv.file}
  /\ UNCHANGED <<pc, runs, corpus, at, vm, mapping, inventory, loaded, disk>>

(* A CSV of another version, or a sidecar key with a colon, ends the run.  *)
Refuse ==
  /\ AtCsv /\ Csv.loads
  /\ Csv.version # 2 \/ Csv.sidecar = "colon in key"
  /\ pc' = "raised" /\ loaded' = loaded + 1
  /\ UNCHANGED <<runs, corpus, k, at, vm, mapping, inventory, skipped, disk>>

(* Mutant: the inventory starts anew with every CSV.                       *)
OpenCsvFreshInventory ==
  /\ AtCsv /\ Csv.loads /\ Csv.version = 2 /\ Csv.sidecar # "colon in key"
  /\ loaded' = loaded + 1
  /\ inventory' = IF Csv.sidecar = "ok" THEN Csv.meta ELSE {}
  /\ mapping' = [i \in DOMAIN Local |-> IF i <= Len(ReservedPrefix(corpus.legacy)) THEN i ELSE 0]
  /\ at' = Digits + 1 /\ pc' = "merge"
  /\ UNCHANGED <<runs, corpus, k, vm, skipped, disk>>

(* The mapping starts with the identity over the reserved prefix, the walk *)
(* over the representatives behind the digits.                             *)
OpenCsv ==
  /\ AtCsv /\ Csv.loads /\ Csv.version = 2 /\ Csv.sidecar # "colon in key"
  /\ loaded' = loaded + 1
  /\ inventory' = inventory \cup (IF Csv.sidecar = "ok" THEN Csv.meta ELSE {})
  /\ mapping' = [i \in DOMAIN Local |-> IF i <= Len(ReservedPrefix(corpus.legacy)) THEN i ELSE 0]
  /\ at' = Digits + 1 /\ pc' = "merge"
  /\ UNCHANGED <<runs, corpus, k, vm, skipped, disk>>

(* register_on_vocab_manager of one representative.                        *)
MergeToken ==
  /\ pc = "merge" /\ at <= Len(Local)
  /\ at' = at + 1
  /\ \/ /\ Local[at].type = "literal"
        /\ UNCHANGED <<vm, mapping>>
     \/ /\ Local[at].type # "literal"
        /\ vm' = AddToken(vm, UnifiedEntry(Local[at]))
        /\ mapping' = [mapping EXCEPT ![at] = TokenId(vm', UnifiedEntry(Local[at]).name)]
  /\ UNCHANGED <<pc, runs, corpus, k, inventory, loaded, skipped, disk>>

MappingFile == [state |-> "whole", run |-> runs, of |-> Csv, ids |-> mapping]

(* Mutant: a mapping file that exists is kept.                             *)
EndCsvKeepsFile ==
  /\ pc = "merge" /\ at > Len(Local)
  /\ pc' = "csv" /\ k' = k + 1
  /\ \/ /\ \E i \in DOMAIN mapping : mapping[i] = 0
        /\ skipped' = skipped \cup {Csv.file} /\ UNCHANGED disk
     \/ /\ \A i \in DOMAIN mapping : mapping[i] # 0
        /\ disk' = IF disk.map[Csv.file].state = "whole" THEN disk
                   ELSE [disk EXCEPT !.map[Csv.file] = MappingFile]
        /\ UNCHANGED skipped
  /\ UNCHANGED <<runs, corpus, at, vm, mapping, inventory, loaded>>

EndCsv ==
  /\ pc = "merge" /\ at > Len(Local)
  /\ pc' = "csv" /\ k' = k + 1
  /\ \/ /\ \E i \in DOMAIN mapping : mapping[i] = 0
        /\ skipped' = skipped \cup {Csv.file} /\ UNCHANGED disk
     \/ /\ \A i \in DOMAIN mapping : mapping[i] # 0
        /\ disk' = [disk EXCEPT !.map[Csv.file] = MappingFile] /\ UNCHANGED skipped
  /\ UNCHANGED <<runs, corpus, at, vm, mapping, inventory, loaded>>

(* Behind the last CSV: FileNotFoundError if none was loadable.            *)
NoneLoaded ==
  /\ pc = "csv" /\ k > Len(corpus.csvs) /\ loaded = 0
  /\ pc' = "raised"
  /\ UNCHANGED <<runs, corpus, k, at, vm, mapping, inventory, loaded, skipped, disk>>

(* VariantAxisInner raises for a token with a space; what was registered   *)
(* before it goes with the table, the mapping files stay.                  *)
VariantRefused == \E n \in inventory : n.word \in SpacedWords

RefuseVariant ==
  /\ pc = "csv" /\ k > Len(corpus.csvs) /\ loaded > 0
  /\ VariantRefused
  /\ pc' = "raised"
  /\ UNCHANGED <<runs, corpus, k, at, vm, mapping, inventory, loaded, skipped, disk>>

AddVariants ==
  /\ pc = "csv" /\ k > Len(corpus.csvs) /\ loaded > 0
  /\ ~VariantRefused
  /\ vm' = RegisterVariants(vm, inventory)
  /\ pc' = "save"
  /\ UNCHANGED <<runs, corpus, k, at, mapping, inventory, loaded, skipped, disk>>

Overflow ==
  /\ pc = "save" /\ Len(vm) > Ceiling
  /\ pc' = "raised"
  /\ UNCHANGED <<runs, corpus, k, at, vm, mapping, inventory, loaded, skipped, disk>>

SaveVocabulary ==
  /\ pc = "save" /\ Len(vm) <= Ceiling
  /\ disk' = [disk EXCEPT !.vocab = [state |-> "whole", run |-> runs, row |-> Saved(vm)]]
  /\ pc' = "done"
  /\ UNCHANGED <<runs, corpus, k, at, vm, mapping, inventory, loaded, skipped>>

(* The process dies between two steps, or inside one of the two writes.    *)
Kill ==
  /\ pc \in Running /\ pc' = "killed"
  /\ \/ UNCHANGED disk
     \/ /\ pc = "merge" /\ at > Len(Local) /\ \A i \in DOMAIN mapping : mapping[i] # 0
        /\ disk' = [disk EXCEPT !.map[Csv.file] = TornFile]
     \/ /\ pc = "save" /\ Len(vm) <= Ceiling
        /\ disk' = [disk EXCEPT !.vocab = TornFile]
  /\ UNCHANGED <<runs, corpus, k, at, vm, mapping, inventory, loaded, skipped>>

Next ==
  \/ Start \/ SkipUnloadable \/ Refuse \/ OpenCsv \/ MergeToken \/ EndCsv
  \/ NoneLoaded \/ RefuseVariant \/ AddVariants \/ Overflow \/ SaveVocabulary \/ Kill

Spec == Init /\ [][Next]_vars

-----------------------------------------------------------------------------
(* Type correctness of the loop's state and of the files.                  *)
TypeOK ==
  /\ pc \in Running \cup {"idle", "raised", "killed", "done"}
  /\ runs \in 0..MaxRuns /\ corpus \in Corpora \cup {NoCorpus}
  /\ k \in 1..Len(corpus.csvs) + 1
  /\ pc = "merge" => at \in Digits + 1..Len(Local) + 1 /\ Len(mapping) = Len(Local)
  /\ Range(mapping) \subseteq 0..Len(vm)
  /\ inventory \subseteq VariantName /\ loaded \in 0..k
  /\ \A f \in Files : disk.map[f].state \in {"absent", "whole", "torn"}
  /\ disk.vocab.state \in {"absent", "whole", "torn"}

(* The mapping files the run that saved the vocabulary wrote.              *)
CurrentMappings ==
  {disk.map[f] : f \in {g \in Files : disk.map[g].state = "whole"
                                      /\ disk.vocab.state = "whole"
                                      /\ disk.map[g].run = disk.vocab.run}}

(* Read through the saved and reloaded vocabulary, a mapping file of the   *)
(* same run sends every id of the CSV's token stream, reserved ones        *)
(* included, to the token of the same meaning: the digit, the marker, or   *)
(* the mnemonic under the family of the CSV's ISA; and no two ids to one.  *)
(* Concerns the merge over all CSVs, either era of the reserved prefix,    *)
(* and the two ends of the file format.  (With the types of the state.)    *)
MappingTranslates ==
  TypeOK /\
  LET table == LoadUnified(disk.vocab)
  IN  table # None =>
        \A m \in CurrentMappings :
          LET stream == StreamTable(m.of)
          IN  /\ Len(m.ids) = Len(stream)
              /\ \A i \in DOMAIN stream :
                   /\ m.ids[i] \in DOMAIN table
                   /\ table[m.ids[i]].name = UnifiedEntry(stream[i]).name
                   /\ table[m.ids[i]].type = stream[i].type
              /\ IsInjective(m.ids)

(* A run that completes leaves, beside its vocabulary, a mapping of its    *)
(* own for every CSV of its input that it did not pass over: a mapping of  *)
(* an earlier run, which means nothing under the new ids, survives only    *)
(* for a skipped CSV or one it was not given.                              *)
StaleOnlyIfSkipped ==
  pc = "done" =>
    \A csv \in Range(corpus.csvs) :
      csv.file \notin skipped =>
        /\ disk.map[csv.file] \in CurrentMappings
        /\ disk.map[csv.file].of = csv

(* The ISAs of the family that contributed a mnemonic so far in this run.  *)
Contributors(name) ==
  {corpus.csvs[j].isa : j \in
    {j \in 1..Len(corpus.csvs) :
      /\ FamilyOf[corpus.csvs[j].isa] = name.prefix
      /\ (j < k /\ corpus.csvs[j].loads) \/ (j = k /\ pc = "merge")
      /\ \E i \in DOMAIN corpus.csvs[j].tokens :
           /\ corpus.csvs[j].tokens[i] = [kind |-> "platform", word |-> name.word]
           /\ j < k \/ i + Len(ReservedPrefix(corpus.legacy)) < at}}

(* Whatever the order of the CSVs, the platform recorded for a mnemonic is *)
(* its ISA if one ISA of the family used it and the joint platform if more *)
(* did.                                                                    *)
PlatformIsContributors ==
  pc \in Running \cup {"done"} =>
    \A i \in DOMAIN vm :
      vm[i].type = "platform" =>
        LET isas == Contributors(vm[i].name)
        IN  IF Cardinality(isas) = 1 THEN vm[i].plat \in isas
            ELSE isas # {} /\ vm[i].plat = UnifiedOf[vm[i].name.prefix]

(* Every CSV the run mapped, and whose sidecar parses, can be encoded      *)
(* against the reloaded vocabulary, and its record decodes to the axes it  *)
(* came from, the positional ones at their places.                         *)
VariantsRoundTrip ==
  LET table == LoadUnified(disk.vocab)
  IN  table # None =>
        \A m \in CurrentMappings :
          m.of.sidecar = "ok" =>
            LET record == EncodeRecord(m.of, table)
            IN  /\ 0 \notin Range(record)
                /\ DecodeRecord(record, table) =
                     [axes |-> SubSeq(AxisGrouped(m.of.meta), 1, Len(Positional)),
                      tail |-> {n \in m.of.meta : n.prefix \in Range(Keys)}]

=============================================================================
