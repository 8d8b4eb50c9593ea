-------------------------- MODULE ConfigGenProofs --------------------------
(***************************************************************************)
(* Proofs about generate_configs.py (ConfigGen) for every start layout of *)
(* the file system.                                                        *)
(***************************************************************************)
EXTENDS ConfigGen, FiniteSetTheorems, TLAPS

(* The files of a path: absent, an earlier version, or this run's. *)
FileStates == {"absent", "old", "new"}

GenTypeOK ==
    /\ files \in [Paths -> FileStates]
    /\ pc \in 1..NFiles + 1
    /\ status \in {"running", "done", "crashed"}

(* The loop has written the files before pc, and only the end of the     *)
(* loops prints the success message.                                      *)
WrittenBefore == \A i \in 1..pc - 1 : files[FileAt(i)] = "new"
DoneAtEnd == status = "done" => pc = NFiles + 1

GInv == GenTypeOK /\ WrittenBefore /\ DoneAtEnd

-----------------------------------------------------------------------------
(* The tables of generate_configs.py *)

(* The five ids SEESTAR_SPECS gives the devices of a model. *)
UUIDs(m) ==
    LET u == SEESTAR_SPECS[m].uuid
    IN  {u.telescope, u.camera, u.filterwheel, u.focuser, u.switch}

(* Each model's five device ids are distinct. *)
LEMMA UUIDsDistinct ==
    ASSUME NEW m \in {"s30", "s30-pro", "s50"}
    PROVE  LET u == SEESTAR_SPECS[m].uuid
           IN  /\ u.telescope # u.camera /\ u.telescope # u.filterwheel
               /\ u.telescope # u.focuser /\ u.telescope # u.switch
               /\ u.camera # u.filterwheel /\ u.camera # u.focuser
               /\ u.camera # u.switch /\ u.filterwheel # u.focuser
               /\ u.filterwheel # u.switch /\ u.focuser # u.switch
BY DEF SEESTAR_SPECS

(* The sizes of main()'s three loops. *)
LEMMA Sizes == NM = 3 /\ NT = 3 /\ ND = 5 /\ NFiles = 45
BY DEF NM, NT, ND, NFiles, ModelOrder, MountOrder, Devices

(* Five distinct values make a set of five. *)
LEMMA CardFive ==
    ASSUME NEW a, NEW b, NEW c, NEW d, NEW e,
           a # b, a # c, a # d, a # e, b # c, b # d, b # e, c # d, c # e, d # e
    PROVE  Cardinality({a, b, c, d, e}) = 5
<1>1. IsFiniteSet({a}) /\ Cardinality({a}) = 1
  BY FS_Singleton
<1>2. IsFiniteSet({a, b}) /\ Cardinality({a, b}) = 2
  <2>1. {a} \cup {b} = {a, b} /\ b \notin {a}
    OBVIOUS
  <2>. QED  BY <1>1, <2>1, FS_AddElement
<1>3. IsFiniteSet({a, b, c}) /\ Cardinality({a, b, c}) = 3
  <2>1. {a, b} \cup {c} = {a, b, c} /\ c \notin {a, b}
    OBVIOUS
  <2>. QED  BY <1>2, <2>1, FS_AddElement
<1>4. IsFiniteSet({a, b, c, d}) /\ Cardinality({a, b, c, d}) = 4
  <2>1. {a, b, c} \cup {d} = {a, b, c, d} /\ d \notin {a, b, c}
    OBVIOUS
  <2>. QED  BY <1>3, <2>1, FS_AddElement
<1>5. Cardinality({a, b, c, d} \cup {e}) = 5
  <2>1. e \notin {a, b, c, d}
    OBVIOUS
  <2>. QED  BY <1>4, <2>1, FS_AddElement
<1>6. {a, b, c, d} \cup {e} = {a, b, c, d, e}
  OBVIOUS
<1>7. QED
  BY <1>5, <1>6

(* The i-th file of main()'s loops, for i = model, mount and device       *)
(* positions in row-major order: every triple is written at some i.       *)
LEMMA FileAtCovers ==
    ASSUME NEW mi \in 1..NM, NEW ti \in 1..NT, NEW k \in 1..ND
    PROVE  LET i == (mi - 1) * (NT * ND) + (ti - 1) * ND + k
           IN  /\ i \in 1..NFiles
               /\ FileAt(i) = <<ModelOrder[mi], MountOrder[ti], Devices[k]>>
<1> DEFINE j == (mi - 1) * 15 + (ti - 1) * 5 + (k - 1)
<1>1. mi \in 1..3 /\ ti \in 1..3 /\ k \in 1..5
  BY Sizes
<1>2. j \div 15 = mi - 1
  BY <1>1
<1>3. (j \div 5) % 3 = ti - 1
  <2>1. j \div 5 = (mi - 1) * 3 + (ti - 1)
    BY <1>1
  <2>2. QED
    BY <1>1, <2>1
<1>4. j % 5 = k - 1
  BY <1>1
<1>5. QED
  BY <1>1, <1>2, <1>3, <1>4, Sizes DEF FileAt

(* The ids main() writes into the five files of a model and mount are     *)
(* the model's five device ids.                                            *)
LEMMA RenderIDs ==
    ASSUME NEW m \in {"s30", "s30-pro", "s50"}, NEW t
    PROVE  {Render(<<m, t, Devices[k]>>).UniqueID : k \in 1..ND} = UUIDs(m)
<1>1. /\ Render(<<m, t, "telescope">>).UniqueID = SEESTAR_SPECS[m].uuid.telescope
      /\ Render(<<m, t, "camera">>).UniqueID = SEESTAR_SPECS[m].uuid.camera
      /\ Render(<<m, t, "filterwheel">>).UniqueID = SEESTAR_SPECS[m].uuid.filterwheel
      /\ Render(<<m, t, "focuser">>).UniqueID = SEESTAR_SPECS[m].uuid.focuser
      /\ Render(<<m, t, "switch">>).UniqueID = SEESTAR_SPECS[m].uuid.switch
  BY DEF Render, create_telescope_config, create_camera_config,
         create_filterwheel_config, create_focuser_config, create_switch_config
<1>2. 1..ND = {1, 2, 3, 4, 5}
  BY Sizes
<1> DEFINE R(k) == Render(<<m, t, Devices[k]>>).UniqueID
<1>3. {R(k) : k \in 1..ND} = {R(1), R(2), R(3), R(4), R(5)}
  BY <1>2
<1>4. /\ R(1) = SEESTAR_SPECS[m].uuid.telescope /\ R(2) = SEESTAR_SPECS[m].uuid.camera
      /\ R(3) = SEESTAR_SPECS[m].uuid.filterwheel /\ R(4) = SEESTAR_SPECS[m].uuid.focuser
      /\ R(5) = SEESTAR_SPECS[m].uuid.switch
  BY <1>1 DEF Devices
<1>5. QED
  BY <1>3, <1>4 DEF UUIDs

(* The device ids of each model, as SEESTAR_SPECS lists them. *)
IdsS30 == {"a1b2c3d4-e5f6-4a5b-8c9d-111111111111",
           "s30-cam01-1111-2222-3333-444444444444",
           "s30-fw001-1111-2222-3333-444444444444",
           "s30-foc01-1111-2222-3333-444444444444",
           "s30-sw001-1111-2222-3333-444444444444"}

IdsS30Pro == {"b2c3d4e5-f6a7-4b5c-9d0e-222222222222",
              "s30p-cam01-2222-3333-4444-555555555555",
              "s30p-fw001-2222-3333-4444-555555555555",
              "s30p-foc01-2222-3333-4444-555555555555",
              "s30p-sw001-2222-3333-4444-555555555555"}

IdsS50 == {"c3d4e5f6-a7b8-4c5d-0e1f-333333333333",
           "s50-cam01-3333-4444-5555-666666666666",
           "s50-fw001-3333-4444-5555-666666666666",
           "s50-foc01-3333-4444-5555-666666666666",
           "s50-sw001-3333-4444-5555-666666666666"}

(* Each model's id list has five members. *)
LEMMA IdsCount ==
    /\ Cardinality(IdsS30) = 5
    /\ Cardinality(IdsS30Pro) = 5
    /\ Cardinality(IdsS50) = 5
<1>1. Cardinality(IdsS30) = 5
  BY CardFive DEF IdsS30
<1>2. Cardinality(IdsS30Pro) = 5
  BY CardFive DEF IdsS30Pro
<1>3. Cardinality(IdsS50) = 5
  BY CardFive DEF IdsS50
<1>4. QED
  BY <1>1, <1>2, <1>3

(* A model has five device ids. *)
LEMMA UUIDCount ==
    ASSUME NEW m \in {"s30", "s30-pro", "s50"}
    PROVE  Cardinality(UUIDs(m)) = 5
<1>1. UUIDs(m) \in {IdsS30, IdsS30Pro, IdsS50}
  BY DEF UUIDs, SEESTAR_SPECS, IdsS30, IdsS30Pro, IdsS50
<1>2. QED
  BY <1>1, IdsCount

(* The five files of a model and mount carry five distinct ids. *)
LEMMA DistinctIDs ==
    ASSUME NEW m \in {"s30", "s30-pro", "s50"}, NEW t
    PROVE  Cardinality({Render(<<m, t, Devices[k]>>).UniqueID : k \in 1..ND}) = ND
<1>1. {Render(<<m, t, Devices[k]>>).UniqueID : k \in 1..ND} = UUIDs(m)
  BY RenderIDs
<1>2. Cardinality(UUIDs(m)) = 5
  BY UUIDCount
<1>3. QED
  BY <1>1, <1>2, Sizes


-----------------------------------------------------------------------------
(* GInv is an inductive invariant of main()'s loop. *)

LEMMA InitGInv == ConfigGenInit => GInv
<1> SUFFICES ASSUME ConfigGenInit PROVE GInv
  OBVIOUS
<1>1. PICK l \in Layouts : dirs = l.dirs /\ files = l.files
  BY DEF ConfigGenInit
<1>2. files \in [Paths -> FileStates]
  BY <1>1, ConfigGenAssumption DEF FileStates
<1>3. pc = 1 /\ status = "running"
  BY DEF ConfigGenInit
<1>4. QED
  BY <1>2, <1>3, Sizes DEF GInv, GenTypeOK, WrittenBefore, DoneAtEnd

(* Every step of main() keeps GInv. *)
LEMMA NextGInv == GInv /\ [ConfigGenNext]_genVars => GInv'
<1> SUFFICES ASSUME GInv, [ConfigGenNext]_genVars PROVE GInv'
  OBVIOUS
<1> USE DEF GInv, GenTypeOK
<1>1. CASE WriteFile /\ FileAt(pc) \in dirs
  <2>1. pc \in 1..NFiles /\ status = "running"
    BY <1>1 DEF WriteFile
  <2>2. FileAt(pc) \in Paths
    BY <2>1 DEF Paths
  <2>3. files' = [files EXCEPT ![FileAt(pc)] = "new"] /\ pc' = pc + 1
        /\ status' = status
    BY <1>1 DEF WriteFile
  <2>4. GenTypeOK'
    BY <2>1, <2>2, <2>3, Sizes DEF FileStates
  <2>5. WrittenBefore'
    <3> SUFFICES ASSUME NEW i \in 1..pc PROVE files'[FileAt(i)] = "new"
      BY <2>3 DEF WrittenBefore
    <3>1. FileAt(i) \in Paths
      <4>1. i \in 1..NFiles
        BY <2>1, Sizes
      <4>2. QED
        BY <4>1 DEF Paths
    <3>2. CASE i = pc
      BY <2>2, <2>3, <3>2
    <3>3. CASE i < pc
      BY <2>3, <3>1, <3>3 DEF WrittenBefore
    <3>4. QED
      BY <3>2, <3>3
  <2>6. DoneAtEnd'
    BY <2>1, <2>3 DEF DoneAtEnd
  <2>7. QED
    BY <2>4, <2>5, <2>6
<1>2. CASE WriteFile /\ FileAt(pc) \notin dirs
  <2>1. status' = "crashed" /\ UNCHANGED <<files, pc>>
    BY <1>2 DEF WriteFile
  <2>2. QED
    BY <2>1 DEF WrittenBefore, DoneAtEnd
<1>3. CASE Finish
  BY <1>3 DEF Finish, WrittenBefore, DoneAtEnd
<1>4. CASE UNCHANGED genVars
  BY <1>4 DEF genVars, WrittenBefore, DoneAtEnd
<1>5. QED
  BY <1>1, <1>2, <1>3, <1>4 DEF ConfigGenNext

-----------------------------------------------------------------------------

(* GInv implies SuccessMeansComplete. *)
LEMMA GInvSuccess == GInv => SuccessMeansComplete
<1> SUFFICES ASSUME GInv, status = "done",
                    NEW m \in {ModelOrder[i] : i \in 1..NM},
                    NEW t \in {MountOrder[i] : i \in 1..NT}
             PROVE  LET fs == {<<m, t, Devices[k]>> : k \in 1..ND}
                    IN  /\ \A f \in fs : files[f] = "new"
                        /\ Cardinality({Render(f).UniqueID : f \in fs}) = ND
  BY DEF SuccessMeansComplete
<1>1. PICK mi \in 1..NM : m = ModelOrder[mi]
  OBVIOUS
<1>2. PICK ti \in 1..NT : t = MountOrder[ti]
  OBVIOUS
<1>3. pc = NFiles + 1
  BY DEF GInv, DoneAtEnd
<1>4. ASSUME NEW k \in 1..ND PROVE files[<<m, t, Devices[k]>>] = "new"
  <2> DEFINE idx == (mi - 1) * (NT * ND) + (ti - 1) * ND + k
  <2>1. idx \in 1..NFiles /\ FileAt(idx) = <<m, t, Devices[k]>>
    BY <1>1, <1>2, FileAtCovers
  <2>2. idx \in 1..pc - 1
    BY <1>3, <2>1, Sizes
  <2>3. QED
    BY <2>1, <2>2 DEF GInv, WrittenBefore
<1>5. \A f \in {<<m, t, Devices[k]>> : k \in 1..ND} : files[f] = "new"
  BY <1>4
<1>6. m \in {"s30", "s30-pro", "s50"}
  BY <1>1, Sizes DEF ModelOrder
<1>7. {Render(f).UniqueID : f \in {<<m, t, Devices[k]>> : k \in 1..ND}}
        = {Render(<<m, t, Devices[k]>>).UniqueID : k \in 1..ND}
  OBVIOUS
<1>8. Cardinality({Render(<<m, t, Devices[k]>>).UniqueID : k \in 1..ND}) = ND
  BY <1>6, DistinctIDs
<1>9. QED
  BY <1>5, <1>7, <1>8

(* SuccessMeansComplete, for every file system main() may start on: when *)
(* generate_configs.py prints its success message, every Seestar model    *)
(* and mount type has all five device files written by this run, and     *)
(* their UniqueIDs are five distinct ids.                                *)
THEOREM SuccessComplete == ConfigGenSpec => []SuccessMeansComplete
<1>1. ConfigGenSpec => []GInv
  BY InitGInv, NextGInv, PTL DEF ConfigGenSpec
<1>2. QED
  BY <1>1, GInvSuccess, PTL

=============================================================================
