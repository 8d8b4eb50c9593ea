------------------------------ MODULE ConfigGen ------------------------------
(***************************************************************************)
(* generate_configs.py: writes the ASCOM Alpaca Simulator settings of each *)
(* Seestar model and mount type, five device files per pair, under         *)
(* /tmp/seestar-configs/<model>/<mount>/<device>/v1/instance-0.xml.  It is *)
(* a sequential script: main() loops over SEESTAR_SPECS, MOUNT_TYPES and   *)
(* the five devices, opening each file with open(path, 'w').  Nothing      *)
(* creates the directories: a missing one makes open() raise              *)
(* FileNotFoundError, which ends the script.                               *)
(*                                                                         *)
(* A file's content is the record of the values the template fills in;    *)
(* the XML around them is the same in every file and left out.  Numbers   *)
(* are the text str() writes for them.                                     *)
(***************************************************************************)
EXTENDS Naturals, Sequences, FiniteSets

CONSTANT Layouts   \* the file systems main() may start on: sets of existing
                   \*   device directories and of files already there

(* SEESTAR_SPECS, in dict order *)
ModelOrder == <<"s30", "s30-pro", "s50">>
SEESTAR_SPECS ==
    [m \in {"s30", "s30-pro", "s50"} |->
      CASE m = "s30" ->
             [aperture |-> "0.03", aperture_area |-> "0.00070686",
              focal_length |-> "0.15", sensor |-> "Sony IMX662",
              resolution_x |-> "1920", resolution_y |-> "1080",
              pixel_size |-> "2.9",
              uuid |-> [telescope |-> "a1b2c3d4-e5f6-4a5b-8c9d-111111111111",
                        camera |-> "s30-cam01-1111-2222-3333-444444444444",
                        filterwheel |-> "s30-fw001-1111-2222-3333-444444444444",
                        focuser |-> "s30-foc01-1111-2222-3333-444444444444",
                        switch |-> "s30-sw001-1111-2222-3333-444444444444"]]
        [] m = "s30-pro" ->
             [aperture |-> "0.03", aperture_area |-> "0.00070686",
              focal_length |-> "0.16", sensor |-> "Sony IMX585",
              resolution_x |-> "3840", resolution_y |-> "2160",
              pixel_size |-> "2.9",
              uuid |-> [telescope |-> "b2c3d4e5-f6a7-4b5c-9d0e-222222222222",
                        camera |-> "s30p-cam01-2222-3333-4444-555555555555",
                        filterwheel |-> "s30p-fw001-2222-3333-4444-555555555555",
                        focuser |-> "s30p-foc01-2222-3333-4444-555555555555",
                        switch |-> "s30p-sw001-2222-3333-4444-555555555555"]]
        [] m = "s50" ->
             [aperture |-> "0.05", aperture_area |-> "0.00196349",
              focal_length |-> "0.25", sensor |-> "Sony IMX462",
              resolution_x |-> "1920", resolution_y |-> "1080",
              pixel_size |-> "2.9",
              uuid |-> [telescope |-> "c3d4e5f6-a7b8-4c5d-0e1f-333333333333",
                        camera |-> "s50-cam01-3333-4444-5555-666666666666",
                        filterwheel |-> "s50-fw001-3333-4444-5555-666666666666",
                        focuser |-> "s50-foc01-3333-4444-5555-666666666666",
                        switch |-> "s50-sw001-3333-4444-5555-666666666666"]]]

(* MOUNT_TYPES, in dict order *)
MountOrder == <<"altaz", "equatorial", "german-equatorial">>
MOUNT_TYPES ==
    [t \in {"altaz", "equatorial", "german-equatorial"} |->
        [align_mode |-> IF t = "altaz" THEN "0"
                        ELSE IF t = "equatorial" THEN "1" ELSE "2",
         can_equatorial |-> "True",
         can_altaz |-> IF t = "altaz" THEN "True" ELSE "False"]]

LOCATION == [latitude |-> "37.82439566666667", longitude |-> "-94.50201666666666",
             elevation |-> "306"]

(* The order of the with-open blocks in main(). *)
Devices == <<"telescope", "camera", "filterwheel", "focuser", "switch">>

NM == Len(ModelOrder)
NT == Len(MountOrder)
ND == Len(Devices)
NFiles == NM * NT * ND

(* The i-th file main() writes: <<model, mount, device>>. *)
FileAt(i) ==
    LET j == i - 1
    IN  <<ModelOrder[(j \div (NT * ND)) + 1],
          MountOrder[((j \div ND) % NT) + 1],
          Devices[(j % ND) + 1]>>

Paths == {FileAt(i) : i \in 1..NFiles}

(* The templates: what each create_*_config fills into its XML. *)
create_telescope_config(m, t) ==
    [UniqueID |-> SEESTAR_SPECS[m].uuid.telescope,
     Latitude |-> LOCATION.latitude, Longitude |-> LOCATION.longitude,
     Elevation |-> LOCATION.elevation,
     AlignMode |-> MOUNT_TYPES[t].align_mode,
     Aperture |-> SEESTAR_SPECS[m].aperture,
     ApertureArea |-> SEESTAR_SPECS[m].aperture_area,
     FocalLength |-> SEESTAR_SPECS[m].focal_length,
     CanAltAz |-> MOUNT_TYPES[t].can_altaz,
     CanSlewAltAz |-> MOUNT_TYPES[t].can_altaz,
     CanSyncAltAz |-> MOUNT_TYPES[t].can_altaz,
     CanSlewAltAzAsync |-> MOUNT_TYPES[t].can_altaz,
     CanEquatorial |-> MOUNT_TYPES[t].can_equatorial]

create_camera_config(m) ==
    [UniqueID |-> SEESTAR_SPECS[m].uuid.camera,
     PixelSizeX |-> SEESTAR_SPECS[m].pixel_size,
     PixelSizeY |-> SEESTAR_SPECS[m].pixel_size,
     CameraXSize |-> SEESTAR_SPECS[m].resolution_x,
     CameraYSize |-> SEESTAR_SPECS[m].resolution_y,
     SensorName |-> SEESTAR_SPECS[m].sensor]

create_filterwheel_config(m) == [UniqueID |-> SEESTAR_SPECS[m].uuid.filterwheel]

(* Mutant: the focuser template copied from the filter wheel's. *)
create_focuser_config_copied(m) == [UniqueID |-> SEESTAR_SPECS[m].uuid.filterwheel]

create_focuser_config(m) == [UniqueID |-> SEESTAR_SPECS[m].uuid.focuser]

create_switch_config(m) == [UniqueID |-> SEESTAR_SPECS[m].uuid.switch]

(* The content main() writes to file <<m, t, d>>. *)
Render(f) ==
    LET m == f[1] t == f[2] d == f[3]
    IN  CASE d = "telescope"   -> create_telescope_config(m, t)
          [] d = "camera"      -> create_camera_config(m)
          [] d = "filterwheel" -> create_filterwheel_config(m)
          [] d = "focuser"     -> create_focuser_config(m)
          [] d = "switch"      -> create_switch_config(m)

(* main() starts on a file system where each of its paths is absent or    *)
(* holds an earlier version; nothing of this run is written yet.          *)
ASSUME ConfigGenAssumption ==
    \A l \in Layouts : l.files \in [Paths -> {"absent", "old"}]

VARIABLES
    dirs,    \* the device directories that exist
    files,   \* path -> "absent", "old" (an earlier version's) or "new":
             \*   written by this run, with content Render(path)
    pc,      \* the index of the next file main() opens
    status   \* "running", "done" (success printed) or "crashed"

genVars == <<dirs, files, pc, status>>

ConfigGenInit ==
    /\ \E l \in Layouts : dirs = l.dirs /\ files = l.files
    /\ pc = 1
    /\ status = "running"

(* One with-open block: open(path, 'w') creates or truncates the file in   *)
(* an existing directory and writes the template; in a missing one it      *)
(* raises FileNotFoundError and main() ends.                               *)
WriteFile ==
    /\ status = "running" /\ pc <= NFiles
    /\ \/ /\ FileAt(pc) \in dirs
          /\ files' = [files EXCEPT ![FileAt(pc)] = "new"]
          /\ pc' = pc + 1
          /\ UNCHANGED status
       \/ /\ FileAt(pc) \notin dirs
          /\ status' = "crashed"
          /\ UNCHANGED <<files, pc>>
    /\ UNCHANGED dirs

(* The loops end: the success message. *)
Finish ==
    /\ status = "running" /\ pc = NFiles + 1
    /\ status' = "done"
    /\ UNCHANGED <<dirs, files, pc>>

ConfigGenNext == WriteFile \/ Finish

ConfigGenSpec == ConfigGenInit /\ [][ConfigGenNext]_genVars

-----------------------------------------------------------------------------
(* Properties *)

(* After the success message, every model and mount type has its five     *)
(* device files from this run, and their UniqueIDs are five distinct ids   *)
(* (the simulator serving one configuration tells its devices apart by     *)
(* UniqueID).                                                              *)
SuccessMeansComplete ==
    status = "done" =>
        \A m \in {ModelOrder[i] : i \in 1..NM}, t \in {MountOrder[i] : i \in 1..NT} :
            LET fs == {<<m, t, Devices[k]>> : k \in 1..ND}
            IN  /\ \A f \in fs : files[f] = "new"
                /\ Cardinality({Render(f).UniqueID : f \in fs}) = ND

=============================================================================
