SPECIFICATION FairSpec
CONSTANTS
  TrackIds = {1, 2}
  Classes = {"UAV", "bird"}
  DroneClass = "UAV"
  N_DEVICES = 2
  Cooldown = 2
  MaxFrames = 4
INVARIANTS QuietBeforeLlm SnapshotFaithful LlmOwnsNpu CamerasRelit
PROPERTIES CooldownEnds WindowCloses
