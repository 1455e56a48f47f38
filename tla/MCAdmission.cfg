SPECIFICATION Spec
CONSTANTS
  Guilds <- MCGuilds
  Channels <- MCChannels
  Users <- MCUsers
  GuildOf <- MCGuildOf
  Inputs <- MCInputs
  Sources <- MCSources
INVARIANTS
  GatesAgree
  CallerWasAdmitted
  FullProfileIsMaintainers
  SetupLoads
  OwnProfile
