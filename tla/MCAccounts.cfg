SPECIFICATION Spec
CONSTANTS
  alice = alice
  bob = bob
  png = png
  jpeg = jpeg
  png2 = png2
  blank = blank
  image1 = image1
  image2 = image2
  Names = {alice}
  Passwords = {p1}
  Bios = {hello}
  Files = {png, png2, jpeg, blank}
  EmptyFile = blank
  MimeOf <- MCMimeOf
  Throttle = 2
  MaxNow = 3
  NoValue = NoValue
  AccountRequests = {r1, r2}
  Owners = {alice, bob}
  PushTokens = {t1, t2}
  Devices = {phone, unnamed}
  NoDevice = NoDevice
  BlankDevice = unnamed
  RowIds = {i1, i2, i3, i4}
  NoRow = NoRow
  DeviceRequests = {r1, r2}
SYMMETRY Interchangeable
INVARIANTS
  AccountsTypeOK
  AdvertisedAvatarServed
  DevicesTypeOK
  PushRowsUnique
PROPERTIES
  NoLostColumn
  AvatarWholeUnlessRaced
  SeenKeptFresh
  RegistrationReaches
