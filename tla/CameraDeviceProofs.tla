------------------------- MODULE CameraDeviceProofs --------------------------
(***************************************************************************)
(* Proofs about the camera below the threads of CameraHardwareSec: what a  *)
(* picture says of itself, the sizes and buffers, the frames of a          *)
(* recording, the device and its settings; for every place on earth, every *)
(* size that a client asks for, any number of buffers, every sequence of   *)
(* calls and whatever fails.                                               *)
(***************************************************************************)
EXTENDS CameraExif, CameraGeometry, CameraRecording, CameraSettings, SecCamera, TLAPS

-----------------------------------------------------------------------------
(* A picture has the location its client gave, and its header is sound.      *)

\* The angle that setGPSLatitude() and setGPSLongitude() compute for a key.
Angle(c) == IF c = None THEN Nowhere ELSE Sexagesimal(c)

Given == Latitudes \cup Longitudes \cup {None}

\* The fields that the steps keep, and the values of the coordinates.
KeyShape(q) ==
  /\ DOMAIN q = {"latitude", "longitude", "altitude", "stamp", "rotation"}
  /\ q.latitude \in Given /\ q.longitude \in Given
GpsShape(g) ==
  DOMAIN g = {"id", "enabled", "latitude", "longitude", "altitude", "stamp", "orientation", "lens"}

\* SecCamera has what the keys say; a location only by the longitude.
GpsFollows ==
  /\ gps.enabled = (keys.longitude # None)
  /\ keys.latitude # None => gps.latitude = keys.latitude
  /\ keys.longitude # None => gps.longitude = keys.longitude

\* And so have the structures for the back camera's sensor, while it is the one in use.
InfoFollows ==
  gps.id = "back" => info.latitude = Angle(keys.latitude) /\ info.longitude = Angle(keys.longitude)

\* A picture is of the camera in use and of what is set now.
HeaderFollows ==
  /\ header.id = "back" =>
       /\ gps.id = "back"
       /\ header.at.latitude = info.latitude /\ header.at.longitude = info.longitude
  /\ header.id = "front" =>
       /\ header.gps.located = gps.enabled
       /\ header.gps.latitude = gps.latitude /\ header.gps.longitude = gps.longitude

\* The inductive invariant.
ExifInv ==
  /\ DOMAIN sensor = {"latitude", "longitude", "altitude", "stamp", "orientation"}
  /\ KeyShape(keys) /\ GpsShape(gps) /\ GpsFollows /\ InfoFollows /\ HeaderFollows

\* Half a turn as a number, kept apart from its definition: only arithmetic leaves need it.
LEMMA HalfTurnInt == HalfTurn \in Int
  BY SMT DEF HalfTurn
\* And which number it is.
LEMMA HalfTurnIs == HalfTurn = 1800000000
  BY SMT DEF HalfTurn

\* The absolute value is one of the two signs, and not below zero.
LEMMA AbsIs == ASSUME NEW c \in Int PROVE Abs(c) \in Int /\ Abs(c) >= 0 /\ (Abs(c) = c \/ Abs(c) = -c)
  BY SMT DEF Abs

\* Sixty times a fraction of a unit: a whole number below sixty and a fraction.
LEMMA SixtyParts ==
  ASSUME NEW q \in Int, q >= 0, q < 10000000
  PROVE  /\ (q * 60) \div 10000000 \in 0 .. 59
         /\ (q * 60) % 10000000 \in Int /\ (q * 60) % 10000000 >= 0 /\ (q * 60) % 10000000 < 10000000
         /\ q * 60 = 10000000 * ((q * 60) \div 10000000) + ((q * 60) % 10000000)
  BY SMT

\* Degrees, minutes and seconds name the coordinate to the second (the divisions of
\* setGPSLatitude() and setGPSLongitude()).
LEMMA SexagesimalNames ==
  ASSUME NEW c \in Int, c <= HalfTurn, -c <= HalfTurn
  PROVE  Names(Sexagesimal(c), c)
<1> DEFINE a == Abs(c)
           d == a \div 10000000
           q == a % 10000000
           m == (q * 60) \div 10000000
           u == (q * 60) % 10000000
           s == (u * 60) \div 10000000
           v == (u * 60) % 10000000
<1>1. a \in Int /\ a >= 0 /\ a <= 1800000000
  BY SMT, AbsIs, HalfTurnIs
<1>2. Sexagesimal(c) = [below |-> c < 0, dgree |-> d, minute |-> m, second |-> s]
  BY SMT DEF Sexagesimal, Unit
<1> HIDE DEF a
<1>3. /\ d \in 0 .. 180 /\ q \in Int /\ q >= 0 /\ q < 10000000
      /\ a = 10000000 * d + q
  BY SMT, <1>1
<1> HIDE DEF d, q
<1>4. m \in 0 .. 59 /\ u \in Int /\ u >= 0 /\ u < 10000000 /\ q * 60 = 10000000 * m + u
  BY <1>3, SixtyParts
<1> HIDE DEF m, u
<1>5. s \in 0 .. 59 /\ v \in Int /\ v >= 0 /\ v < 10000000 /\ u * 60 = 10000000 * s + v
  BY <1>4, SixtyParts
<1> HIDE DEF s, v
<1>6. /\ 9 * (a - d * 10000000) - 25000 * (60 * m + s) >= 0
      /\ 9 * (a - d * 10000000) - 25000 * (60 * m + s) < 25000
  BY SMT, <1>1, <1>3, <1>4, <1>5
<1>7. [below |-> c < 0, dgree |-> d, minute |-> m, second |-> s] \in Angles
  BY <1>3, <1>4, <1>5 DEF Angles
<1>8. QED
  BY SMT, <1>2, <1>6, <1>7 DEF Names, Unit, a

\* Before any call there is no location anywhere: initDefaultParameters() gives none.
LEMMA ExifStarts == InitExif => ExifInv
<1> SUFFICES ASSUME InitExif PROVE ExifInv
  OBVIOUS
<1>1. /\ keys.latitude = None /\ keys.longitude = None /\ KeyShape(keys)
      /\ info.latitude = Nowhere /\ info.longitude = Nowhere /\ header.id = "none"
  BY DEF InitExif, NoKeys, NoHeader, KeyShape, Given
<1>2. DOMAIN sensor = {"latitude", "longitude", "altitude", "stamp", "orientation"}
  BY DEF InitExif
<1>3. GpsShape(gps) /\ GpsFollows
  BY <1>1 DEF InitExif, GpsFollows, GpsShape, setExifFixedAttribute
<1>4. QED
  BY <1>1, <1>2, <1>3 DEF ExifInv, InfoFollows, HeaderFollows, Angle

\* Whatever camera is in use, the keys that setParameters() passes on are followed.
LEMMA GiveFollows ==
  ASSUME ExifInv, NEW g, GpsShape(g), NEW q, KeyShape(q), Give(g, info, q)
  PROVE  ExifInv'
<1>1. keys'.latitude = q.latitude /\ keys'.longitude = q.longitude /\ KeyShape(keys')
  BY DEF Give, KeyShape
<1>2. /\ gps'.id = g.id /\ gps'.enabled = (q.longitude # None)
      /\ q.latitude # None => gps'.latitude = q.latitude
      /\ q.longitude # None => gps'.longitude = q.longitude
      /\ GpsShape(gps')
  <2> DEFINE h == setExifOrientationInfo(g, q.rotation)
             k == setGPSLongitude(setGPSLatitude(h, q.latitude), q.longitude)
  <2>1. GpsShape(h) /\ h.id = g.id
    BY DEF GpsShape, setExifOrientationInfo
  <2> HIDE DEF h
  <2>2. /\ GpsShape(k) /\ k.id = g.id /\ k.enabled = (q.longitude # None)
        /\ q.latitude # None => k.latitude = q.latitude
        /\ q.longitude # None => k.longitude = q.longitude
    BY <2>1 DEF GpsShape, setGPSLatitude, setGPSLongitude
  <2>3. gps' = setGPSTimeStamp(setGPSAltitude(k, q.altitude), q.stamp)
    BY DEF Give, h
  <2> HIDE DEF k
  <2>4. QED
    BY <2>2, <2>3 DEF GpsShape, setGPSTimeStamp, setGPSAltitude
<1>3. g.id = "back" => info'.latitude = Angle(q.latitude) /\ info'.longitude = Angle(q.longitude)
  BY DEF Give, Infos, OnBack, Angle
<1>4. header'.id = "none" /\ sensor' = sensor
  BY DEF Give, NoHeader
<1>5. GpsFollows' /\ InfoFollows' /\ HeaderFollows'
  BY <1>1, <1>2, <1>3, <1>4 DEF GpsFollows, InfoFollows, HeaderFollows
<1>6. QED
  BY <1>1, <1>2, <1>4, <1>5 DEF ExifInv

\* setParameters(), a change of cameras and pictures of both cameras keep the invariant.
LEMMA ExifSteps == ExifInv /\ [NextExif]_exifVars => ExifInv'
<1> SUFFICES ASSUME ExifInv, [NextExif]_exifVars PROVE ExifInv'
  OBVIOUS
<1>1. CASE setKeys
  <2> DEFINE Place(a, o, h) == [keys EXCEPT !.latitude = a, !.longitude = o, !.altitude = h]
             Rest(s, r) == [keys EXCEPT !.stamp = s, !.rotation = r]
  <2>1. ASSUME NEW a \in Latitudes \cup {None}, NEW o \in Longitudes \cup {None}, NEW h
        PROVE  KeyShape(Place(a, o, h))
    <3>1. a \in Given /\ o \in Given
      BY DEF Given
    <3>2. KeyShape(keys)
      BY DEF ExifInv
    <3>3. QED
      BY <3>1, <3>2 DEF KeyShape
  <2>2. ASSUME NEW s, NEW r PROVE KeyShape(Rest(s, r))
    BY DEF ExifInv, KeyShape
  <2>3. \E q : KeyShape(q) /\ Give(gps, info, q)
    <3> HIDE DEF Place, Rest
    <3>1. \/ \E a \in Latitudes \cup {None}, o \in Longitudes \cup {None}, h \in Altitudes \cup {None} :
               Give(gps, info, Place(a, o, h))
          \/ \E s \in Stamps \cup {None}, r \in Rotations : Give(gps, info, Rest(s, r))
      BY Zenon, <1>1 DEF setKeys, Place, Rest
    <3>2. QED
      BY Zenon, <2>1, <2>2, <3>1
  <2>4. QED
    BY Zenon, <2>3, GiveFollows DEF ExifInv
<1>2. CASE OpenCamera
  <2>1. PICK id \in Openings : Give(setExifFixedAttribute(gps, id), info, NoKeys)
    BY Zenon, <1>2 DEF OpenCamera
  <2>2. KeyShape(NoKeys)
    BY DEF KeyShape, NoKeys, Given
  <2>3. GpsShape(setExifFixedAttribute(gps, id))
    BY DEF GpsShape, setExifFixedAttribute, ExifInv
  <2>4. QED
    BY Zenon, <2>1, <2>2, <2>3, GiveFollows
<1>3. CASE TakeBack
  <2>1. PICK n \in 0 .. 5 : tellLocation(n)
    BY <1>3 DEF TakeBack
  <2>2. DOMAIN sensor' = DOMAIN sensor
    BY <2>1 DEF tellLocation
  <2>3. CASE n # 5
    BY <1>3, <2>1, <2>2, <2>3
       DEF TakeBack, tellLocation, ExifInv, KeyShape, GpsShape, GpsFollows, InfoFollows, HeaderFollows, NoHeader
  <2>4. CASE n = 5
    <3>1. Controls[1] = "latitude" /\ Controls[2] = "longitude"
      BY DEF Controls
    <3>2. sensor'["latitude"] = info.latitude /\ sensor'["longitude"] = info.longitude
      BY <2>1, <2>4, <3>1 DEF tellLocation, Told, ExifInv
    <3>3. header' = [id |-> "back", at |-> sensor']
      BY <2>1, <2>4 DEF tellLocation
    <3>4. QED
      BY <1>3, <2>2, <3>2, <3>3 DEF TakeBack, ExifInv, KeyShape, GpsShape, GpsFollows, InfoFollows, HeaderFollows
  <2>5. QED
    BY <2>3, <2>4
<1>4. CASE TakeFront
  <2>1. \/ header' = NoHeader
        \/ \E shutter \in Shutters : header' = setExifChangedAttribute(shutter)
    BY <1>4 DEF TakeFront, getExif
  <2>2. HeaderFollows'
    BY <1>4, <2>1 DEF TakeFront, HeaderFollows, NoHeader, setExifChangedAttribute, GpsTags
  <2>3. QED
    BY <1>4, <2>2 DEF TakeFront, ExifInv, KeyShape, GpsShape, GpsFollows, InfoFollows
<1>5. CASE UNCHANGED exifVars
  BY <1>5 DEF exifVars, ExifInv, KeyShape, GpsShape, GpsFollows, InfoFollows, HeaderFollows
<1>6. QED
  BY <1>1, <1>2, <1>3, <1>4, <1>5 DEF NextExif

\* A picture has the location that its client gave, to the second, and none if it gave
\* none, for all coordinates on earth, through changes of cameras and failed pictures
\* (setGPSLatitude(), setGPSLongitude(), setSnapshotCmd(), setExifChangedAttribute()).
THEOREM PicturesHaveTheirLocation == SpecExif => []LocationTrue
<1>1. ExifInv => LocationTrue
  <2> SUFFICES ASSUME ExifInv PROVE LocationTrue
    OBVIOUS
  <2>1. /\ keys.latitude # None => Names(Sexagesimal(keys.latitude), keys.latitude)
        /\ keys.longitude # None => Names(Sexagesimal(keys.longitude), keys.longitude)
    <3>1. ASSUME NEW c \in Latitudes \cup Longitudes PROVE c \in Int /\ c <= HalfTurn /\ -c <= HalfTurn
      BY PlacesOnEarth, HalfTurnInt
    <3>2. \A c \in Latitudes \cup Longitudes : Names(Sexagesimal(c), c)
      BY <3>1, SexagesimalNames
    <3>3. QED
      BY <3>2 DEF ExifInv, KeyShape, Given
  <2>2. QED
    BY <2>1 DEF ExifInv, GpsFollows, InfoFollows, HeaderFollows, LocationTrue, Angle
<1>2. QED
  BY <1>1, ExifStarts, ExifSteps, PTL DEF SpecExif

-----------------------------------------------------------------------------
(* What else a header says.                                                *)

Lens(id) == IF id = "back" THEN 343 ELSE 90
AltitudeInfo(a) == [plus |-> a >= 0, metres |-> Abs(a) \div 100, centimetres |-> Abs(a) % 100]
OrNone(x) == IF x = None THEN 0 ELSE x

\* SecCamera has the rotation, altitude and time of the keys, and its own camera's lens.
GpsOwn ==
  /\ gps.id \in Openings /\ gps.lens = Lens(gps.id)
  /\ gps.orientation = keys.rotation /\ gps.orientation \in 0 .. 360
  /\ gps.altitude = OrNone(keys.altitude) /\ gps.stamp = OrNone(keys.stamp)

\* What the sensor is told is an angle, and the altitude is that of SecCamera.
InfoOwn ==
  /\ info.latitude \in Angles /\ info.longitude \in Angles
  /\ gps.id = "back" => info.altitude = AltitudeInfo(gps.altitude)
  /\ sensor.latitude \in Angles /\ sensor.longitude \in Angles
  /\ sensor.orientation \in {0, 90, 180, 270}

\* A header has what SecCamera had, and has still.
HeaderHas ==
  /\ header.id = "back" =>
       /\ gps.id = "back" /\ header.at.altitude = info.altitude
       /\ header.at.stamp = gps.stamp /\ header.at.orientation = Orientation(gps.orientation)
  /\ header.id = "front" =>
       /\ gps.id = "front" /\ header.lens = gps.lens
       /\ header.orientation = Orientation(gps.orientation) /\ header.gps = GpsTags

KeyValues(q) ==
  /\ q.altitude \in Altitudes \cup {None} /\ q.stamp \in Stamps \cup {None} /\ q.rotation \in Int
  /\ q.rotation <= 360

\* With the location's, the inductive invariant of HeaderSound.
OwnInv == ExifInv /\ KeyValues(keys) /\ GpsOwn /\ InfoOwn /\ HeaderHas

LEMMA AnglesOfKeys == ASSUME NEW c \in Given PROVE Angle(c) \in Angles
<1>1. Nowhere \in Angles
  BY DEF Nowhere, Angles
<1>2. ASSUME NEW d \in Latitudes \cup Longitudes PROVE Sexagesimal(d) \in Angles
  <2>1. d \in Int /\ d <= HalfTurn /\ -d <= HalfTurn
    BY PlacesOnEarth, HalfTurnInt
  <2>2. QED
    BY <2>1, SexagesimalNames DEF Names
<1>3. QED
  BY <1>1, <1>2 DEF Angle, Given

LEMMA OwnStarts == InitExif => OwnInv
<1> SUFFICES ASSUME InitExif PROVE OwnInv
  OBVIOUS
<1>1. KeyValues(keys)
  BY DEF InitExif, NoKeys, KeyValues
<1>2. GpsOwn
  BY DEF InitExif, NoKeys, GpsOwn, setExifFixedAttribute, Lens, OrNone, None
<1>3. InfoOwn
  <2>1. Nowhere \in Angles
    BY DEF Nowhere, Angles
  <2>2. AltitudeInfo(0) = [plus |-> TRUE, metres |-> 0, centimetres |-> 0]
    <3> DEFINE n == Abs(0)
    <3>1. n = 0
      BY DEF Abs
    <3>2. n \div 100 = 0 /\ n % 100 = 0 /\ (0 >= 0) = TRUE
      BY <3>1
    <3>3. QED
      BY <3>2 DEF AltitudeInfo
  <2>3. gps.altitude = 0
    BY DEF InitExif, setExifFixedAttribute
  <2>4. QED
    BY <2>1, <2>2, <2>3 DEF InitExif, InfoOwn
<1>4. HeaderHas
  BY DEF InitExif, NoHeader, HeaderHas
<1>5. QED
  BY <1>1, <1>2, <1>3, <1>4, ExifStarts DEF OwnInv

\* setParameters() and open() follow the keys, and there is no picture yet.
LEMMA GiveOwn ==
  ASSUME OwnInv, NEW g, GpsShape(g), g.id \in Openings, g.lens = Lens(g.id),
         NEW q, KeyShape(q), KeyValues(q), Give(g, info, q),
         g.orientation = keys.rotation \/ q.rotation >= 0
  PROVE  KeyValues(keys)' /\ GpsOwn' /\ InfoOwn' /\ HeaderHas'
<1> DEFINE e == setExifOrientationInfo(g, q.rotation)
           k == setGPSLongitude(setGPSLatitude(e, q.latitude), q.longitude)
<1>1. keys' = [q EXCEPT !.rotation = IF @ < 0 THEN keys.rotation ELSE @] /\ header' = NoHeader
      /\ sensor' = sensor /\ info' = Infos(g, info, q)
      /\ gps' = setGPSTimeStamp(setGPSAltitude(k, q.altitude), q.stamp)
  BY DEF Give
<1>2. /\ keys.rotation \in 0 .. 360 /\ keys.rotation = gps.orientation
      /\ q.rotation \in Int /\ q.rotation <= 360
  BY DEF OwnInv, GpsOwn, KeyValues
<1>3. /\ keys'.altitude = q.altitude /\ keys'.stamp = q.stamp
      /\ keys'.rotation = IF q.rotation < 0 THEN keys.rotation ELSE q.rotation
  BY <1>1 DEF KeyShape
<1>4. KeyValues(keys)'
  BY <1>2, <1>3 DEF KeyValues
<1>5. /\ GpsShape(e) /\ e.id = g.id /\ e.lens = g.lens
      /\ e.orientation = IF q.rotation < 0 THEN g.orientation ELSE q.rotation
  BY DEF GpsShape, setExifOrientationInfo
<1> HIDE DEF e
<1>6. GpsShape(k) /\ k.id = e.id /\ k.lens = e.lens /\ k.orientation = e.orientation
  BY <1>5 DEF GpsShape, setGPSLatitude, setGPSLongitude
<1> HIDE DEF k
<1>7. /\ gps'.id = g.id /\ gps'.lens = g.lens /\ gps'.orientation = keys'.rotation
      /\ gps'.altitude = OrNone(q.altitude) /\ gps'.stamp = OrNone(q.stamp)
  BY <1>1, <1>2, <1>3, <1>5, <1>6 DEF GpsShape, setGPSTimeStamp, setGPSAltitude, OrNone
<1>8. GpsOwn'
  BY <1>2, <1>3, <1>7 DEF GpsOwn
<1>9. /\ info'.latitude \in Angles /\ info'.longitude \in Angles
      /\ g.id = "back" => info'.altitude = AltitudeInfo(OrNone(q.altitude))
  <2>1. /\ info'.latitude = IF g.id = "back" THEN Angle(q.latitude) ELSE info.latitude
        /\ info'.longitude = IF g.id = "back" THEN Angle(q.longitude) ELSE info.longitude
    BY <1>1 DEF Infos, OnBack, Angle
  <2>2. g.id = "back" => info'.altitude = AltitudeInfo(OrNone(q.altitude))
    <3>1. setGPSAltitude(g, q.altitude).altitude = OrNone(q.altitude)
      BY DEF setGPSAltitude, OrNone, GpsShape
    <3>2. QED
      BY <1>1, <3>1 DEF Infos, OnBack, AltitudeInfo
  <2>3. QED
    BY <2>1, <2>2, AnglesOfKeys DEF KeyShape, OwnInv, InfoOwn
<1>10. InfoOwn'
  BY <1>1, <1>7, <1>9 DEF OwnInv, InfoOwn
<1>11. HeaderHas'
  BY <1>1 DEF HeaderHas, NoHeader
<1>12. QED
  BY <1>4, <1>8, <1>10, <1>11

\* Every call keeps the invariant.
LEMMA OwnSteps == OwnInv /\ [NextExif]_exifVars => OwnInv'
<1> SUFFICES ASSUME OwnInv, [NextExif]_exifVars PROVE OwnInv'
  OBVIOUS
<1>1. ExifInv'
  BY ExifSteps DEF OwnInv
<1> SUFFICES KeyValues(keys)' /\ GpsOwn' /\ InfoOwn' /\ HeaderHas'
  BY <1>1 DEF OwnInv
<1>2. CASE setKeys
  <2>1. GpsShape(gps) /\ KeyShape(keys) /\ KeyValues(keys) /\ gps.orientation = keys.rotation
        /\ gps.id \in Openings /\ gps.lens = Lens(gps.id)
    BY DEF OwnInv, ExifInv, GpsOwn
  <2>2. CASE \E a \in Latitudes \cup {None}, o \in Longitudes \cup {None}, h \in Altitudes \cup {None} :
               Give(gps, info, [keys EXCEPT !.latitude = a, !.longitude = o, !.altitude = h])
    <3>1. PICK a \in Latitudes \cup {None}, o \in Longitudes \cup {None}, h \in Altitudes \cup {None} :
               Give(gps, info, [keys EXCEPT !.latitude = a, !.longitude = o, !.altitude = h])
      BY Zenon, <2>2
    <3> DEFINE q == [keys EXCEPT !.latitude = a, !.longitude = o, !.altitude = h]
    <3>2. KeyShape(q) /\ KeyValues(q)
      BY <2>1 DEF KeyShape, KeyValues, Given
    <3>3. Give(gps, info, q)
      BY <3>1
    <3> HIDE DEF q
    <3>4. QED
      BY <2>1, <3>2, <3>3, GiveOwn
  <2>3. CASE \E s \in Stamps \cup {None}, r \in Rotations :
               Give(gps, info, [keys EXCEPT !.stamp = s, !.rotation = r])
    <3>1. PICK s \in Stamps \cup {None}, r \in Rotations :
               Give(gps, info, [keys EXCEPT !.stamp = s, !.rotation = r])
      BY Zenon, <2>3
    <3> DEFINE q == [keys EXCEPT !.stamp = s, !.rotation = r]
    <3>2. KeyShape(q) /\ KeyValues(q)
      <4>1. r \in Int /\ r <= 360
        BY KeysInRange
      <4>2. QED
        BY <2>1, <4>1 DEF KeyShape, KeyValues
    <3>3. Give(gps, info, q)
      BY <3>1
    <3> HIDE DEF q
    <3>4. QED
      BY <2>1, <3>2, <3>3, GiveOwn
  <2>4. QED
    BY Zenon, <1>2, <2>2, <2>3 DEF setKeys
<1>3. CASE OpenCamera
  <2>1. PICK id \in Openings : Give(setExifFixedAttribute(gps, id), info, NoKeys)
    BY Zenon, <1>3 DEF OpenCamera
  <2>2. KeyShape(NoKeys) /\ KeyValues(NoKeys) /\ NoKeys.rotation >= 0
    BY DEF KeyShape, KeyValues, NoKeys, Given
  <2> DEFINE g == setExifFixedAttribute(gps, id)
  <2>3. GpsShape(g) /\ g.id = id /\ g.lens = Lens(id)
    BY DEF GpsShape, setExifFixedAttribute, OwnInv, ExifInv, Lens
  <2>4. Give(g, info, NoKeys)
    BY <2>1
  <2> HIDE DEF g
  <2>5. QED
    BY <2>2, <2>3, <2>4, GiveOwn
<1>4. CASE TakeBack
  <2>1. PICK n \in 0 .. 5 : tellLocation(n)
    BY <1>4 DEF TakeBack
  <2>2. gps.id = "back" /\ UNCHANGED << gps, info, keys >>
    BY <1>4 DEF TakeBack
  <2>3. /\ sensor' = [c \in DOMAIN sensor |-> IF \E i \in 1 .. n : Controls[i] = c THEN Told[c] ELSE sensor[c]]
        /\ DOMAIN sensor = {"latitude", "longitude", "altitude", "stamp", "orientation"}
    BY <2>1 DEF tellLocation, OwnInv, ExifInv
  <2>4. /\ Told["latitude"] = info.latitude /\ Told["longitude"] = info.longitude
        /\ Told["altitude"] = info.altitude /\ Told["stamp"] = gps.stamp
        /\ Told["orientation"] = Orientation(gps.orientation)
    BY DEF Told
  <2>5. Orientation(gps.orientation) \in {0, 90, 180, 270}
    BY DEF Orientation
  <2>6. InfoOwn'
    BY <2>2, <2>3, <2>4, <2>5 DEF OwnInv, InfoOwn
  <2>7. KeyValues(keys)' /\ GpsOwn'
    BY <2>2 DEF OwnInv, GpsOwn, KeyValues
  <2>8. CASE n = 5
    <3>1. header' = [id |-> "back", at |-> sensor']
      BY <2>1, <2>8 DEF tellLocation
    <3>2. Controls[3] = "altitude" /\ Controls[4] = "stamp" /\ Controls[5] = "orientation"
      BY DEF Controls
    <3>3. /\ sensor'["altitude"] = info.altitude /\ sensor'["stamp"] = gps.stamp
          /\ sensor'["orientation"] = Orientation(gps.orientation)
      BY <2>3, <2>4, <2>8, <3>2
    <3>4. HeaderHas'
      BY <2>2, <3>1, <3>3 DEF HeaderHas
    <3>5. QED
      BY <2>6, <2>7, <3>4
  <2>9. CASE n # 5
    <3>1. header'.id = "none"
      BY <2>1, <2>9 DEF tellLocation, NoHeader
    <3>2. QED
      BY <2>6, <2>7, <3>1 DEF HeaderHas
  <2>10. QED
    BY <2>8, <2>9
<1>5. CASE TakeFront
  <2>1. gps.id = "front" /\ UNCHANGED << gps, info, keys, sensor >>
    BY <1>5 DEF TakeFront
  <2>2. \/ header' = NoHeader
        \/ \E shutter \in Shutters : header' = setExifChangedAttribute(shutter)
    BY <1>5 DEF TakeFront, getExif
  <2>3. GpsTags' = GpsTags
    BY <2>1 DEF GpsTags
  <2>4. HeaderHas'
    BY <2>1, <2>2, <2>3 DEF HeaderHas, NoHeader, setExifChangedAttribute
  <2>5. KeyValues(keys)' /\ GpsOwn' /\ InfoOwn'
    BY <2>1 DEF OwnInv, GpsOwn, InfoOwn, KeyValues
  <2>6. QED
    BY <2>4, <2>5
<1>6. CASE UNCHANGED exifVars
  <2>1. KeyValues(keys)' /\ GpsOwn' /\ InfoOwn'
    BY <1>6 DEF exifVars, OwnInv, GpsOwn, InfoOwn, KeyValues
  <2>2. HeaderHas'
    BY <1>6 DEF exifVars, OwnInv, HeaderHas, GpsTags
  <2>3. QED
    BY <2>1, <2>2
<1>7. QED
  BY <1>2, <1>3, <1>4, <1>5, <1>6 DEF NextExif

LEMMA HundredParts == ASSUME NEW n \in Int PROVE n = 100 * (n \div 100) + (n % 100)
  BY SMT

\* An altitude is its sign, metres and centimetres.
LEMMA MetresName ==
  ASSUME NEW a \in Int
  PROVE  /\ a = IF AltitudeInfo(a).plus
                THEN 100 * AltitudeInfo(a).metres + AltitudeInfo(a).centimetres
                ELSE -(100 * AltitudeInfo(a).metres + AltitudeInfo(a).centimetres)
         /\ a = IF a >= 0 THEN Abs(a) ELSE -Abs(a)
<1>1. Abs(a) \in Int /\ a = IF a >= 0 THEN Abs(a) ELSE -Abs(a)
  BY SMT DEF Abs
<1>2. Abs(a) = 100 * (Abs(a) \div 100) + (Abs(a) % 100)
  BY <1>1, HundredParts
<1>3. /\ AltitudeInfo(a).plus = (a >= 0) /\ AltitudeInfo(a).metres = Abs(a) \div 100
      /\ AltitudeInfo(a).centimetres = Abs(a) % 100
  BY DEF AltitudeInfo
<1>4. QED
  BY <1>1, <1>2, <1>3

\* A time of day is its hours, minutes and seconds.
LEMMA TimeNames ==
  ASSUME NEW s \in Nat
  PROVE  3600 * ((s % 86400) \div 3600) + 60 * ((s % 3600) \div 60) + (s % 60) = s % 86400
<1> DEFINE q == s % 86400
           a == s \div 86400
           h == q \div 3600
           r == q % 3600
           m == r \div 60
           z == r % 60
<1>1. q \in Int /\ q >= 0 /\ q < 86400 /\ a \in Int /\ s = 86400 * a + q
  BY SMT
<1> HIDE DEF q, a
<1>2. h \in Int /\ r \in Int /\ r >= 0 /\ r < 3600 /\ q = 3600 * h + r
  BY SMT, <1>1
<1> HIDE DEF h, r
<1>3. m \in Int /\ z \in Int /\ z >= 0 /\ z < 60 /\ r = 60 * m + z
  BY SMT, <1>2
<1> HIDE DEF m, z
<1>4. s % 3600 = r
  <2> DEFINE k == s \div 3600
             w == s % 3600
  <2>1. k \in Int /\ w \in Int /\ w >= 0 /\ w < 3600 /\ s = 3600 * k + w
    BY SMT
  <2> HIDE DEF k, w
  <2>2. w = r
    BY SMT, <2>1, <1>1, <1>2
  <2>3. QED
    BY <2>2 DEF w
<1>5. s % 60 = z
  <2> DEFINE k == s \div 60
             w == s % 60
  <2>1. k \in Int /\ w \in Int /\ w >= 0 /\ w < 60 /\ s = 60 * k + w
    BY SMT
  <2> HIDE DEF k, w
  <2>2. w = z
    BY SMT, <2>1, <1>1, <1>2, <1>3
  <2>3. QED
    BY <2>2 DEF w
<1>6. (s % 86400) \div 3600 = h /\ (s % 3600) \div 60 = m
  BY <1>4 DEF q, h, m
<1>7. s % 86400 = q
  BY DEF q
<1>8. QED
  BY SMT, <1>2, <1>3, <1>5, <1>6, <1>7

\* Rotation, altitude, time and lens of a picture are those of its camera and of the keys,
\* and its fields have their ranges, for all altitudes, times and rotations, through
\* changes of cameras and failed pictures (setExifOrientationInfo(), setGPSAltitude(),
\* setGPSTimeStamp(), setExifFixedAttribute(), setExifChangedAttribute()).
THEOREM HeadersAreSound == SpecExif => []HeaderSound
<1>1. OwnInv => HeaderSound
  <2> SUFFICES ASSUME OwnInv PROVE HeaderSound
    OBVIOUS
  <2>1. keys.altitude # None => keys.altitude \in Int
    BY KeysInRange DEF OwnInv, KeyValues
  <2>2. keys.stamp # None => keys.stamp \in Nat
    BY KeysInRange DEF OwnInv, KeyValues
  <2>3. ExifTypeOK
    BY DEF ExifTypeOK, OwnInv, GpsOwn, InfoOwn, Lens
  <2>4. ASSUME header.id = "back" PROVE HeaderIsOwn
    <3>1. /\ header.at.orientation = Orientation(keys.rotation) /\ header.at.stamp = OrNone(keys.stamp)
          /\ header.at.altitude = AltitudeInfo(OrNone(keys.altitude))
      BY <2>4 DEF OwnInv, HeaderHas, GpsOwn, InfoOwn
    <3>2. QED
      BY <2>1, <2>4, <3>1, MetresName DEF HeaderIsOwn, OrNone
  <2>5. ASSUME header.id = "front" PROVE HeaderIsOwn
    <3>1. /\ header.orientation = Orientation(keys.rotation) /\ header.lens = 90
          /\ header.gps = GpsTags
      BY <2>5 DEF OwnInv, HeaderHas, GpsOwn, Lens
    <3>2. keys.altitude # None => keys.altitude = IF GpsTags.above THEN GpsTags.altitude ELSE -GpsTags.altitude
      <4>1. GpsTags.above = (gps.altitude >= 0) /\ GpsTags.altitude = Abs(gps.altitude)
        BY DEF GpsTags
      <4>2. QED
        BY <2>1, <4>1, MetresName DEF OwnInv, GpsOwn, OrNone
    <3>3. keys.stamp # None =>
            3600 * GpsTags.time[1] + 60 * GpsTags.time[2] + GpsTags.time[3] = keys.stamp % 86400
      BY <2>2, TimeNames DEF OwnInv, GpsOwn, GpsTags, OrNone
    <3>4. QED
      BY <2>5, <3>1, <3>2, <3>3 DEF HeaderIsOwn
  <2>6. QED
    BY <2>3, <2>4, <2>5 DEF HeaderSound, HeaderIsOwn
<1>2. QED
  BY <1>1, OwnStarts, OwnSteps, PTL DEF SpecExif

-----------------------------------------------------------------------------
(* Sizes and buffers.                                                      *)

Sizes == Nat \X Nat
V4l == {"RGB565", "RGB32", "NV12T", "YUV420", "YUYV", "UYVY", "YUV422P", "NV21"}

SizesStored ==
  [id : Cameras, preview : Sizes, format : {"YUV420"}, snapshot : Sizes, snapshotFormat : V4l,
   recording : Sizes, thumbnail : Sizes]
Parameters ==
  [preview : Sizes, format : {"yuv420sp", "yuv420p", "yuv422i"}, picture : Sizes,
   pictureFormat : PictureFormats \cup {"jpeg"}, thumbnail : Sizes]
PreviewStates ==
  [at : {"off", "deferred", "on", "stopping"}, then : {"none", "window", "picture", "deliver", "release"}]
\* The bytes of the narrow postview, the only one there is.
NarrowBytes == Area(<< 640, 480 >>) * 2
HeapSizes == [preview : Nat, raw : {0, NarrowBytes}, postview : {NarrowBytes}]

\* The fields, and what each may hold.
GeoTypes ==
  /\ sizes \in SizesStored
  /\ params \in Parameters
  /\ preview \in PreviewStates
  /\ frame \in [at : {"idle", "copy"}, size : Sizes]
  /\ heaps \in HeapSizes
  /\ window = NoWindow \/ (window.size \in Sizes /\ window.format # "none")
  /\ meddled \in BOOLEAN

\* The size of the preview is one that the camera has, so never the wide one.
PreviewSupported == isSupportedPreviewSize(sizes.id, sizes.preview)

\* A call that waits has told the thread to stop, or there was nothing to stop.
Waiting ==
  /\ preview.then # "none" => preview.at # "on"
  /\ preview.then = "window" /\ preview.at = "stopping" => meddled

\* The thread has a frame only while the device streams, into the heap that was made for
\* it, of the size that it still has unless the client has meddled with it.
FrameFollows ==
  /\ frame.at = "copy" => preview.at \in {"on", "stopping"}
  /\ preview.at \in {"on", "stopping"} /\ ~ meddled => heaps.preview = m_frameSize("YUV420", sizes.preview)
  /\ frame.at = "copy" /\ ~ meddled => frame.size = sizes.preview

\* The window follows the preview's size, but while it is being changed.
WindowFollows == window # NoWindow /\ preview.then # "window" => window.size = sizes.preview

\* The inductive invariant.
GeoInv ==
  /\ GeoTypes /\ ParametersAreDevice /\ PreviewSupported /\ Waiting /\ FrameFollows
  /\ WindowFollows /\ PictureFits /\ ThumbnailIsWritten

LEMMA AreaNat == ASSUME NEW s \in Sizes PROVE Area(s) \in Nat
<1>1. s[1] \in Nat /\ s[2] \in Nat
  BY DEF Sizes
<1>2. ASSUME NEW m \in Nat, NEW n \in Nat PROVE m * n \in Nat
  BY SMT
<1>3. QED
  BY <1>1, <1>2 DEF Area

\* The driver's size of a frame and the HAL's agree for the format of the preview.
LEMMA FrameSizes ==
  ASSUME NEW s \in Sizes
  PROVE  /\ m_frameSize("YUV420", s) \in Nat
         /\ sizeimage("YUV420", s) = m_frameSize("YUV420", s)
<1> DEFINE a == Area(s)
<1>1. a \in Nat
  BY AreaNat
<1>2. m_frameSize("YUV420", s) = (a * 3) \div 2 /\ sizeimage("YUV420", s) = (a * 12) \div 8
  BY DEF m_frameSize, sizeimage, get_pixel_depth
<1> HIDE DEF a
<1>3. (a * 3) \div 2 \in Nat /\ (a * 12) \div 8 = (a * 3) \div 2
  BY SMT, <1>1
<1>4. QED
  BY <1>2, <1>3

\* No size that a camera has is 1024 wide: the postview is the narrow one.
LEMMA PostviewIsNarrow ==
  ASSUME NEW id, NEW s, isSupportedPreviewSize(id, s) \/ s = Pixels
  PROVE  getPostViewConfig(s) = << 640, 480 >> /\ PostViewSize(s) = NarrowBytes
<1>1. s[1] # 1024
  BY DEF isSupportedPreviewSize, SupportedPreviews, Pixels
<1>2. getPostViewConfig(s) = << 640, 480 >>
  BY <1>1 DEF getPostViewConfig
<1>3. QED
  BY <1>2 DEF PostViewSize, NarrowBytes

LEMMA NarrowNat == NarrowBytes \in Nat
  BY SMT DEF NarrowBytes, Area

LEMMA DefaultsFit ==
  ASSUME NEW id \in Cameras
  PROVE  /\ Defaults(id) \in Parameters
         /\ isSupportedPreviewSize(id, Defaults(id).preview)
         /\ id \in {"back", "front"}
<1>1. id \in {"back", "front"}
  BY SizesArePairs
<1>2. Defaults(id) \in Parameters
  BY <1>1 DEF Parameters, Defaults, getPreviewMaxSize, getSnapshotMaxSize, DefaultThumbnail, Sizes
<1>3. isSupportedPreviewSize(id, Defaults(id).preview)
  BY <1>1 DEF Defaults, getPreviewMaxSize, isSupportedPreviewSize, SupportedPreviews
<1>4. QED
  BY <1>1, <1>2, <1>3

LEMMA FormatIsV4l == ASSUME NEW name PROVE V4lFormat(name) \in V4l
  BY DEF V4lFormat, V4l

LEMMA GeoStarts == InitGeometry => GeoInv
<1> SUFFICES ASSUME InitGeometry PROVE GeoInv
  OBVIOUS
<1>1. PICK id \in Cameras :
         sizes = [id |-> id, preview |-> getPreviewMaxSize(id), format |-> "YUV420",
                  snapshot |-> getSnapshotMaxSize(id), snapshotFormat |-> "YUYV",
                  recording |-> getPreviewMaxSize(id), thumbnail |-> DefaultThumbnail(id)]
  BY DEF InitGeometry
<1>2. /\ sizes.id = id /\ params = Defaults(id) /\ preview = [at |-> "off", then |-> "none"]
      /\ heaps = [preview |-> 0, raw |-> 0, postview |-> PostViewSize(Pixels)]
      /\ window = NoWindow /\ frame = [at |-> "idle", size |-> Pixels]
      /\ shot.id = "none" /\ meddled = FALSE
  BY <1>1 DEF InitGeometry, NoShot
<1>3. id \in {"back", "front"} /\ PreviewSupported
  BY <1>1, <1>2, DefaultsFit DEF PreviewSupported, Defaults
<1>4. GeoTypes
  <2>1. PostViewSize(Pixels) = NarrowBytes /\ Pixels \in Sizes
    BY PostviewIsNarrow DEF Pixels, Sizes
  <2>2. sizes \in SizesStored
    BY <1>1, <1>3 DEF SizesStored, getPreviewMaxSize, getSnapshotMaxSize, DefaultThumbnail, Sizes, V4l
  <2>3. params \in Parameters
    BY <1>2, DefaultsFit
  <2>4. /\ preview \in PreviewStates
        /\ frame \in [at : {"idle", "copy"}, size : Sizes]
        /\ heaps \in HeapSizes
    BY <1>2, <2>1 DEF PreviewStates, HeapSizes
  <2>5. QED
    BY <1>2, <2>2, <2>3, <2>4 DEF GeoTypes
<1>5. ParametersAreDevice
  BY <1>1, <1>2 DEF ParametersAreDevice, Defaults
<1>6. Waiting /\ FrameFollows /\ WindowFollows /\ PictureFits /\ ThumbnailIsWritten
  BY <1>2 DEF Waiting, FrameFollows, WindowFollows, PictureFits, ThumbnailIsWritten
<1>7. QED
  BY <1>3, <1>4, <1>5, <1>6 DEF GeoInv

\* setParameters() stores in SecCamera and in mParameters what it takes, and the same.
LEMMA StoredAgree ==
  ASSUME NEW d, d \in SizesStored,
         NEW p, NEW q,
         {p, q} \subseteq Parameters,
         p.picture = d.snapshot \/ Sized(q.picture),
         p.preview = d.preview \/ (isSupportedPreviewSize(d.id, q.preview) /\ p.preview = q.preview)
  PROVE  /\ Stored(d, q) \in SizesStored
         /\ Remembered(d, p, q) \in Parameters
         /\ Stored(d, q).id = d.id
         /\ Stored(d, q).preview = IF NewSize(d, q) THEN q.preview ELSE d.preview
         /\ Stored(d, q).format = "YUV420"
         /\ Remembered(d, p, q).preview = Stored(d, q).preview
         /\ Remembered(d, p, q).picture = Stored(d, q).snapshot
         /\ Remembered(d, p, q).thumbnail = Stored(d, q).thumbnail
<1> DEFINE e == IF NewSize(d, q) THEN setPreviewSize(d, q.preview) ELSE d
<1>1. /\ e \in SizesStored
      /\ e.id = d.id /\ e.snapshot = d.snapshot
      /\ e.preview = IF NewSize(d, q) THEN q.preview ELSE d.preview
  BY DEF setPreviewSize, SizesStored, Parameters
<1>2. Stored(d, q) = StoreSizes(e, q)
  BY DEF Stored
<1> HIDE DEF e
<1>3. V4lFormat(q.pictureFormat) \in V4l
  BY FormatIsV4l
<1>4. /\ Stored(d, q) \in SizesStored
      /\ Stored(d, q).id = e.id /\ Stored(d, q).preview = e.preview /\ Stored(d, q).format = "YUV420"
      /\ Stored(d, q).snapshot = (IF Sized(q.picture) THEN q.picture ELSE d.snapshot)
      /\ Stored(d, q).thumbnail = q.thumbnail
  BY <1>1, <1>2, <1>3 DEF StoreSizes, SizesStored, Parameters
<1>5. /\ Remembered(d, p, q) \in Parameters
      /\ Remembered(d, p, q).preview = IF NewSize(d, q) THEN q.preview ELSE p.preview
      /\ Remembered(d, p, q).picture = (IF Sized(q.picture) THEN q.picture ELSE p.picture)
      /\ Remembered(d, p, q).thumbnail = q.thumbnail
  BY DEF Remembered, Parameters
<1>6. ~ NewSize(d, q) => p.preview = d.preview
  BY DEF NewSize
<1>7. QED
  BY <1>1, <1>4, <1>5, <1>6

\* An asked-for change is of the right types, and leaves the preview's size or changes it.
LEMMA ChangesFit ==
  ASSUME GeoTypes, NEW q \in Changes
  PROVE  q \in Parameters
<1>1. PreviewSizes \subseteq Sizes /\ PictureSizes \subseteq Sizes /\ ThumbnailSizes \subseteq Sizes
  BY SizesArePairs DEF Sizes
<1>2. params \in Parameters
  BY DEF GeoTypes
<1> DEFINE P == PreviewSizes \X {"yuv420sp", "yuv420p", "yuv422i"}
           Q == PictureSizes \X PictureFormats \X ThumbnailSizes
<1>3. \/ \E c \in P : q = [params EXCEPT !.preview = c[1], !.format = c[2]]
      \/ \E c \in Q : q = [params EXCEPT !.picture = c[1], !.pictureFormat = c[2], !.thumbnail = c[3]]
  BY Zenon DEF Changes
<1>4. ASSUME NEW c \in P PROVE [params EXCEPT !.preview = c[1], !.format = c[2]] \in Parameters
  <2>1. c[1] \in Sizes /\ c[2] \in {"yuv420sp", "yuv420p", "yuv422i"}
    BY <1>1
  <2>2. QED
    BY <1>2, <2>1 DEF Parameters
<1>5. ASSUME NEW c \in Q
      PROVE  [params EXCEPT !.picture = c[1], !.pictureFormat = c[2], !.thumbnail = c[3]] \in Parameters
  <2>1. c[1] \in Sizes /\ c[2] \in PictureFormats /\ c[3] \in Sizes
    BY <1>1
  <2>2. QED
    BY <1>2, <2>1 DEF Parameters
<1> HIDE DEF P, Q
<1>6. QED
  BY <1>3, <1>4, <1>5, Zenon

LEMMA SetSizesInv == ASSUME GeoInv, SetSizes PROVE GeoInv'
<1>1. PICK q \in Changes :
       IF q.format = "yuv422i"
       THEN told' = [format |-> q.format, ret |-> "BAD_VALUE"] /\ UNCHANGED << sizes, params, window, meddled >>
       ELSE /\ told' = [format |-> q.format, ret |-> Reply(sizes, q)]
            /\ sizes' = Stored(sizes, q) /\ params' = Remembered(sizes, params, q)
            /\ window' = IF NewSize(sizes, q) /\ window # NoWindow
                         THEN [size |-> q.preview, format |-> "V4L2"] ELSE window
            /\ meddled' = (meddled \/ (NewSize(sizes, q) /\ preview.at = "on"))
  BY Zenon DEF SetSizes
<1>2. UNCHANGED << preview, heaps, frame, shot >> /\ preview.at # "stopping" /\ preview.then = "none"
  BY DEF SetSizes, Calls
<1>3. CASE q.format = "yuv422i"
  <2>1. UNCHANGED << sizes, params, window, meddled >>
    BY <1>1, <1>3
  <2>2. QED
    BY <1>2, <2>1 DEF GeoInv, GeoTypes, ParametersAreDevice, PreviewSupported, Waiting, FrameFollows,
         WindowFollows, PictureFits, ThumbnailIsWritten
<1>4. CASE q.format # "yuv422i"
  <2>1. q \in Parameters
    BY ChangesFit DEF GeoInv
  <2>2. params.preview = sizes.preview /\ params.picture = sizes.snapshot
    BY DEF GeoInv, ParametersAreDevice
  <2>3. /\ sizes' \in SizesStored
        /\ params' \in Parameters
        /\ sizes'.id = sizes.id /\ sizes'.format = "YUV420"
        /\ sizes'.preview = IF NewSize(sizes, q) THEN q.preview ELSE sizes.preview
        /\ params'.preview = sizes'.preview /\ params'.picture = sizes'.snapshot
        /\ params'.thumbnail = sizes'.thumbnail
    BY <1>1, <1>4, <2>1, <2>2, StoredAgree DEF GeoInv, GeoTypes
  <2>4. /\ window' = IF NewSize(sizes, q) /\ window # NoWindow
                     THEN [size |-> q.preview, format |-> "V4L2"] ELSE window
        /\ meddled' = (meddled \/ (NewSize(sizes, q) /\ preview.at = "on"))
    BY <1>1, <1>4
  <2>5. q.preview \in Sizes
    BY <2>1 DEF Parameters
  <2>6. GeoTypes'
    BY <1>2, <2>3, <2>4, <2>5 DEF GeoInv, GeoTypes, NoWindow
  <2>7. ParametersAreDevice' /\ PreviewSupported'
    BY <2>3 DEF GeoInv, ParametersAreDevice, PreviewSupported, NewSize
  <2>8. Waiting' /\ FrameFollows' /\ WindowFollows'
    BY <1>2, <2>3, <2>4 DEF GeoInv, Waiting, FrameFollows, WindowFollows, NoWindow
  <2>9. PictureFits' /\ ThumbnailIsWritten'
    BY <1>2 DEF GeoInv, PictureFits, ThumbnailIsWritten
  <2>10. QED
    BY <2>6, <2>7, <2>8, <2>9 DEF GeoInv
<1>5. QED
  BY <1>3, <1>4

\* startPreviewInternal() makes the heap for the size that it streams with.
LEMMA StartInternalInv ==
  ASSUME GeoInv, StartInternal, preview.at \in {"off", "deferred"},
         UNCHANGED << sizes, params, frame, shot >>,
         window' # NoWindow /\ window'.size = sizes.preview /\ window'.format # "none"
  PROVE  GeoInv'
<1>1. /\ heaps' = [heaps EXCEPT !.preview = m_frameSize(sizes.format, sizes.preview),
                                !.postview = PostViewSize(sizes.preview)]
      /\ preview' = [at |-> "on", then |-> "none"] /\ meddled' = FALSE
  BY DEF StartInternal
<1>2. sizes.preview \in Sizes /\ sizes.format = "YUV420" /\ PostViewSize(sizes.preview) = NarrowBytes
  BY PostviewIsNarrow DEF GeoInv, GeoTypes, SizesStored, PreviewSupported
<1>3. m_frameSize("YUV420", sizes.preview) \in Nat
  BY <1>2, FrameSizes
<1>4. heaps' \in HeapSizes
      /\ heaps'.preview = m_frameSize("YUV420", sizes.preview)
  BY <1>1, <1>2, <1>3 DEF GeoInv, GeoTypes, HeapSizes
<1>5. GeoTypes'
  BY <1>1, <1>2, <1>4 DEF GeoInv, GeoTypes, PreviewStates
<1>6. ParametersAreDevice' /\ PreviewSupported' /\ PictureFits' /\ ThumbnailIsWritten'
  BY DEF GeoInv, ParametersAreDevice, PreviewSupported, PictureFits, ThumbnailIsWritten
<1>7. Waiting' /\ FrameFollows' /\ WindowFollows'
  BY <1>1, <1>4 DEF GeoInv, Waiting, FrameFollows, WindowFollows
<1>8. QED
  BY <1>5, <1>6, <1>7 DEF GeoInv

LEMMA StartFramesInv == ASSUME GeoInv, StartFrames PROVE GeoInv'
<1>1. UNCHANGED << sizes, params, window, frame, shot >> /\ preview.at = "off" /\ preview.then = "none"
  BY DEF StartFrames, Calls
<1>2. CASE window = NoWindow
  <2>1. preview' = [preview EXCEPT !.at = "deferred"] /\ UNCHANGED << heaps, meddled >>
    BY <1>2 DEF StartFrames
  <2>2. QED
    BY <1>1, <2>1 DEF GeoInv, GeoTypes, PreviewStates, ParametersAreDevice, PreviewSupported, Waiting,
         FrameFollows, WindowFollows, PictureFits, ThumbnailIsWritten
<1>3. CASE window # NoWindow
  BY <1>1, <1>3, StartInternalInv DEF StartFrames, GeoInv, GeoTypes, WindowFollows
<1>4. QED
  BY <1>2, <1>3

\* Asking the thread to stop changes nothing that it uses.
LEMMA StopInv ==
  ASSUME GeoInv, preview.then = "none", NEW w \in {"none", "window", "picture", "release"}, Stop(w),
         UNCHANGED << sizes, params, heaps, frame, shot >>,
         window' = window \/ (w = "window" /\ window'.size \in Sizes /\ window'.format # "none"),
         meddled' = meddled \/ (w = "window" /\ meddled' = TRUE),
         w = "window" /\ preview.at \in {"on", "stopping"} => meddled'
  PROVE  GeoInv'
<1>1. preview' = [at |-> CASE preview.at = "on" -> "stopping" [] preview.at = "deferred" -> "off"
                           [] OTHER -> preview.at,
                  then |-> w]
  BY DEF Stop
<1>2. preview.at \in {"off", "deferred", "on", "stopping"}
  BY DEF GeoInv, GeoTypes, PreviewStates
<1>3. /\ preview'.then = w /\ preview'.at \in {"off", "stopping"}
      /\ preview'.at = "stopping" <=> preview.at \in {"on", "stopping"}
      /\ preview' \in PreviewStates
  BY <1>1, <1>2 DEF PreviewStates
<1>4. GeoTypes'
  BY <1>3 DEF GeoInv, GeoTypes
<1>5. ParametersAreDevice' /\ PreviewSupported' /\ PictureFits' /\ ThumbnailIsWritten'
  BY DEF GeoInv, ParametersAreDevice, PreviewSupported, PictureFits, ThumbnailIsWritten
<1>6. Waiting' /\ FrameFollows'
  BY <1>3 DEF GeoInv, Waiting, FrameFollows
<1>7. WindowFollows'
  BY <1>3 DEF GeoInv, WindowFollows
<1>8. QED
  BY <1>4, <1>5, <1>6, <1>7 DEF GeoInv

LEMMA TypesKept ==
  ASSUME GeoInv, UNCHANGED << sizes, params, shot >>
  PROVE  ParametersAreDevice' /\ PreviewSupported' /\ PictureFits' /\ ThumbnailIsWritten'
BY DEF GeoInv, ParametersAreDevice, PreviewSupported, PictureFits, ThumbnailIsWritten

\* stopPreview(), takePicture() and release().
LEMMA StoppingInv == ASSUME GeoInv, StopFrames \/ TakePicture \/ ReleaseAll PROVE GeoInv'
<1>1. /\ preview.then = "none" /\ UNCHANGED << sizes, params, heaps, window, frame, shot, meddled >>
      /\ Stop("none") \/ Stop("picture") \/ Stop("release")
  BY DEF StopFrames, TakePicture, ReleaseAll, Calls
<1>2. QED
  BY <1>1, StopInv

LEMMA SetWindowInv == ASSUME GeoInv, SetWindow PROVE GeoInv'
<1>1. /\ UNCHANGED << sizes, params, heaps, frame, shot >>
      /\ preview.at # "stopping" /\ preview.then = "none"
  BY DEF SetWindow, Calls
<1>2. CASE window' = NoWindow /\ UNCHANGED << preview, meddled >>
  <2>1. GeoTypes' /\ Waiting' /\ FrameFollows' /\ WindowFollows'
    BY <1>1, <1>2 DEF GeoInv, GeoTypes, Waiting, FrameFollows, WindowFollows
  <2>2. QED
    BY <1>1, <2>1, TypesKept DEF GeoInv
<1>3. CASE /\ window' = [size |-> << 1, 1 >>, format |-> "default"]
           /\ meddled' = (meddled \/ preview.at = "on")
           /\ IF preview.at = "on" THEN Stop("window") ELSE preview' = [preview EXCEPT !.then = "window"]
  <2>1. window'.size \in Sizes /\ window'.format # "none"
    BY <1>3 DEF Sizes
  <2>2. CASE preview.at = "on"
    <3>1. Stop("window") /\ meddled' = TRUE
      BY <1>3, <2>2
    <3>2. QED
      BY <1>1, <2>1, <3>1, StopInv
  <2>3. CASE preview.at # "on"
    <3>1. preview' = [preview EXCEPT !.then = "window"] /\ meddled' = meddled
      BY <1>3, <2>3 DEF GeoInv, GeoTypes
    <3>2. GeoTypes'
      BY <1>1, <2>1, <3>1 DEF GeoInv, GeoTypes, PreviewStates
    <3>3. Waiting' /\ FrameFollows' /\ WindowFollows'
      BY <1>1, <2>3, <3>1 DEF GeoInv, GeoTypes, PreviewStates, Waiting, FrameFollows, WindowFollows
    <3>4. QED
      BY <1>1, <3>2, <3>3, TypesKept DEF GeoInv
  <2>4. QED
    BY <2>2, <2>3
<1>4. QED
  BY <1>2, <1>3 DEF SetWindow

LEMMA GiveGeometryInv == ASSUME GeoInv, GiveGeometry PROVE GeoInv'
<1>1. /\ preview.at \in {"off", "deferred"} /\ UNCHANGED << sizes, params, frame, shot >>
      /\ window' = [size |-> params.preview, format |-> "YV12"] /\ preview.then = "window"
  BY DEF GiveGeometry, StoppedFor, GeoInv, GeoTypes, PreviewStates, Waiting
<1>2. params.preview = sizes.preview /\ sizes.preview \in Sizes
  BY DEF GeoInv, ParametersAreDevice, GeoTypes, SizesStored
<1>3. window' # NoWindow /\ window'.size = sizes.preview /\ window'.format = "YV12"
  BY <1>1, <1>2 DEF NoWindow
<1>4. CASE preview.at = "deferred"
  BY <1>1, <1>3, <1>4, StartInternalInv DEF GiveGeometry
<1>5. CASE preview.at # "deferred"
  <2>1. preview' = [preview EXCEPT !.then = "none"] /\ UNCHANGED << heaps, meddled >>
    BY <1>5 DEF GiveGeometry
  <2>2. GeoTypes'
    BY <1>1, <1>2, <1>3, <2>1 DEF GeoInv, GeoTypes, PreviewStates
  <2>3. Waiting' /\ FrameFollows' /\ WindowFollows'
    BY <1>1, <1>3, <2>1 DEF GeoInv, GeoTypes, PreviewStates, Waiting, FrameFollows, WindowFollows
  <2>4. QED
    BY <1>1, <2>2, <2>3, TypesKept DEF GeoInv
<1>6. QED
  BY <1>4, <1>5

\* What the driver captures of a YUYV picture is what the HAL copies.
LEMMA CapturedIsCopied ==
  ASSUME NEW s \in Sizes
  PROVE  sizeimage("YUYV", s) = Area(s) * 2 /\ m_frameSize("YUYV", s) = Area(s) * 2
<1> DEFINE a == Area(s)
<1>1. a \in Nat
  BY AreaNat
<1>2. sizeimage("YUYV", s) = (a * 16) \div 8 /\ m_frameSize("YUYV", s) = a * 2
  BY DEF sizeimage, m_frameSize, get_pixel_depth
<1> HIDE DEF a
<1>3. (a * 16) \div 8 = a * 2
  BY SMT, <1>1
<1>4. QED
  BY <1>2, <1>3 DEF a

\* Both thumbnails are scaled down from inside the narrow postview.
LEMMA ScaledInside ==
  ASSUME NEW id \in {"back", "front"}
  PROVE  scaleDownYuv422(<< 640, 480 >>, getThumbnailConfig(id)) < NarrowBytes
<1>1. CASE id = "back"
  BY SMT, <1>1 DEF scaleDownYuv422, getThumbnailConfig, NarrowBytes, Area
<1>2. CASE id = "front"
  BY SMT, <1>2 DEF scaleDownYuv422, getThumbnailConfig, NarrowBytes, Area
<1>3. QED
  BY <1>1, <1>2

LEMMA PictureInv == ASSUME GeoInv, Picture PROVE GeoInv'
<1>1. /\ preview.at # "stopping" /\ preview.then = "picture" /\ heaps' = [heaps EXCEPT !.raw = rawHeap]
      /\ preview' = [preview EXCEPT !.then = "deliver"]
      /\ UNCHANGED << sizes, params, window, frame, meddled >>
  BY DEF Picture, StoppedFor
<1>2. /\ shot'.id = sizes.id /\ shot'.size = sizes.snapshot /\ shot'.format = sizes.snapshotFormat
      /\ shot'.jpeg = m_frameSize(sizes.snapshotFormat, sizes.snapshot)
      /\ shot'.captured = sizeimage(sizes.snapshotFormat, sizes.snapshot)
      /\ shot'.copied = Area(sizes.snapshot) * 2 /\ shot'.postview = getPostViewConfig(sizes.preview)
      /\ shot'.raw = rawHeap /\ shot'.thumbnail = getThumbnailConfig(sizes.id)
      /\ shot'.written = sizes.thumbnail
  BY DEF Picture
<1>3. /\ sizes.snapshot \in Sizes /\ sizes.id \in {"back", "front"}
      /\ getPostViewConfig(sizes.preview) = << 640, 480 >>
  <2>1. sizes.snapshot \in Sizes /\ sizes.id \in {"back", "front"}
    BY SizesArePairs DEF GeoInv, GeoTypes, SizesStored
  <2>2. isSupportedPreviewSize(sizes.id, sizes.preview)
    BY DEF GeoInv, PreviewSupported
  <2>3. QED
    BY <2>1, <2>2, PostviewIsNarrow
<1>4. rawHeap = NarrowBytes /\ NarrowBytes \in Nat
  BY NarrowNat DEF rawHeap, GeoInv, GeoTypes, HeapSizes
<1>5. GeoTypes'
  BY <1>1, <1>4 DEF GeoInv, GeoTypes, PreviewStates, HeapSizes
<1>6. Waiting' /\ FrameFollows' /\ WindowFollows'
  BY <1>1 DEF GeoInv, GeoTypes, PreviewStates, Waiting, FrameFollows, WindowFollows, HeapSizes
<1>7. ParametersAreDevice' /\ PreviewSupported'
  BY <1>1 DEF GeoInv, ParametersAreDevice, PreviewSupported
<1>8. PictureFits'
  <2>1. Area(shot'.postview) * 2 = NarrowBytes
    BY <1>2, <1>3 DEF NarrowBytes
  <2>2. scaleDownYuv422(shot'.postview, shot'.thumbnail) < NarrowBytes
    BY <1>2, <1>3, ScaledInside
  <2>3. ASSUME shot'.size \in SupportedPictures(shot'.id), shot'.format = "YUYV", shot'.id = "front"
        PROVE  shot'.copied <= shot'.captured /\ shot'.copied <= NarrowBytes /\ shot'.copied <= shot'.jpeg
    <3>1. sizes.snapshot = << 640, 480 >> /\ shot'.copied = NarrowBytes
      BY <1>2, <2>3 DEF SupportedPictures, NarrowBytes
    <3>2. shot'.captured = NarrowBytes /\ shot'.jpeg = NarrowBytes
      BY <1>2, <1>3, <2>3, <3>1, CapturedIsCopied
    <3>3. QED
      BY <1>4, <3>1, <3>2
  <2>4. Area(shot'.postview) * 2 <= shot'.raw
    BY <1>2, <1>4, <2>1
  <2>5. QED
    BY <2>1, <2>2, <2>3, <2>4 DEF PictureFits
<1>9. ThumbnailIsWritten'
  BY <1>2 DEF ThumbnailIsWritten, SupportedThumbnails, DefaultThumbnail, getThumbnailConfig
<1>10. QED
  BY <1>5, <1>6, <1>7, <1>8, <1>9 DEF GeoInv

LEMMA DeliverInv == ASSUME GeoInv, Deliver PROVE GeoInv'
<1>1. /\ preview.at # "stopping" /\ preview.then = "deliver" /\ preview' = [preview EXCEPT !.then = "none"]
      /\ shot'.id = "none" /\ UNCHANGED << sizes, params, heaps, window, frame, meddled >>
  BY DEF Deliver, StoppedFor, NoShot
<1>2. GeoTypes' /\ Waiting' /\ FrameFollows' /\ WindowFollows'
  BY <1>1 DEF GeoInv, GeoTypes, PreviewStates, Waiting, FrameFollows, WindowFollows
<1>3. ParametersAreDevice' /\ PreviewSupported' /\ PictureFits' /\ ThumbnailIsWritten'
  BY <1>1 DEF GeoInv, ParametersAreDevice, PreviewSupported, PictureFits, ThumbnailIsWritten
<1>4. QED
  BY <1>2, <1>3 DEF GeoInv

\* The next open() asks for the defaults of its camera, whichever was open before.
LEMMA OpenAgainInv == ASSUME GeoInv, OpenAgain PROVE GeoInv'
<1>1. PICK id \in Cameras : Opened(sizes, id)
  BY DEF OpenAgain
<1>2. /\ preview' = [at |-> "off", then |-> "none"] /\ window' = NoWindow /\ meddled' = FALSE
      /\ UNCHANGED << frame, shot >> /\ frame.at = "idle"
  BY DEF OpenAgain, StoppedFor, GeoInv, GeoTypes, PreviewStates, Waiting, FrameFollows
<1> DEFINE q == Defaults(id)
           e == [sizes EXCEPT !.id = id]
<1>3. /\ sizes' = Stored(e, q) /\ params' = Remembered(e, q, q)
      /\ heaps' = [preview |-> 0, raw |-> 0, postview |-> PostViewSize(sizes.preview)]
  BY <1>1 DEF Opened
<1>4. e \in SizesStored /\ e.id = id
  BY DEF GeoInv, GeoTypes, SizesStored
<1>5. q \in Parameters /\ isSupportedPreviewSize(id, q.preview) /\ Sized(q.picture)
  <2>1. Sized(q.picture)
    BY DEF Defaults, getSnapshotMaxSize, Sized
  <2>2. QED
    BY <2>1, DefaultsFit
<1> HIDE DEF q, e
<1>6. /\ sizes' \in SizesStored /\ params' \in Parameters /\ sizes'.id = id
      /\ sizes'.preview = IF NewSize(e, q) THEN q.preview ELSE e.preview
      /\ sizes'.format = "YUV420" /\ params'.preview = sizes'.preview
      /\ params'.picture = sizes'.snapshot /\ params'.thumbnail = sizes'.thumbnail
  BY <1>3, <1>4, <1>5, StoredAgree
<1>7. sizes'.preview = q.preview
  BY <1>4, <1>5, <1>6 DEF NewSize
<1>8. heaps' \in HeapSizes
  BY <1>3, PostviewIsNarrow DEF GeoInv, PreviewSupported, HeapSizes
<1>9. GeoTypes'
  BY <1>2, <1>6, <1>8 DEF GeoInv, GeoTypes, PreviewStates
<1>10. ParametersAreDevice' /\ PreviewSupported'
  BY <1>5, <1>6, <1>7 DEF ParametersAreDevice, PreviewSupported
<1>11. Waiting' /\ FrameFollows' /\ WindowFollows'
  BY <1>2 DEF Waiting, FrameFollows, WindowFollows
<1>12. PictureFits' /\ ThumbnailIsWritten'
  BY <1>2 DEF GeoInv, PictureFits, ThumbnailIsWritten
<1>13. QED
  BY <1>9, <1>10, <1>11, <1>12 DEF GeoInv

\* The preview thread.
LEMMA ThreadInv == ASSUME GeoInv, TakeFrame \/ DropFrame \/ Park PROVE GeoInv'
<1>1. UNCHANGED << sizes, params, heaps, window, shot, meddled >>
  BY DEF TakeFrame, DropFrame, Park
<1>2. GeoTypes'
  BY <1>1 DEF GeoInv, GeoTypes, PreviewStates, SizesStored, TakeFrame, DropFrame, Park
<1>3. Waiting' /\ FrameFollows' /\ WindowFollows'
  BY <1>1 DEF GeoInv, GeoTypes, PreviewStates, Waiting, FrameFollows, WindowFollows,
     TakeFrame, DropFrame, Park
<1>4. QED
  BY <1>1, <1>2, <1>3, TypesKept DEF GeoInv

LEMMA GeoSteps == ASSUME GeoInv, [NextGeometry]_geoVars PROVE GeoInv'
<1>1. CASE UNCHANGED geoVars
  BY <1>1 DEF geoVars, GeoInv, GeoTypes, ParametersAreDevice, PreviewSupported, Waiting, FrameFollows,
     WindowFollows, PictureFits, ThumbnailIsWritten
<1>2. QED
  BY <1>1, SetSizesInv, StartFramesInv, StoppingInv, SetWindowInv, GiveGeometryInv, PictureInv,
     DeliverInv, OpenAgainInv, ThreadInv DEF NextGeometry

LEMMA GeoFits == ASSUME GeoInv PROVE BuffersFit
<1>1. GeometryTypeOK
  BY NarrowNat DEF GeoInv, GeoTypes, SizesStored, PreviewStates, HeapSizes, FrameFollows, GeometryTypeOK
<1>2. FrameFits
  <2> SUFFICES ASSUME frame.at = "copy", ~ meddled
               PROVE  /\ m_frameSize("YUV420", frame.size) <= heaps.preview
                      /\ sizeimage("YUV420", frame.size) = m_frameSize("YUV420", frame.size)
                      /\ window # NoWindow => window.size = frame.size
    BY DEF FrameFits
  <2>1. frame.size = sizes.preview /\ heaps.preview = m_frameSize("YUV420", sizes.preview)
    BY DEF GeoInv, FrameFollows
  <2>2. sizes.preview \in Sizes
    BY DEF GeoInv, GeoTypes, SizesStored
  <2>3. preview.then # "window"
    BY DEF GeoInv, GeoTypes, PreviewStates, Waiting, FrameFollows
  <2>4. QED
    BY <2>1, <2>2, <2>3, FrameSizes DEF GeoInv, WindowFollows
<1>3. QED
  BY <1>1, <1>2 DEF GeoInv, BuffersFit

\* Whatever the sizes that the client asks for, and in whatever order it sets them, changes
\* the window, starts, stops, takes pictures and opens the other camera: mParameters stays
\* what the camera works with, a frame fits its heap and its window unless the client has
\* meddled, and a picture fits its buffers.  setParameters(), setPreviewWindow(),
\* startPreviewInternal(), takePicture() and pictureThread().
THEOREM BuffersAreFit == SpecGeometry => []BuffersFit
<1>1. InitGeometry => GeoInv
  BY GeoStarts
<1>2. GeoInv /\ [NextGeometry]_geoVars => GeoInv'
  BY GeoSteps
<1>3. GeoInv => BuffersFit
  BY GeoFits
<1>4. QED
  BY <1>1, <1>2, <1>3, PTL DEF SpecGeometry

-----------------------------------------------------------------------------
(* The frames of a recording are safe.                                     *)

\* The types, and a frame in the preview thread exactly when it has got one.
RecordingTypes ==
  /\ rec \in [running : BOOLEAN, flag : BOOLEAN, stream : BOOLEAN]
  /\ enabled \in BOOLEAN /\ upset \in BOOLEAN /\ asked \in {"none", "start", "stop"}
  /\ queued \subseteq Frames /\ held \subseteq Frames /\ stale \subseteq Frames
  /\ strayed \subseteq {"late", "lost", "unstarted", "streamoff", "tail"}
  /\ pump \in [pc : {"off", "wait", "got"}, frame : Frames \cup {NoFrame}]
  /\ pump.pc = "got" <=> pump.frame # NoFrame

\* Each buffer is in one place, until one of an earlier recording is given back.
OnePlace ==
  "late" \notin strayed => held \cap queued = {} /\ pump.frame \notin queued \cup held

\* The inductive invariant.
RecordingInv == RecordingTypes /\ OnePlace /\ RecordingAgrees /\ QbufExpected /\ FramesKept

USE FramesAreFrames

\* Nothing is recorded at the start.
LEMMA RecordingStarts == InitRecording => RecordingInv
<1> SUFFICES ASSUME InitRecording PROVE RecordingInv
  OBVIOUS
<1>1. /\ pump.pc = "off" /\ pump.frame = NoFrame
      /\ pump \in [pc : {"off", "wait", "got"}, frame : Frames \cup {NoFrame}]
  BY DEF InitRecording, Off
<1>2. RecordingTypes
  BY <1>1 DEF InitRecording, Stopped, RecordingTypes
<1>3. OnePlace /\ RecordingAgrees /\ QbufExpected /\ FramesKept
  BY <1>1 DEF InitRecording, Stopped, OnePlace, RecordingAgrees, QbufExpected, FramesKept
<1>4. QED
  BY <1>2, <1>3 DEF RecordingInv

\* The client asks; no frame moves.
LEMMA AskInv == ASSUME RecordingInv, AskRecording PROVE RecordingInv'
BY DEF AskRecording, RecordingInv, RecordingTypes, OnePlace, RecordingAgrees, QbufExpected, FramesKept

\* startRecord() may queue buffers, and what the encoder has is stale from there on; the
\* thread has none, for mRecordLock is free.
LEMMA StartRecordingInv == ASSUME RecordingInv, startRecording PROVE RecordingInv'
<1>1. /\ pump.pc = "off" /\ pump.frame = NoFrame /\ asked' = "none"
      /\ UNCHANGED << pump, enabled, upset >>
  BY DEF startRecording, LockFree, RecordingInv, RecordingTypes
<1>2. CASE UNCHANGED << rec, queued, held, stale, strayed >>
  BY <1>1, <1>2 DEF RecordingInv, RecordingTypes, OnePlace, RecordingAgrees, QbufExpected, FramesKept
<1>3. ASSUME NEW q \in SUBSET Frames, NEW state, Requeued(q, state),
             \/ /\ state = [running |-> TRUE, flag |-> TRUE, stream |-> TRUE]
                /\ q = Frames /\ strayed' = strayed \ {"lost"}
             \/ state = Stopped /\ UNCHANGED strayed
             \/ state = [Stopped EXCEPT !.stream = TRUE] /\ Stray("unstarted")
      PROVE  RecordingInv'
  <2>1. rec' = state /\ queued' = q /\ stale' = stale \cup held /\ held' = {}
    BY <1>3 DEF Requeued
  <2>2. RecordingTypes'
    <3>1. state \in [running : BOOLEAN, flag : BOOLEAN, stream : BOOLEAN]
      <4>1. /\ [running |-> TRUE, flag |-> TRUE, stream |-> TRUE]
                 \in [running : BOOLEAN, flag : BOOLEAN, stream : BOOLEAN]
            /\ Stopped \in [running : BOOLEAN, flag : BOOLEAN, stream : BOOLEAN]
        BY DEF Stopped
      <4>2. [Stopped EXCEPT !.stream = TRUE] \in [running : BOOLEAN, flag : BOOLEAN, stream : BOOLEAN]
        BY <4>1
      <4>3. QED
        BY <1>3, <4>1, <4>2, Zenon
    <3>2. strayed' \subseteq strayed \cup {"unstarted"}
      BY <1>3 DEF Stray
    <3>3. QED
      BY <1>1, <2>1, <3>1, <3>2 DEF RecordingInv, RecordingTypes
  <2>3. RecordingAgrees'
    BY <1>3, <2>1 DEF RecordingAgrees, Stopped, Stray
  <2>4. OnePlace' /\ QbufExpected'
    BY <1>1, <1>3, <2>1 DEF RecordingInv, RecordingTypes, OnePlace, QbufExpected, Stray
  <2>5. FramesKept'
    BY <1>3, <2>1 DEF FramesKept, Stopped
  <2>6. QED
    BY <2>2, <2>3, <2>4, <2>5 DEF RecordingInv
<1>4. QED
  BY <1>2, <1>3 DEF startRecording

\* stopRecord() clears its flag whether the stream stops or not, or does nothing.
LEMMA StopRecordingInv == ASSUME RecordingInv, stopRecording PROVE RecordingInv'
<1>1. asked' = "none" /\ UNCHANGED << pump, held, stale, enabled, upset >>
  BY DEF stopRecording
<1>2. CASE rec.flag /\ rec' = Stopped /\ queued' = {} /\ UNCHANGED strayed
  BY <1>1, <1>2 DEF Stopped, RecordingInv, RecordingTypes, OnePlace, RecordingAgrees, QbufExpected, FramesKept
<1>3. CASE UNCHANGED << rec, queued, strayed >>
  BY <1>1, <1>3 DEF RecordingInv, RecordingTypes, OnePlace, RecordingAgrees, QbufExpected, FramesKept
<1>4. CASE /\ rec.flag /\ Stray("streamoff")
           /\ rec' = [rec EXCEPT !.flag = FALSE] /\ UNCHANGED queued
  BY <1>1, <1>4 DEF Stray, RecordingInv, RecordingTypes, OnePlace, RecordingAgrees, QbufExpected, FramesKept
<1>5. CASE rec.flag /\ Stray("tail") /\ rec' = [Stopped EXCEPT !.running = TRUE] /\ queued' = {}
  BY <1>1, <1>5 DEF Stopped, Stray, RecordingInv, RecordingTypes, OnePlace, RecordingAgrees, QbufExpected,
       FramesKept
<1>6. CASE /\ ~ rec.flag /\ rec' = [rec EXCEPT !.running = FALSE] /\ strayed' = strayed \ {"tail"}
           /\ UNCHANGED queued
  BY <1>1, <1>6 DEF RecordingInv, RecordingTypes, OnePlace, RecordingAgrees, QbufExpected, FramesKept
<1>7. QED
  BY <1>2, <1>3, <1>4, <1>5, <1>6 DEF stopRecording

\* The encoder gives back a frame of this recording, to a device that streams when it
\* takes it; or the frame is lost.
LEMMA ReleaseHeldInv == ASSUME RecordingInv, ReleaseHeld PROVE RecordingInv'
<1>1. PICK i \in held :
        /\ held' = held \ {i} /\ UNCHANGED << rec, pump, stale, enabled, asked >>
        /\ \/ releaseRecordFrame(i) /\ UNCHANGED strayed
           \/ rec.flag /\ LoseFrame("qbuf")
  BY DEF ReleaseHeld
<1>2. CASE rec.flag /\ releaseRecordFrame(i) /\ UNCHANGED strayed
  BY <1>1, <1>2 DEF releaseRecordFrame, Qbuf, RecordingInv, RecordingTypes, OnePlace, RecordingAgrees, QbufExpected,
       FramesKept
<1>3. CASE ~ rec.flag /\ releaseRecordFrame(i) /\ UNCHANGED strayed
  BY <1>1, <1>3 DEF releaseRecordFrame, RecordingInv, RecordingTypes, OnePlace, RecordingAgrees, QbufExpected, FramesKept
<1>4. CASE rec.flag /\ LoseFrame("qbuf")
  BY <1>1, <1>4 DEF LoseFrame, Stray, RecordingInv, RecordingTypes, OnePlace, RecordingAgrees, QbufExpected, FramesKept
<1>5. QED
  BY <1>1, <1>2, <1>3, <1>4

\* A frame of an earlier recording is ignored between recordings, and late during one.
LEMMA ReleaseStaleInv == ASSUME RecordingInv, ReleaseStale PROVE RecordingInv'
<1>1. PICK i \in stale :
        /\ stale' = stale \ {i} /\ UNCHANGED << rec, pump, held, enabled, asked >>
        /\ releaseRecordFrame(i)
        /\ IF rec.flag THEN Stray("late") ELSE UNCHANGED strayed
  BY DEF ReleaseStale
<1>2. CASE rec.flag
  BY <1>1, <1>2 DEF releaseRecordFrame, Qbuf, Stray, RecordingInv, RecordingTypes, OnePlace, RecordingAgrees,
       QbufExpected, FramesKept
<1>3. CASE ~ rec.flag
  BY <1>1, <1>3 DEF releaseRecordFrame, RecordingInv, RecordingTypes, OnePlace, RecordingAgrees, QbufExpected, FramesKept
<1>4. QED
  BY <1>2, <1>3

\* The thread takes the lock, and a frame from the driver.
LEMMA PumpInv == ASSUME RecordingInv, PumpLock \/ PumpFrame \/ PumpFails PROVE RecordingInv'
<1>1. CASE PumpLock
  BY <1>1 DEF PumpLock, Off, RecordingInv, RecordingTypes, OnePlace, RecordingAgrees, QbufExpected, FramesKept
<1>2. CASE PumpFrame
  BY <1>2 DEF PumpFrame, RecordingInv, RecordingTypes, OnePlace, RecordingAgrees, QbufExpected, FramesKept
<1>3. CASE PumpFails
  BY <1>3 DEF PumpFails, Off, RecordingInv, RecordingTypes, OnePlace, RecordingAgrees, QbufExpected, FramesKept
<1>4. QED
  BY <1>1, <1>2, <1>3

\* It goes on to the encoder or back to the driver, or is lost.
LEMMA HandOnInv == ASSUME RecordingInv, PumpHandOn PROVE RecordingInv'
<1>1. /\ pump.pc = "got" /\ pump' = [pc |-> "off", frame |-> NoFrame]
      /\ UNCHANGED << rec, stale, enabled, asked >>
  BY DEF PumpHandOn, Off
<1>2. CASE \E kind \in {"addr", "qbuf"} : LoseFrame(kind) /\ UNCHANGED held
  BY <1>1, <1>2 DEF LoseFrame, Stray, RecordingInv, RecordingTypes, OnePlace, RecordingAgrees, QbufExpected, FramesKept
<1>3. CASE held' = held \cup {pump.frame} /\ UNCHANGED << queued, upset, strayed >>
  BY <1>1, <1>3 DEF RecordingInv, RecordingTypes, OnePlace, RecordingAgrees, QbufExpected, FramesKept
<1>4. CASE rec.flag /\ releaseRecordFrame(pump.frame) /\ UNCHANGED << held, strayed >>
  <2>1. /\ queued' = queued \cup {pump.frame}
        /\ upset' = (upset \/ pump.frame \in queued \/ ~ rec.stream)
    BY <1>4 DEF releaseRecordFrame, Qbuf
  <2>2. pump.frame \in Frames
    BY <1>1 DEF RecordingInv, RecordingTypes
  <2>3. RecordingTypes' /\ RecordingAgrees'
    BY <1>1, <1>4, <2>1, <2>2 DEF RecordingInv, RecordingTypes, RecordingAgrees
  <2>4. OnePlace' /\ QbufExpected'
    BY <1>1, <1>4, <2>1, <2>2 DEF RecordingInv, RecordingTypes, OnePlace, RecordingAgrees, QbufExpected
  <2>5. FramesKept'
    BY <1>1, <1>4, <2>1 DEF RecordingInv, FramesKept
  <2>6. QED
    BY <2>3, <2>4, <2>5 DEF RecordingInv
<1>5. CASE ~ rec.flag /\ releaseRecordFrame(pump.frame) /\ UNCHANGED << held, strayed >>
  BY <1>1, <1>5 DEF releaseRecordFrame, RecordingInv, RecordingTypes, OnePlace, RecordingAgrees, QbufExpected, FramesKept
<1>6. QED
  BY <1>2, <1>3, <1>4, <1>5 DEF PumpHandOn

\* Every step keeps the invariant.
LEMMA RecordingSteps == RecordingInv /\ [NextRecording]_recVars => RecordingInv'
<1> SUFFICES ASSUME RecordingInv, [NextRecording]_recVars PROVE RecordingInv'
  OBVIOUS
<1>1. CASE NextRecording
  BY <1>1, AskInv, StartRecordingInv, StopRecordingInv, ReleaseHeldInv, ReleaseStaleInv, PumpInv, HandOnInv
     DEF NextRecording, Answer, Encoder, Pump
<1>2. CASE UNCHANGED recVars
  BY <1>2 DEF recVars, RecordingInv, RecordingTypes, OnePlace, RecordingAgrees, QbufExpected, FramesKept
<1>3. QED
  BY <1>1, <1>2

\* Each record buffer is in one place, none is queued unexpectedly or lost, and the HAL
\* and the device disagree on the recording only after the failures that cause it
\* (startRecord(), stopRecord(), releaseRecordFrame(), the recording half of
\* previewThread()).
THEOREM RecordFramesAreSafe == SpecRecording => []FramesSafe
<1>1. RecordingInv => FramesSafe
  BY DEF RecordingInv, RecordingTypes, OnePlace, RecordingAgrees, FramesSafe, RecordingTypeOK, RecordingAgrees
<1>2. QED
  BY <1>1, RecordingStarts, RecordingSteps, PTL DEF SpecRecording

-----------------------------------------------------------------------------
(* The device: what a call leaves behind when an ioctl fails.              *)

Devices ==
  [ init : BOOLEAN, id : {"back", "front"}, fd : BOOLEAN, fd2 : BOOLEAN,
    leaked : SUBSET {"fd", "fd2", "map"}, cameraStart : BOOLEAN, recordStart : BOOLEAN,
    capture : BOOLEAN, stream : {"off", "preview", "capture"},
    queued : 0..MaxBuffers, stream2 : BOOLEAN, failed : SUBSET Faults,
    busy : BOOLEAN ]
Results == [d : Devices, ret : {0, -1}, f : SUBSET Faults]

\* One of the kinds K has failed.
Broke(d, K) == d.failed \cap K # {}

\* In every state: what the flags of each node say of it, and what has failed when
\* something was lost.
Steady(d) ==
  /\ d \in Devices
  /\ d.cameraStart => d.stream = "preview" \/ "streamoff" \in d.failed
  /\ d.cameraStart => d.fd \/ "streamoff" \in d.failed
  /\ d.recordStart => d.stream2 \/ "caf" \in d.failed
  /\ d.stream2 => d.recordStart \/ Broke(d, Stranding2)
  /\ d.stream2 => d.fd2 \/ d.leaked # {}
  /\ d.busy => Broke(d, Stranding0 \cup Stranding2)
  /\ "map" \notin d.leaked /\ (d.leaked # {} => Broke(d, HalfOpen))

\* The nodes are open when the device says so.
Held(d) == IF d.init THEN d.fd /\ d.fd2 ELSE d.fd \/ d.fd2 => Broke(d, HalfOpen)

\* A stream of node 0, or of node 2, that nobody asked for.
Stray0(d) == d.stream # "off" => Broke(d, Stranding0)
Stray2(d) == d.stream2 => Broke(d, Stranding2 \cup HalfOpen)

\* While the preview runs, or has failed to start; when it is stopped; and from the
\* shutter to the end of a picture, which has a buffer to take while it streams.
Sound(d) == Steady(d) /\ Held(d)
Flagged(d) == d.cameraStart => "streamoff" \in d.failed
Running(d) == Sound(d) /\ ~ d.capture /\ (d.cameraStart \/ Stray0(d))
AtRest(d) == Sound(d) /\ ~ d.capture /\ Flagged(d) /\ Stray0(d)
Shooting(d) == Sound(d) /\ Flagged(d) /\ (d.queued > 0 \/ Stray0(d))

\* The inductive invariant.
DeviceInv ==
  /\ hal \in {"closed", "stopped", "running", "failed", "shooting"} /\ recording \in BOOLEAN
  /\ hal \in {"running", "failed"} => Running(dev)
  /\ hal \in {"closed", "stopped"} => AtRest(dev)
  /\ hal = "shooting" => Shooting(dev)
  /\ hal = "closed" => ~ dev.init /\ Stray2(dev)
  /\ ~ recording => Stray2(dev)

\* What the methods of one node leave alone.
Left(d, e) ==
  /\ e.init = d.init /\ e.id = d.id /\ e.fd = d.fd /\ e.fd2 = d.fd2 /\ d.failed \subseteq e.failed
Left0(d, e) == Left(d, e) /\ e.leaked = d.leaked /\ e.recordStart = d.recordStart /\ e.stream2 = d.stream2
Left2(d, e) ==
  /\ Left(d, e) /\ e.leaked = d.leaked /\ e.cameraStart = d.cameraStart /\ e.capture = d.capture
  /\ e.stream = d.stream /\ e.queued = d.queued

-----------------------------------------------------------------------------
(* One ioctl.                                                              *)

LEMMA FailedIs ==
  ASSUME NEW d \in Devices, NEW F \in SUBSET Faults
  PROVE  [d EXCEPT !.failed = @ \cup F] \in Devices
BY DEF Devices

\* An ioctl whose effect makes e of the device.
IoctlTo(r, at, e) ==
  CASE r.ret < 0                 -> r
    [] r.ret >= 0 /\ at \in r.f -> [r EXCEPT !.ret = -1, !.d.failed = @ \cup {at}]
    [] OTHER                     -> [r EXCEPT !.d = e]

LEMMA IoctlIs ==
  ASSUME NEW r \in Results, NEW at \in Faults, NEW e, r.ret = 0 => e \in Devices, NEW q,
         q = IoctlTo(r, at, e)
  PROVE  /\ q \in Results /\ q.f = r.f
         /\ \/ r.ret = -1 /\ q = r
            \/ r.ret = 0 /\ q.ret = -1 /\ q.d = [r.d EXCEPT !.failed = @ \cup {at}]
            \/ r.ret = 0 /\ q.ret = 0 /\ q.d = e
<1>1. r.d \in Devices /\ r.f \in SUBSET Faults /\ r.ret \in {0, -1}
  BY DEF Results
<1>2. CASE r.ret = -1
  BY <1>2 DEF IoctlTo
<1>3. CASE r.ret = 0 /\ at \in r.f
  <2>1. [r.d EXCEPT !.failed = @ \cup {at}] \in Devices
    BY <1>1, FailedIs
  <2>2. q = [r EXCEPT !.ret = -1, !.d = [r.d EXCEPT !.failed = @ \cup {at}]]
    BY <1>3 DEF Results, IoctlTo
  <2>3. QED
    BY <1>1, <1>3, <2>1, <2>2 DEF Results
<1>4. CASE r.ret = 0 /\ at \notin r.f
  <2>1. q = [r EXCEPT !.d = e]
    BY <1>4 DEF IoctlTo
  <2>2. QED
    BY <1>1, <1>4, <2>1 DEF Results
<1>5. QED
  BY <1>1, <1>2, <1>3, <1>4

\* Some ioctls without an effect, that fail at one point.
Plain(r, q, at) ==
  /\ q \in Results /\ q.f = r.f
  /\ q = r \/ (r.ret = 0 /\ q.ret = -1 /\ q.d = [r.d EXCEPT !.failed = @ \cup {at}])

LEMMA PlainIs == ASSUME NEW r \in Results, NEW at \in Faults PROVE Plain(r, Ioctl(r, at, Same), at)
<1> DEFINE q == Ioctl(r, at, Same)
<1>1. q = IoctlTo(r, at, r.d)
  BY DEF Ioctl, IoctlTo, Same
<1>2. r.d \in Devices
  BY DEF Results
<1> HIDE DEF q
<1>3. /\ q \in Results /\ q.f = r.f
      /\ \/ r.ret = -1 /\ q = r
         \/ r.ret = 0 /\ q.ret = -1 /\ q.d = [r.d EXCEPT !.failed = @ \cup {at}]
         \/ r.ret = 0 /\ q.ret = 0 /\ q.d = r.d
  BY <1>1, <1>2, IoctlIs
<1>4. r.ret = 0 /\ q.ret = 0 /\ q.d = r.d => q = r
  BY <1>3 DEF Results
<1>5. Plain(r, q, at)
  BY <1>3, <1>4 DEF Plain
<1>6. QED
  BY <1>5 DEF q

LEMMA PlainTwice ==
  ASSUME NEW at, NEW r, NEW q, NEW s, Plain(r, q, at), Plain(q, s, at)
  PROVE  Plain(r, s, at)
BY DEF Plain

\* The ioctls that are plain.
LEMMA PlainOnes ==
  ASSUME NEW r \in Results, NEW at \in Faults
  PROVE  /\ Plain(r, fimc_v4l2_querycap(r, at), at) /\ Plain(r, fimc_v4l2_enuminput(r, at), at)
         /\ Plain(r, fimc_v4l2_s_input(r, at), at) /\ Plain(r, fimc_v4l2_enum_fmt(r, at), at)
         /\ Plain(r, fimc_v4l2_s_ctrl(r, at), at) /\ Plain(r, fimc_v4l2_s_ext_ctrl(r, at), at)
         /\ Plain(r, fimc_v4l2_g_ctrl(r, at), at) /\ Plain(r, fimc_v4l2_s_parm(r, at), at)
         /\ Plain(r, fimc_poll(r, at), at)
BY PlainIs DEF fimc_v4l2_querycap, fimc_v4l2_enuminput, fimc_v4l2_s_input, fimc_v4l2_enum_fmt,
   fimc_v4l2_s_ctrl, fimc_v4l2_s_ext_ctrl, fimc_v4l2_g_ctrl, fimc_v4l2_s_parm, fimc_poll

\* An assignment.
ThenTo(r, e) == IF r.ret < 0 THEN r ELSE [r EXCEPT !.d = e]
LEMMA ThenIs ==
  ASSUME NEW r \in Results, NEW e, r.ret = 0 => e \in Devices, NEW q, q = ThenTo(r, e)
  PROVE  /\ q \in Results /\ q.f = r.f /\ q.ret = r.ret
         /\ (r.ret = -1 /\ q = r) \/ (r.ret = 0 /\ q.d = e)
BY DEF Results, ThenTo

\* A node that streams is not given a format or buffers.
LEMMA IdleIs ==
  ASSUME NEW r \in Results, NEW node \in {0, 2}, NEW q, q = Idle(r, node)
  PROVE  /\ q \in Results /\ q.f = r.f
         /\ \/ q = r /\ (r.ret = 0 => ~ Streams(r.d, node))
            \/ r.ret = 0 /\ Streams(r.d, node) /\ q.ret = -1 /\ q.d = [r.d EXCEPT !.busy = TRUE]
<1>1. r.d \in Devices /\ r.ret \in {0, -1} /\ r.f \in SUBSET Faults
  BY DEF Results
<1>2. [r.d EXCEPT !.busy = TRUE] \in Devices
  BY <1>1 DEF Devices
<1>3. CASE r.ret >= 0 /\ Streams(r.d, node)
  <2> DEFINE e == [r.d EXCEPT !.busy = TRUE]
  <2>1. q = [r EXCEPT !.ret = -1, !.d = e]
    BY <1>3 DEF Idle, Results
  <2> HIDE DEF e
  <2>2. q \in Results /\ q.f = r.f /\ q.ret = -1 /\ q.d = e
    BY <1>1, <1>2, <2>1 DEF Results, e
  <2>3. QED
    BY <1>1, <1>3, <2>2 DEF e
<1>4. CASE ~ (r.ret >= 0 /\ Streams(r.d, node))
  <2>1. q = r
    BY <1>4 DEF Idle
  <2>2. QED
    BY <1>1, <1>4, <2>1
<1>5. QED
  BY <1>3, <1>4

-----------------------------------------------------------------------------
(* Runs of ioctls, and the methods of one node.                            *)

LEMMA BeginIs ==
  ASSUME NEW d \in Devices, NEW f \in SUBSET Faults
  PROVE  /\ Begin(d, f) \in Results /\ Begin(d, f).d = d /\ Begin(d, f).ret = 0 /\ Begin(d, f).f = f
         /\ Fail(Begin(d, f)) \in Results /\ Fail(Begin(d, f)).d = d /\ Fail(Begin(d, f)).ret = -1
         /\ Fail(Begin(d, f)).f = f
BY DEF Begin, Fail, Results

\* What asking for a format and buffers makes of d.
Buffering(d, node, at, q) ==
  \/ q.ret = -1 /\ Streams(d, node) /\ q.d = [d EXCEPT !.busy = TRUE]
  \/ q.ret = -1 /\ q.d = [d EXCEPT !.failed = @ \cup {at}]
  \/ /\ q.ret = 0 /\ ~ Streams(d, node)
     /\ q.d = IF node = 0 THEN [d EXCEPT !.queued = 0] ELSE d

LEMMA BuffersDo ==
  ASSUME NEW r \in Results, r.ret = 0, NEW node \in {0, 2}, NEW at \in Faults, NEW q, q = Buffers(r, node, at)
  PROVE  q \in Results /\ q.f = r.f /\ Buffering(r.d, node, at, q)
<1> DEFINE a == fimc_v4l2_enum_fmt(r, at)
           b == Idle(a, node)
           c == Ioctl(b, at, Same)
           e == Idle(c, node)
           n == IF node = 0 THEN [e.d EXCEPT !.queued = 0] ELSE e.d
<1>1. q = IoctlTo(e, at, n)
  BY DEF Buffers, fimc_v4l2_reqbufs, fimc_v4l2_s_fmt, Ioctl, IoctlTo
<1>2. Plain(r, a, at)
  BY PlainOnes
<1>3. a \in Results /\ a.f = r.f
  BY <1>2 DEF Plain
<1> HIDE DEF a
<1>4. /\ b \in Results /\ b.f = a.f
      /\ \/ b = a /\ (a.ret = 0 => ~ Streams(a.d, node))
         \/ a.ret = 0 /\ Streams(a.d, node) /\ b.ret = -1 /\ b.d = [a.d EXCEPT !.busy = TRUE]
  BY <1>3, IdleIs
<1> HIDE DEF b
<1>5. Plain(b, c, at)
  BY <1>4, PlainIs
<1>6. c \in Results /\ c.f = b.f
  BY <1>5 DEF Plain
<1> HIDE DEF c
<1>7. /\ e \in Results /\ e.f = c.f
      /\ \/ e = c /\ (c.ret = 0 => ~ Streams(c.d, node))
         \/ c.ret = 0 /\ Streams(c.d, node) /\ e.ret = -1 /\ e.d = [c.d EXCEPT !.busy = TRUE]
  BY <1>6, IdleIs
<1> HIDE DEF e
<1>8. n \in Devices
  BY <1>7, BufferCount DEF Results, Devices
<1> HIDE DEF n
<1>9. /\ q \in Results /\ q.f = e.f
      /\ \/ e.ret = -1 /\ q = e
         \/ e.ret = 0 /\ q.ret = -1 /\ q.d = [e.d EXCEPT !.failed = @ \cup {at}]
         \/ e.ret = 0 /\ q.ret = 0 /\ q.d = n
  BY <1>1, <1>7, <1>8, IoctlIs
<1>10. /\ a = r \/ (a.ret = -1 /\ a.d = [r.d EXCEPT !.failed = @ \cup {at}])
       /\ c = b \/ (b.ret = 0 /\ c.ret = -1 /\ c.d = [b.d EXCEPT !.failed = @ \cup {at}])
  BY <1>2, <1>5 DEF Plain
<1>11. /\ e.ret \in {0, -1}
       /\ \/ e.ret = -1 /\ Streams(r.d, node) /\ e.d = [r.d EXCEPT !.busy = TRUE]
          \/ e.ret = -1 /\ e.d = [r.d EXCEPT !.failed = @ \cup {at}]
          \/ e = r /\ ~ Streams(r.d, node)
  <2>1. CASE a # r
    BY <1>4, <1>7, <1>10, <2>1
  <2>2. CASE a = r
    BY <1>4, <1>7, <1>10, <2>2
  <2>3. QED
    BY <2>1, <2>2
<1>12. QED
  BY <1>3, <1>4, <1>6, <1>7, <1>9, <1>11 DEF n, Buffering

\* stopPreview() leaves the flag when STREAMOFF fails or there is no node.
Stopping(d, e) ==
  \/ (~ d.cameraStart \/ ~ d.fd) /\ e = d
  \/ d.cameraStart /\ e = [d EXCEPT !.failed = @ \cup {"streamoff"}]
  \/ d.cameraStart /\ e = [d EXCEPT !.stream = "off", !.queued = 0, !.cameraStart = FALSE]

LEMMA StopPreviewDoes ==
  ASSUME NEW d \in Devices, NEW f \in SUBSET Faults, NEW r, r = stopPreview(d, f)
  PROVE  r \in Results /\ r.f = f /\ Stopping(d, r.d)
<1>1. CASE ~ d.cameraStart
  BY <1>1, BeginIs DEF stopPreview, Stopping
<1>2. CASE d.cameraStart /\ ~ d.fd
  BY <1>2, BeginIs DEF stopPreview, Stopping
<1>3. CASE d.cameraStart /\ d.fd
  <2> DEFINE b == Begin(d, f)
             q == fimc_v4l2_streamoff(b, 0, "streamoff")
             e == [q.d EXCEPT !.cameraStart = FALSE]
  <2>1. r = IF q.ret < 0 THEN q ELSE [q EXCEPT !.d = e]
    BY <1>3 DEF stopPreview, Then
  <2>2. q = IoctlTo(b, "streamoff", Off0(b.d))
    BY DEF fimc_v4l2_streamoff, Ioctl, IoctlTo
  <2>3. b \in Results /\ b.d = d /\ b.ret = 0 /\ b.f = f
    BY BeginIs
  <2> HIDE DEF b
  <2>4. Off0(b.d) = [d EXCEPT !.stream = "off", !.queued = 0]
    BY <2>3 DEF Off0
  <2>5. Off0(b.d) \in Devices
    <3>1. 0 \in 0..MaxBuffers
      BY BufferCount
    <3>2. [d EXCEPT !.stream = "off", !.queued = 0] \in Devices
      BY <3>1 DEF Devices
    <3>3. QED
      BY <2>4, <3>2
  <2>6. "streamoff" \in Faults
    BY DEF Faults
  <2> HIDE DEF q
  <2>7. /\ q \in Results /\ q.f = f
        /\ \/ q.ret = -1 /\ q.d = [d EXCEPT !.failed = @ \cup {"streamoff"}]
           \/ q.ret = 0 /\ q.d = [d EXCEPT !.stream = "off", !.queued = 0]
    BY <2>2, <2>3, <2>4, <2>5, <2>6, IoctlIs
  <2>8. e \in Devices
    BY <2>7 DEF Results, Devices
  <2>9. CASE q.ret = -1
    BY <1>3, <2>1, <2>7, <2>9 DEF Stopping
  <2>10. CASE q.ret = 0
    <3>1. e = [d EXCEPT !.stream = "off", !.queued = 0, !.cameraStart = FALSE]
      <4>1. q.d = [d EXCEPT !.stream = "off", !.queued = 0]
        BY <2>7, <2>10
      <4>2. QED
        BY <4>1
    <3> HIDE DEF e
    <3>2. r \in Results /\ r.f = f /\ r.d = e
      BY <2>1, <2>7, <2>8, <2>10 DEF Results
    <3>3. QED
      BY <1>3, <3>1, <3>2 DEF Stopping
  <2>11. QED
    BY <2>7, <2>9, <2>10
<1>4. QED
  BY <1>1, <1>2, <1>3

\* What startPreview() has changed before it streams.
NotYet(d, q) ==
  /\ q.ret = -1 /\ Left0(d, q.d) /\ q.d.capture = d.capture /\ q.d.stream = d.stream
  /\ q.d.cameraStart = d.cameraStart /\ (q.d.busy => d.busy \/ Streams(d, 0))

LEMMA NotYetFails ==
  ASSUME NEW d \in Devices, NEW e \in Devices, NEW s, NEW at,
         e.stream = d.stream /\ e.cameraStart = d.cameraStart /\ e.capture = d.capture /\ e.busy = d.busy,
         Left0(d, e), s.ret = -1, s.d = [e EXCEPT !.failed = @ \cup {at}]
  PROVE  NotYet(d, s)
BY DEF NotYet, Left0, Left, Devices, Streams

LEMMA StartPreviewDoes ==
  ASSUME NEW d \in Devices, NEW f \in SUBSET Faults, NEW r, r = startPreview(d, f)
  PROVE  /\ r \in Results /\ r.f = f
         /\ \/ d.cameraStart /\ r.ret = 0 /\ r.d = d
            \/ ~ d.cameraStart /\ NotYet(d, r)
            \/ /\ ~ d.cameraStart /\ d.fd /\ d.stream = "off"
               /\ Left0(d, r.d) /\ r.d.capture = d.capture /\ r.d.busy = d.busy /\ r.d.stream = "preview"
               /\ r.d.cameraStart \/ (r.ret = -1 /\ "late" \in r.d.failed)
<1>1. CASE d.cameraStart
  BY <1>1, BeginIs DEF startPreview
<1>2. CASE ~ d.cameraStart /\ ~ d.fd
  <2>1. r = Fail(Begin(d, f))
    BY <1>2 DEF startPreview
  <2>2. NotYet(d, r)
    BY <2>1, BeginIs DEF NotYet, Left0, Left
  <2>3. QED
    BY <1>2, <2>1, <2>2, BeginIs
<1>3. CASE ~ d.cameraStart /\ d.fd
  <2> DEFINE b    == Begin(d, f)
             bufs == Buffers(b, 0, "setup")
             made == fimc_v4l2_s_ctrl(bufs, "setup")
             dq   == [made.d EXCEPT !.queued = @ + MaxBuffers]
             qd   == fimc_v4l2_qbuf(made, 0, "setup", MaxBuffers)
             full == fimc_v4l2_s_ctrl(qd, "setup")
             ds   == [full.d EXCEPT !.stream = "preview"]
             strm == fimc_v4l2_streamon(full, 0, "setup", "preview")
             on   == fimc_v4l2_s_ctrl(strm, "late")
             dc   == [on.d EXCEPT !.cameraStart = TRUE]
             set  == Then(on, LAMBDA x : [x EXCEPT !.cameraStart = TRUE])
             parm == fimc_v4l2_s_parm(set, "tail")
             sent == fimc_v4l2_s_ctrl(parm, "tail")
             poll == fimc_poll(sent, "tail")
  <2>1. r = fimc_v4l2_s_ctrl(poll, "tail")
    BY <1>3 DEF startPreview
  <2>2. {"setup", "late", "tail"} \subseteq Faults
    BY DEF Faults, StartFaults
  <2>3. /\ qd = IoctlTo(made, "setup", dq) /\ strm = IoctlTo(full, "setup", ds)
        /\ set = ThenTo(on, dc)
    BY DEF fimc_v4l2_qbuf, fimc_v4l2_streamon, Ioctl, IoctlTo, Then, ThenTo
  <2>4. b \in Results /\ b.d = d /\ b.ret = 0 /\ b.f = f
    BY BeginIs
  <2> HIDE DEF b
  <2>5. /\ bufs \in Results /\ bufs.f = f
        /\ \/ bufs.ret = -1 /\ Streams(d, 0) /\ bufs.d = [d EXCEPT !.busy = TRUE]
           \/ bufs.ret = -1 /\ bufs.d = [d EXCEPT !.failed = @ \cup {"setup"}]
           \/ bufs.ret = 0 /\ ~ Streams(d, 0) /\ bufs.d = [d EXCEPT !.queued = 0]
    <3>1. bufs \in Results /\ bufs.f = f /\ Buffering(d, 0, "setup", bufs)
      BY <2>2, <2>4, BuffersDo
    <3>2. QED
      BY <3>1 DEF Buffering
  <2> HIDE DEF bufs
  <2>6. bufs.ret = -1 => NotYet(d, bufs)
    <3>1. CASE bufs.ret = -1 /\ Streams(d, 0) /\ bufs.d = [d EXCEPT !.busy = TRUE]
      BY <3>1 DEF NotYet, Left0, Left, Devices
    <3>2. CASE bufs.ret = -1 /\ bufs.d = [d EXCEPT !.failed = @ \cup {"setup"}]
      BY <3>2 DEF NotYet, Left0, Left, Devices
    <3>3. QED
      BY <2>5, <3>1, <3>2
  <2>7. /\ Plain(bufs, made, "setup") /\ made \in Results /\ made.f = f
    <3>1. Plain(bufs, made, "setup")
      BY <2>2, <2>5, PlainOnes
    <3>2. QED
      BY <2>5, <3>1 DEF Plain
  <2> HIDE DEF made
  <2>8. \/ NotYet(d, made)
        \/ made.ret = 0 /\ d.stream = "off" /\ made.d = [d EXCEPT !.queued = 0]
    <3>1. CASE made = bufs
      BY <2>5, <2>6, <3>1 DEF Streams
    <3>2. CASE bufs.ret = 0 /\ made.ret = -1 /\ made.d = [bufs.d EXCEPT !.failed = @ \cup {"setup"}]
      <4>1. bufs.d = [d EXCEPT !.queued = 0] /\ bufs.d \in Devices
        BY <2>5, <3>2 DEF Results
      <4>2. /\ bufs.d.stream = d.stream /\ bufs.d.cameraStart = d.cameraStart /\ bufs.d.capture = d.capture
            /\ bufs.d.busy = d.busy /\ Left0(d, bufs.d)
        BY <4>1 DEF Devices, Left0, Left
      <4>3. NotYet(d, made)
        BY <3>2, <4>1, <4>2, NotYetFails
      <4>4. QED
        BY <4>3
    <3>3. QED
      BY <2>7, <3>1, <3>2 DEF Plain
  <2>9. made.ret = 0 => dq = [d EXCEPT !.queued = MaxBuffers] /\ dq \in Devices
    <3>1. ASSUME made.ret = 0 PROVE dq = [d EXCEPT !.queued = MaxBuffers]
      <4>1. made.d = [d EXCEPT !.queued = 0]
        BY <2>8, <3>1 DEF NotYet
      <4>2. made.d.queued = 0 /\ 0 + MaxBuffers = MaxBuffers
        BY <4>1, BufferCount DEF Devices
      <4>3. dq = [made.d EXCEPT !.queued = MaxBuffers]
        BY <4>2
      <4>4. QED
        BY <4>1, <4>3
    <3>2. MaxBuffers \in 0..MaxBuffers
      BY BufferCount
    <3>3. [d EXCEPT !.queued = MaxBuffers] \in Devices
      BY <3>2 DEF Devices
    <3>4. QED
      BY <3>1, <3>3
  <2> HIDE DEF dq
  <2>10. /\ qd \in Results /\ qd.f = f
         /\ \/ made.ret = -1 /\ qd = made
            \/ made.ret = 0 /\ qd.ret = -1 /\ qd.d = [made.d EXCEPT !.failed = @ \cup {"setup"}]
            \/ made.ret = 0 /\ qd.ret = 0 /\ qd.d = dq
    BY <2>2, <2>3, <2>7, <2>9, IoctlIs
  <2> HIDE DEF qd
  <2>11. NotYet(d, qd) \/ (qd.ret = 0 /\ d.stream = "off" /\ qd.d = [d EXCEPT !.queued = MaxBuffers])
    <3>1. CASE made.ret = -1
      BY <2>8, <2>10, <3>1
    <3>2. CASE made.ret = 0 /\ qd.ret = -1 /\ qd.d = [made.d EXCEPT !.failed = @ \cup {"setup"}]
      <4>1. made.d = [d EXCEPT !.queued = 0] /\ made.d \in Devices
        BY <2>7, <2>8, <3>2 DEF Results, NotYet
      <4>2. /\ made.d.stream = d.stream /\ made.d.cameraStart = d.cameraStart /\ made.d.capture = d.capture
            /\ made.d.busy = d.busy /\ Left0(d, made.d)
        BY <4>1 DEF Devices, Left0, Left
      <4>3. NotYet(d, qd)
        BY <3>2, <4>1, <4>2, NotYetFails
      <4>4. QED
        BY <4>3
    <3>3. CASE made.ret = 0 /\ qd.ret = 0 /\ qd.d = dq
      BY <2>8, <2>9, <3>3 DEF NotYet
    <3>4. QED
      BY <2>10, <3>1, <3>2, <3>3
  <2>12. Plain(qd, full, "setup") /\ full \in Results /\ full.f = f
    <3>1. Plain(qd, full, "setup")
      BY <2>2, <2>10, PlainOnes
    <3>2. QED
      BY <2>10, <3>1 DEF Plain
  <2> HIDE DEF full
  <2>13. NotYet(d, full) \/ (full.ret = 0 /\ d.stream = "off" /\ full.d = [d EXCEPT !.queued = MaxBuffers])
    <3>1. CASE full = qd
      BY <2>11, <3>1
    <3>2. CASE qd.ret = 0 /\ full.ret = -1 /\ full.d = [qd.d EXCEPT !.failed = @ \cup {"setup"}]
      <4>1. qd.d = [d EXCEPT !.queued = MaxBuffers] /\ qd.d \in Devices
        BY <2>10, <2>11, <3>2 DEF Results, NotYet
      <4>2. /\ qd.d.stream = d.stream /\ qd.d.cameraStart = d.cameraStart /\ qd.d.capture = d.capture
            /\ qd.d.busy = d.busy /\ Left0(d, qd.d)
        BY <4>1 DEF Devices, Left0, Left
      <4>3. NotYet(d, full)
        BY <3>2, <4>1, <4>2, NotYetFails
      <4>4. QED
        BY <4>3
    <3>3. QED
      BY <2>12, <3>1, <3>2 DEF Plain
  <2>14. full.ret = 0 => ds = [d EXCEPT !.queued = MaxBuffers, !.stream = "preview"] /\ ds \in Devices
    <3>1. ASSUME full.ret = 0 PROVE ds = [d EXCEPT !.queued = MaxBuffers, !.stream = "preview"]
      <4>1. full.d = [d EXCEPT !.queued = MaxBuffers]
        BY <2>13, <3>1 DEF NotYet
      <4>2. QED
        BY <4>1
    <3>2. MaxBuffers \in 0..MaxBuffers
      BY BufferCount
    <3>3. [d EXCEPT !.queued = MaxBuffers, !.stream = "preview"] \in Devices
      BY <3>2 DEF Devices
    <3>4. QED
      BY <3>1, <3>3
  <2> HIDE DEF ds
  <2>15. /\ strm \in Results /\ strm.f = f
         /\ \/ full.ret = -1 /\ strm = full
            \/ full.ret = 0 /\ strm.ret = -1 /\ strm.d = [full.d EXCEPT !.failed = @ \cup {"setup"}]
            \/ full.ret = 0 /\ strm.ret = 0 /\ strm.d = ds
    BY <2>2, <2>3, <2>12, <2>14, IoctlIs
  <2> HIDE DEF strm
  <2>16. \/ NotYet(d, strm)
         \/ /\ strm.ret = 0 /\ d.stream = "off"
            /\ strm.d = [d EXCEPT !.queued = MaxBuffers, !.stream = "preview"]
    <3>1. CASE full.ret = -1
      BY <2>13, <2>15, <3>1
    <3>2. CASE full.ret = 0 /\ strm.ret = -1 /\ strm.d = [full.d EXCEPT !.failed = @ \cup {"setup"}]
      <4>1. full.d = [d EXCEPT !.queued = MaxBuffers] /\ full.d \in Devices
        BY <2>12, <2>13, <3>2 DEF Results, NotYet
      <4>2. /\ full.d.stream = d.stream /\ full.d.cameraStart = d.cameraStart /\ full.d.capture = d.capture
            /\ full.d.busy = d.busy /\ Left0(d, full.d)
        BY <4>1 DEF Devices, Left0, Left
      <4>3. NotYet(d, strm)
        BY <3>2, <4>1, <4>2, NotYetFails
      <4>4. QED
        BY <4>3
    <3>3. CASE full.ret = 0 /\ strm.ret = 0 /\ strm.d = ds
      BY <2>13, <2>14, <3>3 DEF NotYet
    <3>4. QED
      BY <2>15, <3>1, <3>2, <3>3
  <2>17. Plain(strm, on, "late") /\ on \in Results /\ on.f = f
    <3>1. Plain(strm, on, "late")
      BY <2>2, <2>15, PlainOnes
    <3>2. QED
      BY <2>15, <3>1 DEF Plain
  <2> HIDE DEF on
  <2>18. on.ret = 0 => dc \in Devices
    BY <2>17 DEF Results, Devices
  <2>19. /\ set \in Results /\ set.f = f /\ set.ret = on.ret
         /\ (on.ret = -1 /\ set = on) \/ (on.ret = 0 /\ set.d = dc)
    BY <2>3, <2>17, <2>18, ThenIs
  <2> HIDE DEF set
  <2>20. Plain(set, r, "tail")
    <3>1. Plain(set, parm, "tail")
      BY <2>2, <2>19, PlainOnes
    <3>2. parm \in Results
      BY <3>1 DEF Plain
    <3> HIDE DEF parm
    <3>3. Plain(parm, sent, "tail")
      BY <2>2, <3>2, PlainOnes
    <3>4. sent \in Results
      BY <3>3 DEF Plain
    <3> HIDE DEF sent
    <3>5. Plain(sent, poll, "tail")
      BY <2>2, <3>4, PlainOnes
    <3>6. poll \in Results
      BY <3>5 DEF Plain
    <3> HIDE DEF poll
    <3>7. Plain(poll, r, "tail")
      BY <2>1, <2>2, <3>6, PlainOnes
    <3>8. QED
      BY <3>1, <3>3, <3>5, <3>7, PlainTwice
  <2> DEFINE Up(q) == /\ d.stream = "off" /\ Left0(d, q.d) /\ q.d.capture = d.capture /\ q.d.busy = d.busy
                      /\ q.d.stream = "preview"
  <2>21. \/ NotYet(d, on)
         \/ Up(on) /\ on.ret = -1 /\ "late" \in on.d.failed
         \/ Up(on) /\ on.ret = 0
    <3>1. CASE NotYet(d, strm)
      BY <2>17, <3>1 DEF Plain, NotYet
    <3>2. CASE /\ strm.ret = 0 /\ d.stream = "off"
               /\ strm.d = [d EXCEPT !.queued = MaxBuffers, !.stream = "preview"]
      <4>1. Up(strm) /\ strm.d \in Devices
        BY <2>15, <3>2 DEF Left0, Left, Devices, Results
      <4>2. CASE on = strm
        BY <3>2, <4>1, <4>2
      <4>3. CASE on.ret = -1 /\ on.d = [strm.d EXCEPT !.failed = @ \cup {"late"}]
        <5>1. Up(on) /\ "late" \in on.d.failed
          BY <4>1, <4>3 DEF Left0, Left, Devices
        <5>2. QED
          BY <4>3, <5>1
      <4>4. QED
        BY <2>17, <4>2, <4>3 DEF Plain
    <3>3. QED
      BY <2>16, <3>1, <3>2
  <2>22. \/ NotYet(d, set)
         \/ Up(set) /\ set.ret = -1 /\ "late" \in set.d.failed
         \/ Up(set) /\ set.ret = 0 /\ set.d.cameraStart
    <3>1. CASE on.ret = -1
      BY <2>19, <2>21, <3>1
    <3>2. CASE on.ret = 0
      <4>1. Up(on) /\ set.d = dc /\ set.ret = 0 /\ on.d \in Devices
        BY <2>17, <2>19, <2>21, <3>2 DEF NotYet, Results
      <4>2. Up(set)
        BY <4>1 DEF Left0, Left, Devices
      <4>3. set.d.cameraStart
        BY <4>1 DEF Devices
      <4>4. QED
        BY <4>1, <4>2, <4>3
    <3>3. QED
      BY <2>17, <3>1, <3>2 DEF Results
  <2>23. /\ r \in Results /\ r.f = f
         /\ r = set \/ (set.ret = 0 /\ r.ret = -1 /\ r.d = [set.d EXCEPT !.failed = @ \cup {"tail"}])
    BY <2>19, <2>20 DEF Plain
  <2>24. CASE r = set
    BY <1>3, <2>22, <2>23, <2>24
  <2>25. CASE set.ret = 0 /\ r.ret = -1 /\ r.d = [set.d EXCEPT !.failed = @ \cup {"tail"}]
    <3>1. Up(set) /\ set.d.cameraStart /\ set.d \in Devices
      BY <2>19, <2>22, <2>25 DEF NotYet, Results
    <3>2. Up(r)
      BY <2>25, <3>1 DEF Left0, Left, Devices
    <3>3. r.d.cameraStart
      BY <2>25, <3>1 DEF Devices
    <3>4. QED
      BY <1>3, <2>23, <3>2, <3>3
  <2>26. QED
    BY <2>23, <2>24, <2>25
<1>4. QED
  BY <1>1, <1>2, <1>3

-----------------------------------------------------------------------------
(* Node 0.                                                                 *)

\* Nothing has changed but the buffers in the queue, and more has failed.
Alike(d, e) ==
  /\ Left0(d, e) /\ e.cameraStart = d.cameraStart /\ e.capture = d.capture /\ e.stream = d.stream
  /\ e.busy = d.busy

LEMMA BrokeStays == ASSUME NEW d, NEW e, d.failed \subseteq e.failed, NEW K, Broke(d, K) PROVE Broke(e, K)
BY DEF Broke

LEMMA AlikeKeeps ==
  ASSUME NEW d, NEW e \in Devices, Alike(d, e)
  PROVE  /\ Steady(d) => Steady(e)
         /\ Held(d) => Held(e)
         /\ Stray0(d) => Stray0(e)
         /\ Stray2(d) => Stray2(e)
         /\ Flagged(d) => Flagged(e)
         /\ Sound(d) => Sound(e)
         /\ Running(d) => Running(e)
         /\ AtRest(d) => AtRest(e)
<1>1. /\ e.init = d.init /\ e.id = d.id /\ e.fd = d.fd /\ e.fd2 = d.fd2 /\ d.failed \subseteq e.failed
      /\ e.leaked = d.leaked /\ e.recordStart = d.recordStart /\ e.stream2 = d.stream2
      /\ e.cameraStart = d.cameraStart /\ e.capture = d.capture /\ e.stream = d.stream /\ e.busy = d.busy
  BY DEF Alike, Left0, Left
<1>2. \A K : Broke(d, K) => Broke(e, K)
  BY <1>1, BrokeStays
<1>3. Steady(d) => Steady(e)
  BY <1>1, <1>2 DEF Steady
<1>4. Held(d) => Held(e)
  BY <1>1, <1>2 DEF Held
<1>5. Stray0(d) => Stray0(e)
  BY <1>1, <1>2 DEF Stray0
<1>6. Stray2(d) => Stray2(e)
  BY <1>1, <1>2 DEF Stray2
<1>7. Flagged(d) => Flagged(e)
  BY <1>1 DEF Flagged
<1>8. QED
  BY <1>1, <1>3, <1>4, <1>5, <1>6, <1>7 DEF Sound, Running, AtRest

LEMMA FailedAlike ==
  ASSUME NEW d \in Devices, NEW e, NEW at, e = [d EXCEPT !.failed = @ \cup {at}]
  PROVE  Alike(d, e) /\ at \in e.failed /\ e.queued = d.queued
BY DEF Alike, Left0, Left, Devices

LEMMA QueuedAlike ==
  ASSUME NEW d \in Devices, NEW n, NEW e, e = [d EXCEPT !.queued = n]
  PROVE  Alike(d, e)
BY DEF Alike, Left0, Left, Devices

LEMMA PlainAlike ==
  ASSUME NEW r \in Results, NEW at, NEW q, Plain(r, q, at)
  PROVE  /\ q \in Results /\ q.f = r.f /\ Alike(r.d, q.d) /\ q.d.queued = r.d.queued
         /\ q = r \/ (r.ret = 0 /\ q.ret = -1 /\ at \in q.d.failed)
<1>1. r.d \in Devices
  BY DEF Results
<1>2. Alike(r.d, r.d)
  BY DEF Alike, Left0, Left
<1>3. QED
  BY <1>1, <1>2, FailedAlike DEF Plain

\* What stopPreview() makes of a device.
LEMMA StopPreviewStops ==
  ASSUME NEW d, Running(d), NEW f \in SUBSET Faults, NEW r, r = stopPreview(d, f)
  PROVE  r \in Results /\ r.f = f /\ AtRest(r.d) /\ Left0(d, r.d)
<1>1. d \in Devices
  BY DEF Running, Sound, Steady
<1>2. r \in Results /\ r.f = f /\ Stopping(d, r.d)
  BY <1>1, StopPreviewDoes
<1>3. r.d \in Devices
  BY <1>2 DEF Results
<1>4. "streamoff" \in Stranding0
  BY DEF Stranding0
<1>5. CASE (~ d.cameraStart \/ ~ d.fd) /\ r.d = d
  <2>1. Flagged(d)
    BY <1>5 DEF Running, Sound, Steady, Flagged
  <2>2. Stray0(d)
    BY <1>4, <2>1 DEF Running, Flagged, Stray0, Broke
  <2>3. QED
    BY <1>2, <1>5, <2>1, <2>2 DEF Running, AtRest, Left0, Left
<1>6. CASE r.d = [d EXCEPT !.failed = @ \cup {"streamoff"}]
  <2>1. Alike(d, r.d) /\ "streamoff" \in r.d.failed
    BY <1>1, <1>6, FailedAlike
  <2>2. Running(r.d)
    BY <1>3, <2>1, AlikeKeeps
  <2>3. Flagged(r.d) /\ Stray0(r.d)
    BY <1>4, <2>1 DEF Flagged, Stray0, Broke
  <2>4. QED
    BY <1>2, <2>1, <2>2, <2>3 DEF Running, AtRest, Alike
<1>7. CASE r.d = [d EXCEPT !.stream = "off", !.queued = 0, !.cameraStart = FALSE]
  <2> DEFINE e == r.d
  <2>1. /\ e.init = d.init /\ e.id = d.id /\ e.fd = d.fd /\ e.fd2 = d.fd2 /\ e.failed = d.failed
        /\ e.leaked = d.leaked /\ e.recordStart = d.recordStart /\ e.stream2 = d.stream2
        /\ e.capture = d.capture /\ e.busy = d.busy
    BY <1>1, <1>7 DEF Devices
  <2>2. ~ e.cameraStart /\ e.stream = "off"
    BY <1>1, <1>7 DEF Devices
  <2>3. \A K : Broke(d, K) => Broke(e, K)
    BY <2>1, BrokeStays
  <2>4. Left0(d, e)
    BY <2>1 DEF Left0, Left
  <2> HIDE DEF e
  <2>5. Steady(d) /\ Held(d) /\ ~ d.capture
    BY DEF Running, Sound
  <2>6. e \in Devices
    BY <1>3 DEF e
  <2>7. Steady(e)
    BY <2>1, <2>2, <2>3, <2>5, <2>6 DEF Steady
  <2>8. Held(e)
    BY <2>1, <2>3, <2>5 DEF Held
  <2>9. AtRest(e)
    BY <2>1, <2>2, <2>5, <2>7, <2>8 DEF AtRest, Sound, Flagged, Stray0
  <2>10. QED
    BY <1>2, <2>4, <2>9 DEF e
<1>8. QED
  BY <1>2, <1>5, <1>6, <1>7 DEF Stopping

LEMMA StoppedRuns == ASSUME NEW d, AtRest(d) PROVE Running(d)
BY DEF AtRest, Running

\* What startPreview() makes of a device.
LEMMA StartPreviewRuns ==
  ASSUME NEW d, Running(d), NEW f \in SUBSET Faults, NEW r, r = startPreview(d, f)
  PROVE  r \in Results /\ r.f = f /\ Running(r.d) /\ Left0(d, r.d)
<1>1. d \in Devices /\ Steady(d) /\ Held(d) /\ ~ d.capture /\ (d.cameraStart \/ Stray0(d))
  BY DEF Running, Sound, Steady
<1>2. /\ r \in Results /\ r.f = f
      /\ \/ d.cameraStart /\ r.ret = 0 /\ r.d = d
         \/ ~ d.cameraStart /\ NotYet(d, r)
         \/ /\ ~ d.cameraStart /\ d.fd /\ d.stream = "off"
            /\ Left0(d, r.d) /\ r.d.capture = d.capture /\ r.d.busy = d.busy /\ r.d.stream = "preview"
            /\ r.d.cameraStart \/ (r.ret = -1 /\ "late" \in r.d.failed)
  BY <1>1, StartPreviewDoes
<1> DEFINE e == r.d
<1>3. e \in Devices
  BY <1>2 DEF Results
<1> HIDE DEF e
<1>4. ASSUME Left0(d, e)
      PROVE  /\ e.init = d.init /\ e.id = d.id /\ e.fd = d.fd /\ e.fd2 = d.fd2 /\ e.leaked = d.leaked
             /\ e.recordStart = d.recordStart /\ e.stream2 = d.stream2 /\ d.failed \subseteq e.failed
             /\ \A K : Broke(d, K) => Broke(e, K)
  BY <1>4, BrokeStays DEF Left0, Left
<1>5. CASE r.ret = 0 /\ r.d = d
  BY <1>2, <1>5 DEF Left0, Left
<1>6. CASE ~ d.cameraStart /\ NotYet(d, r)
  <2>1. /\ Left0(d, e) /\ e.capture = d.capture /\ e.stream = d.stream
        /\ e.cameraStart = d.cameraStart /\ (e.busy => d.busy \/ Streams(d, 0))
    BY <1>6 DEF NotYet, e
  <2>2. Stray0(d)
    BY <1>1, <1>6
  <2>3. Streams(d, 0) => Broke(d, Stranding0 \cup Stranding2)
    BY <2>2 DEF Streams, Stray0, Broke
  <2>4. Steady(e)
    BY <1>1, <1>3, <1>4, <1>6, <2>1, <2>3 DEF Steady
  <2>5. Held(e)
    BY <1>1, <1>4, <2>1 DEF Held
  <2>6. Stray0(e)
    BY <1>4, <2>1, <2>2 DEF Stray0
  <2>7. QED
    BY <1>1, <1>2, <2>1, <2>4, <2>5, <2>6 DEF Running, Sound, e
<1>7. CASE /\ ~ d.cameraStart /\ d.fd /\ d.stream = "off"
           /\ Left0(d, r.d) /\ r.d.capture = d.capture /\ r.d.busy = d.busy /\ r.d.stream = "preview"
           /\ r.d.cameraStart \/ (r.ret = -1 /\ "late" \in r.d.failed)
  <2>1. /\ ~ d.cameraStart /\ d.fd
        /\ Left0(d, e) /\ e.capture = d.capture /\ e.busy = d.busy /\ e.stream = "preview"
        /\ e.cameraStart \/ "late" \in e.failed
    BY <1>7 DEF e
  <2>2. Steady(e)
    BY <1>1, <1>3, <1>4, <2>1 DEF Steady
  <2>3. Held(e)
    BY <1>1, <1>4, <2>1 DEF Held
  <2>4. e.cameraStart \/ Stray0(e)
    BY <2>1 DEF Stray0, Broke, Stranding0
  <2>5. QED
    BY <1>1, <1>2, <2>1, <2>2, <2>3, <2>4 DEF Running, Sound, e
<1>8. QED
  BY <1>2, <1>5, <1>6, <1>7

LEMMA IgnoringIs ==
  ASSUME NEW r \in Results
  PROVE  /\ Ignoring(r) \in Results /\ Ignoring(r).d = r.d /\ Ignoring(r).f = r.f /\ Ignoring(r).ret = 0
         /\ Fail(r) \in Results /\ Fail(r).d = r.d /\ Fail(r).f = r.f /\ Fail(r).ret = -1
BY DEF Ignoring, Fail, Results

\* Taking a buffer fails when there is none.
LEMMA DqbufDoes ==
  ASSUME NEW r \in Results, NEW at \in Faults, NEW q, q = fimc_v4l2_dqbuf(r, at)
  PROVE  /\ q \in Results /\ q.f = r.f /\ Alike(r.d, q.d)
         /\ \/ r.ret = -1 /\ q.ret = -1 /\ q.d = r.d
            \/ r.ret = 0 /\ q.ret = -1 /\ (r.d.queued = 0 \/ at \in q.d.failed)
            \/ r.ret = 0 /\ q.ret = 0 /\ q.d.queued + 1 \in 0..MaxBuffers
<1>1. r.d \in Devices /\ r.ret \in {0, -1} /\ Alike(r.d, r.d)
  BY DEF Results, Alike, Left0, Left
<1>2. CASE r.d.queued = 0
  <2>1. q = Fail(r)
    BY <1>2 DEF fimc_v4l2_dqbuf
  <2>2. QED
    BY <1>1, <1>2, <2>1, IgnoringIs
<1>3. CASE r.d.queued # 0
  <2> DEFINE e == [r.d EXCEPT !.queued = @ - 1]
  <2>1. q = IoctlTo(r, at, e)
    BY <1>3 DEF fimc_v4l2_dqbuf, Ioctl, IoctlTo
  <2>2. r.d.queued - 1 \in 0..MaxBuffers /\ r.d.queued \in 0..MaxBuffers
    BY <1>1, <1>3, BufferCount DEF Devices
  <2>3. e \in Devices /\ e.queued = r.d.queued - 1 /\ Alike(r.d, e)
    <3>1. e = [r.d EXCEPT !.queued = r.d.queued - 1]
      OBVIOUS
    <3> HIDE DEF e
    <3>2. e \in Devices /\ e.queued = r.d.queued - 1
      BY <1>1, <2>2, <3>1 DEF Devices
    <3>3. QED
      BY <1>1, <3>1, <3>2, QueuedAlike
  <2> HIDE DEF e
  <2>4. /\ q \in Results /\ q.f = r.f
        /\ \/ r.ret = -1 /\ q = r
           \/ r.ret = 0 /\ q.ret = -1 /\ q.d = [r.d EXCEPT !.failed = @ \cup {at}]
           \/ r.ret = 0 /\ q.ret = 0 /\ q.d = e
    BY <2>1, <2>3, IoctlIs
  <2>5. CASE r.ret = -1 /\ q = r
    BY <1>1, <2>4, <2>5
  <2>6. CASE r.ret = 0 /\ q.ret = -1 /\ q.d = [r.d EXCEPT !.failed = @ \cup {at}]
    <3>1. Alike(r.d, q.d) /\ at \in q.d.failed
      BY <1>1, <2>6, FailedAlike
    <3>2. QED
      BY <2>4, <2>6, <3>1
  <2>7. CASE r.ret = 0 /\ q.ret = 0 /\ q.d = e
    BY <2>2, <2>3, <2>4, <2>7
  <2>8. QED
    BY <2>4, <2>5, <2>6, <2>7
<1>4. QED
  BY <1>2, <1>3

\* Queueing a buffer there is room for.
LEMMA QbufDoes ==
  ASSUME NEW r \in Results, NEW at \in Faults, r.ret = 0 => r.d.queued + 1 \in 0..MaxBuffers,
         NEW q, q = fimc_v4l2_qbuf(r, 0, at, 1)
  PROVE  /\ q \in Results /\ q.f = r.f /\ Alike(r.d, q.d)
         /\ \/ r.ret = -1 /\ q = r
            \/ r.ret = 0 /\ q.ret = -1 /\ at \in q.d.failed
            \/ r.ret = 0 /\ q.ret = 0 /\ q.d.queued = r.d.queued + 1
<1> DEFINE e == [r.d EXCEPT !.queued = @ + 1]
<1>1. r.d \in Devices /\ r.ret \in {0, -1} /\ Alike(r.d, r.d)
  BY DEF Results, Alike, Left0, Left
<1>2. q = IoctlTo(r, at, e)
  BY DEF fimc_v4l2_qbuf, Ioctl, IoctlTo
<1>3. Alike(r.d, e) /\ e.queued = r.d.queued + 1 /\ (r.ret = 0 => e \in Devices)
  <2>1. e = [r.d EXCEPT !.queued = r.d.queued + 1]
    OBVIOUS
  <2> HIDE DEF e
  <2>2. e.queued = r.d.queued + 1 /\ (r.ret = 0 => e \in Devices)
    BY <1>1, <2>1 DEF Devices
  <2>3. QED
    BY <1>1, <2>1, <2>2, QueuedAlike
<1> HIDE DEF e
<1>4. /\ q \in Results /\ q.f = r.f
      /\ \/ r.ret = -1 /\ q = r
         \/ r.ret = 0 /\ q.ret = -1 /\ q.d = [r.d EXCEPT !.failed = @ \cup {at}]
         \/ r.ret = 0 /\ q.ret = 0 /\ q.d = e
  BY <1>2, <1>3, IoctlIs
<1>5. CASE r.ret = 0 /\ q.ret = -1 /\ q.d = [r.d EXCEPT !.failed = @ \cup {at}]
  <2>1. Alike(r.d, q.d) /\ at \in q.d.failed
    BY <1>1, <1>5, FailedAlike
  <2>2. QED
    BY <1>4, <1>5, <2>1
<1>6. CASE r.ret = -1 /\ q = r
  BY <1>1, <1>4, <1>6
<1>7. CASE r.ret = 0 /\ q.ret = 0 /\ q.d = e
  BY <1>3, <1>4, <1>7
<1>8. QED
  BY <1>4, <1>5, <1>6, <1>7

LEMMA AlikeLeft ==
  ASSUME NEW d, NEW e, NEW g, Left0(d, e), Alike(e, g) \/ Left0(e, g)
  PROVE  Left0(d, g)
BY DEF Alike, Left0, Left

\* A frame, however it ends.
LEMMA FrameRuns ==
  ASSUME NEW r \in Results, Running(r.d), NEW q, q = Frame(r)
  PROVE  q \in Results /\ Running(q.d) /\ Left0(r.d, q.d)
<1> DEFINE t == fimc_v4l2_dqbuf(r, "dqbuf")
<1>1. {"dqbuf", "qbuf"} \subseteq Faults
  BY DEF Faults, FrameFaults
<1>2. q = fimc_v4l2_qbuf(t, 0, "qbuf", 1)
  BY DEF Frame
<1>3. t \in Results /\ Alike(r.d, t.d) /\ (t.ret = 0 => t.d.queued + 1 \in 0..MaxBuffers)
  BY <1>1, DqbufDoes
<1> HIDE DEF t
<1>4. q \in Results /\ Alike(t.d, q.d)
  BY <1>1, <1>2, <1>3, QbufDoes
<1>5. t.d \in Devices /\ q.d \in Devices
  BY <1>3, <1>4 DEF Results
<1>6. Running(t.d)
  BY <1>3, <1>5, AlikeKeeps
<1>7. Running(q.d)
  BY <1>4, <1>5, <1>6, AlikeKeeps
<1>8. Left0(r.d, t.d)
  BY <1>3 DEF Alike
<1>9. QED
  BY <1>4, <1>7, <1>8, AlikeLeft

\* One turn of the preview thread, with the restart of a device that delivers nothing.
LEMMA GetPreviewRuns ==
  ASSUME NEW d, Running(d), NEW f \in SUBSET Faults, NEW r, r = getPreview(d, f)
  PROVE  Running(r.d) /\ Left0(d, r.d)
<1>1. d \in Devices
  BY DEF Running, Sound, Steady
<1>2. CASE d.cameraStart /\ previewPoll(d, f)
  <2>1. r = Frame(Begin(d, f))
    BY <1>2 DEF getPreview
  <2>2. Begin(d, f) \in Results /\ Begin(d, f).d = d
    BY <1>1, BeginIs
  <2>3. QED
    BY <2>1, <2>2, FrameRuns
<1>3. CASE ~ (d.cameraStart /\ previewPoll(d, f))
  <2> DEFINE stop  == stopPreview(d, f)
             ign   == Ignoring(stop)
             probed == fimc_v4l2_querycap(ign, "probe")
             input == fimc_v4l2_enuminput(probed, "enuminput")
             again == startPreview(input.d, f)
  <2>1. r = IF probed.ret < 0 THEN probed
            ELSE IF input.ret = 0 THEN Fail(input)
            ELSE IF again.ret < 0 THEN Ignoring(again)
            ELSE Frame(again)
    BY <1>3 DEF getPreview
  <2>2. {"probe", "enuminput"} \subseteq Faults
    BY DEF Faults, OpenFaults
  <2>3. stop \in Results /\ Running(stop.d) /\ Left0(d, stop.d)
    BY StopPreviewStops, StoppedRuns
  <2> HIDE DEF stop
  <2>4. ign \in Results /\ ign.d = stop.d
    BY <2>3, IgnoringIs
  <2> HIDE DEF ign
  <2>5. Plain(ign, probed, "probe")
    BY <2>2, <2>4, PlainOnes
  <2>6. probed \in Results /\ Alike(ign.d, probed.d)
    BY <2>4, <2>5, PlainAlike
  <2>7. probed.d \in Devices
    BY <2>6 DEF Results
  <2>8. Running(probed.d) /\ Left0(d, probed.d)
    BY <2>3, <2>4, <2>6, <2>7, AlikeKeeps, AlikeLeft
  <2> HIDE DEF probed
  <2>9. Plain(probed, input, "enuminput")
    BY <2>2, <2>6, PlainOnes
  <2>10. input \in Results /\ Alike(probed.d, input.d)
    BY <2>6, <2>9, PlainAlike
  <2>11. input.d \in Devices
    BY <2>10 DEF Results
  <2>12. Running(input.d) /\ Left0(d, input.d)
    BY <2>8, <2>10, <2>11, AlikeKeeps, AlikeLeft
  <2> HIDE DEF input
  <2>13. again \in Results /\ Running(again.d) /\ Left0(input.d, again.d)
    BY <2>12, StartPreviewRuns
  <2> HIDE DEF again
  <2>14. Left0(d, again.d)
    BY <2>12, <2>13, AlikeLeft
  <2>15. CASE probed.ret < 0
    BY <2>1, <2>8, <2>15
  <2>16. CASE probed.ret >= 0 /\ input.ret = 0
    BY <2>1, <2>6, <2>10, <2>12, <2>16, IgnoringIs DEF Results
  <2>17. CASE probed.ret >= 0 /\ input.ret # 0 /\ again.ret < 0
    BY <2>1, <2>6, <2>13, <2>14, <2>17, IgnoringIs DEF Results
  <2>18. CASE probed.ret >= 0 /\ input.ret # 0 /\ again.ret >= 0
    <3>1. r = Frame(again)
      BY <2>1, <2>6, <2>13, <2>18 DEF Results
    <3>2. Running(r.d) /\ Left0(again.d, r.d)
      BY <2>13, <3>1, FrameRuns
    <3>3. QED
      BY <2>14, <3>2, AlikeLeft
  <2>19. QED
    BY <2>6, <2>13, <2>15, <2>16, <2>17, <2>18 DEF Results
<1>4. QED
  BY <1>2, <1>3

-----------------------------------------------------------------------------
(* A picture.                                                              *)

\* On the way to a picture: n buffers are queued on a node that does not stream yet.
Taking(r, n) ==
  /\ r \in Results /\ Sound(r.d) /\ Flagged(r.d)
  /\ r.ret = -1 => Stray0(r.d)
  /\ r.ret = 0 => r.d.stream = "off" /\ r.d.queued = n

LEMMA BusyStays ==
  ASSUME NEW d, Sound(d), Flagged(d), Stray0(d), Streams(d, 0), NEW e, e = [d EXCEPT !.busy = TRUE]
  PROVE  Sound(e) /\ Flagged(e) /\ Stray0(e) /\ e.capture = d.capture /\ Left0(d, e)
<1>1. d \in Devices /\ Steady(d) /\ Held(d)
  BY DEF Sound, Steady
<1>2. /\ e.init = d.init /\ e.id = d.id /\ e.fd = d.fd /\ e.fd2 = d.fd2 /\ e.failed = d.failed
      /\ e.leaked = d.leaked /\ e.recordStart = d.recordStart /\ e.stream2 = d.stream2
      /\ e.cameraStart = d.cameraStart /\ e.capture = d.capture /\ e.stream = d.stream
  BY <1>1 DEF Devices
<1>3. e \in Devices
  BY <1>1 DEF Devices
<1>4. \A K : Broke(d, K) => Broke(e, K)
  BY <1>2, BrokeStays
<1>5. Broke(d, Stranding0)
  BY DEF Stray0, Streams
<1>6. Broke(e, Stranding0 \cup Stranding2)
  BY <1>2, <1>5 DEF Broke
<1>7. Steady(e)
  BY <1>1, <1>2, <1>3, <1>4, <1>6 DEF Steady
<1>8. Held(e)
  BY <1>1, <1>2, <1>4 DEF Held
<1>9. Flagged(e) /\ Stray0(e) /\ Left0(d, e)
  BY <1>2, <1>4 DEF Flagged, Stray0, Left0, Left
<1>10. QED
  BY <1>2, <1>7, <1>8, <1>9 DEF Sound

\* A node that is stopped is given a format, unless it streams.
LEMMA FormatDoes ==
  ASSUME NEW r \in Results, AtRest(r.d), NEW at \in Faults, NEW q, q = fimc_v4l2_s_fmt_cap(r, at)
  PROVE  q \in Results /\ q.f = r.f /\ AtRest(q.d) /\ Left0(r.d, q.d)
<1> DEFINE i == Idle(r, 0)
<1>1. /\ i \in Results /\ i.f = r.f
      /\ \/ i = r
         \/ Streams(r.d, 0) /\ i.ret = -1 /\ i.d = [r.d EXCEPT !.busy = TRUE]
  BY IdleIs
<1>2. q = Ioctl(i, at, Same)
  BY DEF fimc_v4l2_s_fmt_cap
<1> HIDE DEF i
<1>3. AtRest(i.d) /\ Left0(r.d, i.d)
  <2>1. CASE i = r
    BY <2>1 DEF Left0, Left
  <2>2. CASE Streams(r.d, 0) /\ i.d = [r.d EXCEPT !.busy = TRUE]
    BY <2>2, BusyStays DEF AtRest
  <2>3. QED
    BY <1>1, <2>1, <2>2
<1>4. Plain(i, q, at)
  BY <1>1, <1>2, PlainIs
<1>5. q \in Results /\ q.f = i.f /\ Alike(i.d, q.d)
  BY <1>1, <1>4, PlainAlike
<1>6. q.d \in Devices
  BY <1>5 DEF Results
<1>7. QED
  BY <1>1, <1>3, <1>5, <1>6, AlikeKeeps, AlikeLeft

LEMMA ReqbufsDoes ==
  ASSUME NEW r \in Results, AtRest(r.d), NEW at \in Faults, NEW q, q = fimc_v4l2_reqbufs(r, 0, at)
  PROVE  Taking(q, 0) /\ q.f = r.f /\ ~ q.d.capture /\ Left0(r.d, q.d)
<1> DEFINE i == Idle(r, 0)
           e == [i.d EXCEPT !.queued = 0]
<1>1. /\ i \in Results /\ i.f = r.f
      /\ \/ i = r /\ (r.ret = 0 => ~ Streams(r.d, 0))
         \/ i.ret = -1 /\ Streams(r.d, 0) /\ i.d = [r.d EXCEPT !.busy = TRUE]
  BY IdleIs
<1>2. q = IoctlTo(i, at, e)
  BY DEF fimc_v4l2_reqbufs, Ioctl, IoctlTo
<1> HIDE DEF i
<1>3. AtRest(i.d) /\ Left0(r.d, i.d)
  <2>1. CASE i = r
    BY <2>1 DEF Left0, Left
  <2>2. CASE Streams(r.d, 0) /\ i.d = [r.d EXCEPT !.busy = TRUE]
    BY <2>2, BusyStays DEF AtRest
  <2>3. QED
    BY <1>1, <2>1, <2>2
<1>4. i.d \in Devices /\ i.ret \in {0, -1}
  BY <1>1 DEF Results
<1>5. Alike(i.d, e) /\ e \in Devices /\ e.queued = 0 /\ e.stream = i.d.stream
  <2>1. Alike(i.d, e)
    BY <1>4, QueuedAlike
  <2>2. e \in Devices /\ e.queued = 0 /\ e.stream = i.d.stream
    BY <1>4, BufferCount DEF Devices
  <2>3. QED
    BY <2>1, <2>2
<1> HIDE DEF e
<1>6. /\ q \in Results /\ q.f = i.f
      /\ \/ i.ret = -1 /\ q = i
         \/ i.ret = 0 /\ q.ret = -1 /\ q.d = [i.d EXCEPT !.failed = @ \cup {at}]
         \/ i.ret = 0 /\ q.ret = 0 /\ q.d = e
  BY <1>1, <1>2, <1>5, IoctlIs
<1>7. Alike(i.d, q.d)
  <2>1. CASE q = i
    BY <2>1 DEF Alike, Left0, Left
  <2>2. CASE q.d = [i.d EXCEPT !.failed = @ \cup {at}]
    BY <1>4, <2>2, FailedAlike
  <2>3. QED
    BY <1>5, <1>6, <2>1, <2>2
<1>8. q.d \in Devices
  BY <1>6 DEF Results
<1>9. AtRest(q.d) /\ Left0(r.d, q.d)
  BY <1>3, <1>7, <1>8, AlikeKeeps, AlikeLeft
<1>10. q.ret = 0 => q.d.stream = "off" /\ q.d.queued = 0
  BY <1>1, <1>5, <1>6 DEF Streams
<1>11. QED
  BY <1>1, <1>6, <1>9, <1>10 DEF Taking, AtRest

\* The buffer is mapped: nothing is lost, as none was mapped before.
LEMMA QuerybufDoes ==
  ASSUME NEW r, Taking(r, 0), ~ r.d.capture, NEW at \in Faults, NEW q, q = fimc_v4l2_querybuf(r, at)
  PROVE  Taking(q, 0) /\ q.f = r.f /\ Left0(r.d, q.d)
<1> DEFINE e == [Lose(r.d, "map", r.d.capture) EXCEPT !.capture = TRUE]
<1>1. q = IoctlTo(r, at, e)
  BY DEF fimc_v4l2_querybuf, Ioctl, IoctlTo
<1>2. /\ r \in Results /\ r.d \in Devices /\ r.ret \in {0, -1} /\ Sound(r.d) /\ Flagged(r.d)
      /\ (r.ret = -1 => Stray0(r.d)) /\ (r.ret = 0 => r.d.stream = "off" /\ r.d.queued = 0)
  BY DEF Taking, Results
<1>3. e = [r.d EXCEPT !.capture = TRUE]
  <2>1. Lose(r.d, "map", r.d.capture) = [r.d EXCEPT !.leaked = r.d.leaked]
    BY DEF Lose
  <2>2. [r.d EXCEPT !.leaked = r.d.leaked] = r.d
    BY <1>2 DEF Devices
  <2>3. QED
    BY <2>1, <2>2
<1> HIDE DEF e
<1>4. e \in Devices
  BY <1>2, <1>3 DEF Devices
<1>5. /\ e.init = r.d.init /\ e.id = r.d.id /\ e.fd = r.d.fd /\ e.fd2 = r.d.fd2 /\ e.failed = r.d.failed
      /\ e.leaked = r.d.leaked /\ e.recordStart = r.d.recordStart /\ e.stream2 = r.d.stream2
      /\ e.cameraStart = r.d.cameraStart /\ e.stream = r.d.stream /\ e.queued = r.d.queued /\ e.busy = r.d.busy
  BY <1>2, <1>3 DEF Devices
<1>6. \A K : Broke(r.d, K) => Broke(e, K)
  BY <1>5, BrokeStays
<1>7. Sound(e) /\ Flagged(e) /\ Left0(r.d, e)
  <2>1. Steady(r.d) /\ Held(r.d)
    BY <1>2 DEF Sound
  <2>2. Steady(e)
    BY <1>4, <1>5, <1>6, <2>1 DEF Steady
  <2>3. Held(e)
    BY <1>5, <1>6, <2>1 DEF Held
  <2>4. QED
    BY <1>2, <1>5, <2>2, <2>3 DEF Sound, Flagged, Left0, Left
<1>8. /\ q \in Results /\ q.f = r.f
      /\ \/ r.ret = -1 /\ q = r
         \/ r.ret = 0 /\ q.ret = -1 /\ q.d = [r.d EXCEPT !.failed = @ \cup {at}]
         \/ r.ret = 0 /\ q.ret = 0 /\ q.d = e
  BY <1>1, <1>2, <1>4, IoctlIs
<1>9. CASE q = r
  BY <1>8, <1>9 DEF Left0, Left
<1>10. CASE r.ret = 0 /\ q.ret = -1 /\ q.d = [r.d EXCEPT !.failed = @ \cup {at}]
  <2>1. Alike(r.d, q.d)
    BY <1>2, <1>10, FailedAlike
  <2>2. q.d \in Devices
    BY <1>8 DEF Results
  <2>3. Sound(q.d) /\ Flagged(q.d)
    BY <1>2, <2>1, <2>2, AlikeKeeps
  <2>4. Stray0(q.d)
    BY <1>2, <1>10, <2>1 DEF Alike, Stray0
  <2>5. QED
    BY <1>8, <1>10, <2>1, <2>3, <2>4 DEF Taking, Alike
<1>11. CASE r.ret = 0 /\ q.ret = 0 /\ q.d = e
  BY <1>2, <1>5, <1>7, <1>8, <1>11 DEF Taking
<1>12. QED
  BY <1>8, <1>9, <1>10, <1>11

\* Where a capture streams, its buffer is queued.
Prepared(r) ==
  /\ r \in Results /\ Sound(r.d) /\ Flagged(r.d)
  /\ r.ret = -1 => Stray0(r.d)
  /\ r.ret = 0 => r.d.queued > 0

LEMMA OnlyQueuedFails ==
  ASSUME NEW r, r \in Results, Sound(r.d), Flagged(r.d), Stray0(r.d) \/ r.d.stream = "off",
         NEW q \in Results, Alike(r.d, q.d)
  PROVE  Sound(q.d) /\ Flagged(q.d) /\ Stray0(q.d) /\ q.d.stream = r.d.stream /\ Left0(r.d, q.d)
<1>1. q.d \in Devices
  BY DEF Results
<1>2. Stray0(r.d)
  BY DEF Stray0
<1>3. QED
  BY <1>1, <1>2, AlikeKeeps DEF Alike

LEMMA StreamonDoes ==
  ASSUME NEW r, Taking(r, 1), NEW at \in Faults, NEW q, q = fimc_v4l2_streamon(r, 0, at, "capture")
  PROVE  Prepared(q) /\ q.f = r.f /\ Left0(r.d, q.d)
<1> DEFINE e == [r.d EXCEPT !.stream = "capture"]
<1>1. q = IoctlTo(r, at, e)
  BY DEF fimc_v4l2_streamon, Ioctl, IoctlTo
<1>2. /\ r \in Results /\ r.d \in Devices /\ r.ret \in {0, -1} /\ Sound(r.d) /\ Flagged(r.d)
      /\ (r.ret = -1 => Stray0(r.d)) /\ (r.ret = 0 => r.d.stream = "off" /\ r.d.queued = 1)
  BY DEF Taking, Results
<1>3. e \in Devices
  BY <1>2 DEF Devices
<1>4. /\ e.init = r.d.init /\ e.id = r.d.id /\ e.fd = r.d.fd /\ e.fd2 = r.d.fd2 /\ e.failed = r.d.failed
      /\ e.leaked = r.d.leaked /\ e.recordStart = r.d.recordStart /\ e.stream2 = r.d.stream2
      /\ e.cameraStart = r.d.cameraStart /\ e.queued = r.d.queued /\ e.busy = r.d.busy
  BY <1>2 DEF Devices
<1> HIDE DEF e
<1>5. \A K : Broke(r.d, K) => Broke(e, K)
  BY <1>4, BrokeStays
<1>6. Sound(e) /\ Flagged(e) /\ Left0(r.d, e)
  <2>1. Steady(r.d) /\ Held(r.d)
    BY <1>2 DEF Sound
  <2>2. Steady(e)
    BY <1>2, <1>3, <1>4, <1>5, <2>1 DEF Steady, Flagged
  <2>3. Held(e)
    BY <1>4, <1>5, <2>1 DEF Held
  <2>4. QED
    BY <1>2, <1>4, <2>2, <2>3 DEF Sound, Flagged, Left0, Left
<1>7. /\ q \in Results /\ q.f = r.f
      /\ \/ r.ret = -1 /\ q = r
         \/ r.ret = 0 /\ q.ret = -1 /\ q.d = [r.d EXCEPT !.failed = @ \cup {at}]
         \/ r.ret = 0 /\ q.ret = 0 /\ q.d = e
  BY <1>1, <1>2, <1>3, IoctlIs
<1>8. CASE r.ret = -1 /\ q = r
  BY <1>2, <1>7, <1>8 DEF Prepared, Left0, Left
<1>9. CASE r.ret = 0 /\ q.ret = -1 /\ q.d = [r.d EXCEPT !.failed = @ \cup {at}]
  <2>1. Alike(r.d, q.d)
    BY <1>2, <1>9, FailedAlike
  <2>2. Sound(q.d) /\ Flagged(q.d) /\ Stray0(q.d) /\ Left0(r.d, q.d)
    BY <1>2, <1>7, <1>9, <2>1, OnlyQueuedFails
  <2>3. QED
    BY <1>7, <1>9, <2>2 DEF Prepared
<1>10. CASE r.ret = 0 /\ q.ret = 0 /\ q.d = e
  <2>1. q.d.queued > 0
    BY <1>2, <1>4, <1>10
  <2>2. QED
    BY <1>6, <1>7, <1>10, <2>1 DEF Prepared
<1>11. QED
  BY <1>7, <1>8, <1>9, <1>10

LEMMA PrepareCaptureDoes ==
  ASSUME NEW d, AtRest(d), NEW f \in SUBSET Faults, NEW r, r = PrepareCapture(d, f)
  PROVE  Prepared(r) /\ r.f = f /\ Left0(d, r.d)
<1> DEFINE stop == stopPreview(d, f)
           ign  == Ignoring(stop)
           idle == fimc_v4l2_enum_fmt(ign, "shot")
           fmt  == fimc_v4l2_s_fmt_cap(idle, "shot")
           one  == fimc_v4l2_reqbufs(fmt, 0, "shot")
           map  == fimc_v4l2_querybuf(one, "shot")
           full == fimc_v4l2_qbuf(map, 0, "mapped", 1)
<1>1. r = fimc_v4l2_streamon(full, 0, "mapped", "capture")
  BY DEF PrepareCapture
<1>2. {"shot", "mapped"} \subseteq Faults
  BY DEF Faults, ShotFaults
<1>3. stop \in Results /\ stop.f = f /\ AtRest(stop.d) /\ Left0(d, stop.d)
  BY StoppedRuns, StopPreviewStops
<1> HIDE DEF stop
<1>4. ign \in Results /\ ign.d = stop.d /\ ign.f = f
  BY <1>3, IgnoringIs
<1> HIDE DEF ign
<1>5. Plain(ign, idle, "shot")
  BY <1>2, <1>4, PlainOnes
<1>6. idle \in Results /\ Alike(ign.d, idle.d) /\ idle.f = f
  BY <1>4, <1>5, PlainAlike
<1> HIDE DEF idle
<1>7. idle.d \in Devices
  BY <1>6 DEF Results
<1>8. AtRest(idle.d) /\ Left0(d, idle.d)
  BY <1>3, <1>4, <1>6, <1>7, AlikeKeeps, AlikeLeft
<1>9. fmt \in Results /\ fmt.f = f /\ AtRest(fmt.d) /\ Left0(idle.d, fmt.d)
  BY <1>2, <1>6, <1>8, FormatDoes
<1> HIDE DEF fmt
<1>10. Taking(one, 0) /\ one.f = f /\ ~ one.d.capture /\ Left0(fmt.d, one.d)
  BY <1>2, <1>9, ReqbufsDoes
<1> HIDE DEF one
<1>11. Taking(map, 0) /\ map.f = f /\ Left0(one.d, map.d)
  BY <1>2, <1>10, QuerybufDoes
<1> HIDE DEF map
<1>12. map \in Results /\ (map.ret = 0 => map.d.queued + 1 \in 0..MaxBuffers)
  BY <1>11, BufferCount DEF Taking
<1>13. /\ full \in Results /\ full.f = f /\ Alike(map.d, full.d)
       /\ \/ map.ret = -1 /\ full = map
          \/ map.ret = 0 /\ full.ret = -1
          \/ map.ret = 0 /\ full.ret = 0 /\ full.d.queued = map.d.queued + 1
  BY <1>2, <1>11, <1>12, QbufDoes
<1> HIDE DEF full
<1>14. Sound(map.d) /\ Flagged(map.d) /\ (Stray0(map.d) \/ map.d.stream = "off")
  BY <1>11, <1>12 DEF Taking, Results
<1>15. Sound(full.d) /\ Flagged(full.d) /\ Stray0(full.d) /\ full.d.stream = map.d.stream /\ Left0(map.d, full.d)
  BY <1>12, <1>13, <1>14, OnlyQueuedFails
<1>16. Taking(full, 1)
  <2>1. full.ret = 0 => full.d.queued = 1 /\ full.d.stream = "off"
    BY <1>11, <1>13, <1>15 DEF Taking
  <2>2. QED
    BY <1>13, <1>15, <2>1 DEF Taking
<1>17. Prepared(r) /\ r.f = f /\ Left0(full.d, r.d)
  BY <1>1, <1>2, <1>13, <1>16, StreamonDoes
<1>18. Left0(d, one.d)
  BY <1>8, <1>9, <1>10, AlikeLeft
<1>19. Left0(d, full.d)
  BY <1>11, <1>15, <1>18, AlikeLeft
<1>20. QED
  BY <1>17, <1>19, AlikeLeft

\* The shutter.
LEMMA SetSnapshotCmdShoots ==
  ASSUME NEW d, AtRest(d), NEW f \in SUBSET Faults, NEW r, r = setSnapshotCmd(d, f)
  PROVE  Shooting(r.d) /\ Left0(d, r.d)
<1>1. d \in Devices
  BY DEF AtRest, Sound, Steady
<1>2. CASE ~ d.fd
  <2>1. r.d = d
    BY <1>1, <1>2, BeginIs DEF setSnapshotCmd
  <2>2. QED
    BY <2>1 DEF Shooting, AtRest, Left0, Left
<1>3. CASE d.fd
  <2> DEFINE capt == PrepareCapture(d, f)
             sent == fimc_v4l2_s_ext_ctrl(capt, "shotlate")
  <2>1. r = fimc_v4l2_s_ctrl(sent, "shotlate")
    BY <1>3 DEF setSnapshotCmd
  <2>2. Prepared(capt) /\ Left0(d, capt.d)
    BY PrepareCaptureDoes
  <2>3. "shotlate" \in Faults
    BY DEF Faults, ShotFaults
  <2> HIDE DEF capt
  <2>4. Plain(capt, r, "shotlate")
    <3>1. Plain(capt, sent, "shotlate") /\ capt \in Results
      BY <2>2, <2>3, PlainOnes DEF Prepared
    <3>2. sent \in Results
      BY <3>1 DEF Plain
    <3> HIDE DEF sent
    <3>3. Plain(sent, r, "shotlate")
      BY <2>1, <2>3, <3>2, PlainOnes
    <3>4. QED
      BY <3>1, <3>3, PlainTwice
  <2>5. /\ capt \in Results /\ capt.ret \in {0, -1} /\ Sound(capt.d) /\ Flagged(capt.d)
        /\ capt.d.queued > 0 \/ Stray0(capt.d)
    BY <2>2 DEF Prepared, Results
  <2>6. r \in Results /\ Alike(capt.d, r.d) /\ r.d.queued = capt.d.queued
    BY <2>4, <2>5, PlainAlike
  <2>7. r.d \in Devices
    BY <2>6 DEF Results
  <2>8. Sound(r.d) /\ Flagged(r.d) /\ (Stray0(capt.d) => Stray0(r.d))
    BY <2>5, <2>6, <2>7, AlikeKeeps
  <2>9. Shooting(r.d)
    BY <2>5, <2>6, <2>8 DEF Shooting
  <2>10. QED
    BY <2>2, <2>6, <2>9, AlikeLeft
<1>4. QED
  BY <1>2, <1>3

\* A stream that ends.
Quiet(d) == Sound(d) /\ Flagged(d) /\ Stray0(d)

LEMMA Off0Is ==
  ASSUME NEW d, Sound(d), Flagged(d), NEW e, e = Off0(d)
  PROVE  Quiet(e) /\ Left0(d, e) /\ e.capture = d.capture
<1>1. d \in Devices /\ Steady(d) /\ Held(d)
  BY DEF Sound, Steady
<1>2. e = [d EXCEPT !.stream = "off", !.queued = 0]
  BY DEF Off0
<1>3. e \in Devices
  <2>1. 0 \in 0..MaxBuffers
    BY BufferCount
  <2>2. QED
    BY <1>1, <1>2, <2>1 DEF Devices
<1>4. /\ e.init = d.init /\ e.id = d.id /\ e.fd = d.fd /\ e.fd2 = d.fd2 /\ e.failed = d.failed
      /\ e.leaked = d.leaked /\ e.recordStart = d.recordStart /\ e.stream2 = d.stream2
      /\ e.cameraStart = d.cameraStart /\ e.stream = "off" /\ e.busy = d.busy /\ e.capture = d.capture
  BY <1>1, <1>2 DEF Devices
<1>5. \A K : Broke(d, K) => Broke(e, K)
  BY <1>4, BrokeStays
<1>6. Steady(e)
  BY <1>1, <1>3, <1>4, <1>5 DEF Steady, Flagged
<1>7. Held(e)
  BY <1>1, <1>4, <1>5 DEF Held
<1>8. QED
  BY <1>4, <1>6, <1>7 DEF Quiet, Sound, Flagged, Stray0, Left0, Left

LEMMA StreamoffDoes ==
  ASSUME NEW r \in Results, Sound(r.d), Flagged(r.d), r.ret = -1 => Stray0(r.d),
         NEW q, q = fimc_v4l2_streamoff(r, 0, "streamoff")
  PROVE  q \in Results /\ Quiet(q.d) /\ Left0(r.d, q.d)
<1> DEFINE e == Off0(r.d)
<1>1. q = IoctlTo(r, "streamoff", e)
  BY DEF fimc_v4l2_streamoff, Ioctl, IoctlTo
<1>2. "streamoff" \in Faults /\ "streamoff" \in Stranding0
  BY DEF Faults, Stranding0
<1>3. Quiet(e) /\ Left0(r.d, e)
  BY Off0Is
<1> HIDE DEF e
<1>4. e \in Devices /\ r.d \in Devices
  BY <1>3 DEF Quiet, Sound, Steady
<1>5. /\ q \in Results
      /\ \/ r.ret = -1 /\ q = r
         \/ r.ret = 0 /\ q.ret = -1 /\ q.d = [r.d EXCEPT !.failed = @ \cup {"streamoff"}]
         \/ r.ret = 0 /\ q.ret = 0 /\ q.d = e
  BY <1>1, <1>2, <1>4, IoctlIs
<1>6. CASE r.ret = -1 /\ q = r
  BY <1>5, <1>6 DEF Quiet, Left0, Left
<1>7. CASE q.d = [r.d EXCEPT !.failed = @ \cup {"streamoff"}]
  <2>1. Alike(r.d, q.d) /\ "streamoff" \in q.d.failed /\ q.d \in Devices
    BY <1>4, <1>5, <1>7, FailedAlike DEF Results
  <2>2. Sound(q.d) /\ Flagged(q.d)
    BY <2>1, AlikeKeeps
  <2>3. Stray0(q.d)
    BY <1>2, <2>1 DEF Stray0, Broke
  <2>4. QED
    BY <1>5, <2>1, <2>2, <2>3 DEF Quiet, Alike
<1>8. CASE q.d = e
  BY <1>3, <1>5, <1>8
<1>9. QED
  BY <1>5, <1>6, <1>7, <1>8

LEMMA EndSnapshotDoes ==
  ASSUME NEW d, Quiet(d), NEW ret, NEW e, e = endSnapshot(d, ret)
  PROVE  AtRest(e) /\ Left0(d, e)
<1>1. d \in Devices /\ Steady(d) /\ Held(d)
  BY DEF Quiet, Sound, Steady
<1>2. e = [d EXCEPT !.capture = FALSE]
  BY DEF endSnapshot
<1>3. e \in Devices
  BY <1>1, <1>2 DEF Devices
<1>4. /\ e.init = d.init /\ e.id = d.id /\ e.fd = d.fd /\ e.fd2 = d.fd2 /\ e.failed = d.failed
      /\ e.leaked = d.leaked /\ e.recordStart = d.recordStart /\ e.stream2 = d.stream2
      /\ e.cameraStart = d.cameraStart /\ e.stream = d.stream /\ e.busy = d.busy
  BY <1>1, <1>2 DEF Devices
<1>5. ~ e.capture
  BY <1>1, <1>2 DEF Devices
<1>6. \A K : Broke(d, K) => Broke(e, K)
  BY <1>4, BrokeStays
<1>7. Steady(e)
  BY <1>1, <1>3, <1>4, <1>6 DEF Steady
<1>8. Held(e)
  BY <1>1, <1>4, <1>6 DEF Held
<1>9. QED
  BY <1>4, <1>5, <1>6, <1>7, <1>8 DEF Quiet, AtRest, Sound, Flagged, Stray0, Left0, Left

\* The picture of the back camera, taken while it streams, and the end of it.
LEMMA GetJpegStops ==
  ASSUME NEW d, Shooting(d), NEW f \in SUBSET Faults, NEW r, r = getJpeg(d, f)
  PROVE  Quiet(r.d) /\ Left0(d, r.d)
<1> DEFINE b     == Begin(d, f)
           poll  == fimc_poll(b, "jpeg")
           taken == fimc_v4l2_dqbuf(poll, "jpeg")
           size  == fimc_v4l2_g_ctrl(taken, "jpeg")
           sized == fimc_v4l2_s_ctrl(size, "jpeg")
<1>1. r = fimc_v4l2_streamoff(sized, 0, "streamoff")
  BY DEF getJpeg
<1>2. "jpeg" \in Faults /\ "jpeg" \in Stranding0
  BY DEF Faults, ShotFaults, Stranding0
<1>3. d \in Devices /\ Sound(d) /\ Flagged(d) /\ (d.queued > 0 \/ Stray0(d))
  BY DEF Shooting, Sound, Steady
<1>4. b \in Results /\ b.d = d /\ b.ret = 0
  BY <1>3, BeginIs
<1> HIDE DEF b
<1>5. \A e : "jpeg" \in e.failed => Stray0(e)
  BY <1>2 DEF Stray0, Broke
<1>6. Plain(b, poll, "jpeg")
  BY <1>2, <1>4, PlainOnes
<1>7. /\ poll \in Results /\ Alike(d, poll.d) /\ poll.d.queued = d.queued
      /\ poll.ret = 0 \/ "jpeg" \in poll.d.failed
  BY <1>4, <1>6, PlainAlike
<1> HIDE DEF poll
<1>8. poll.d \in Devices
  BY <1>7 DEF Results
<1>9. Sound(poll.d) /\ Flagged(poll.d) /\ (Stray0(d) => Stray0(poll.d))
  BY <1>3, <1>7, <1>8, AlikeKeeps
<1>10. /\ taken \in Results /\ Alike(poll.d, taken.d)
       /\ \/ poll.ret = -1 /\ taken.ret = -1 /\ taken.d = poll.d
          \/ poll.ret = 0 /\ taken.ret = -1 /\ (poll.d.queued = 0 \/ "jpeg" \in taken.d.failed)
          \/ poll.ret = 0 /\ taken.ret = 0
  BY <1>2, <1>7, DqbufDoes
<1> HIDE DEF taken
<1>12. taken.d \in Devices
  BY <1>10 DEF Results
<1>13. Sound(taken.d) /\ Flagged(taken.d) /\ (Stray0(poll.d) => Stray0(taken.d))
  BY <1>9, <1>10, <1>12, AlikeKeeps
<1>14. taken.ret = -1 => Stray0(taken.d)
  <2>1. poll.d.queued = 0 => Stray0(poll.d)
    BY <1>3, <1>7, <1>9
  <2>2. poll.ret = -1 => Stray0(poll.d)
    BY <1>5, <1>7
  <2>3. QED
    BY <1>5, <1>10, <1>13, <2>1, <2>2
<1>15. Plain(taken, sized, "jpeg")
  <2>1. Plain(taken, size, "jpeg")
    BY <1>2, <1>10, PlainOnes
  <2>2. size \in Results
    BY <2>1 DEF Plain
  <2> HIDE DEF size
  <2>3. Plain(size, sized, "jpeg")
    BY <1>2, <2>2, PlainOnes
  <2>4. QED
    BY <2>1, <2>3, PlainTwice
<1>16. /\ sized \in Results /\ Alike(taken.d, sized.d)
       /\ sized = taken \/ "jpeg" \in sized.d.failed
  BY <1>10, <1>15, PlainAlike
<1> HIDE DEF sized
<1>17. sized.d \in Devices
  BY <1>16 DEF Results
<1>18. Sound(sized.d) /\ Flagged(sized.d) /\ (sized.ret = -1 => Stray0(sized.d))
  BY <1>5, <1>13, <1>14, <1>16, <1>17, AlikeKeeps
<1>19. Quiet(r.d) /\ Left0(sized.d, r.d)
  BY <1>1, <1>16, <1>18, StreamoffDoes
<1>20. Left0(d, poll.d)
  BY <1>7 DEF Alike
<1>21. Left0(d, sized.d)
  BY <1>10, <1>16, <1>20, AlikeLeft
<1>22. QED
  BY <1>19, <1>21, AlikeLeft

\* The picture of the front camera.
LEMMA GetSnapshotStops ==
  ASSUME NEW d, AtRest(d), NEW f \in SUBSET Faults, NEW r, r = getSnapshotAndJpeg(d, f)
  PROVE  Quiet(r.d) /\ Left0(d, r.d)
<1>1. d \in Devices /\ Quiet(d) /\ Left0(d, d)
  BY DEF AtRest, Quiet, Sound, Steady, Left0, Left
<1>2. CASE ~ d.fd
  <2>1. r.d = d
    BY <1>1, <1>2, BeginIs DEF getSnapshotAndJpeg
  <2>2. QED
    BY <1>1, <2>1
<1>3. CASE d.fd
  <2> DEFINE capt == PrepareCapture(d, f)
             dq   == fimc_v4l2_dqbuf(capt, "jpeg")
             ign  == Ignoring(dq)
             off  == fimc_v4l2_streamoff(ign, 0, "streamoff")
             done == Ignoring(off)
  <2>1. r = IF capt.ret < 0 THEN capt ELSE Ioctl(done, "encode", Same)
    BY <1>3 DEF getSnapshotAndJpeg
  <2>2. {"jpeg", "encode"} \subseteq Faults
    BY DEF Faults, ShotFaults
  <2>3. Prepared(capt) /\ Left0(d, capt.d)
    BY PrepareCaptureDoes
  <2> HIDE DEF capt
  <2>4. capt \in Results /\ capt.ret \in {0, -1} /\ Sound(capt.d) /\ Flagged(capt.d)
    BY <2>3 DEF Prepared, Results
  <2>5. CASE capt.ret = -1
    BY <2>1, <2>3, <2>4, <2>5 DEF Prepared, Quiet
  <2>6. CASE capt.ret = 0
    <3>1. dq \in Results /\ Alike(capt.d, dq.d)
      BY <2>2, <2>4, DqbufDoes
    <3> HIDE DEF dq
    <3>2. dq.d \in Devices
      BY <3>1 DEF Results
    <3>3. Sound(dq.d) /\ Flagged(dq.d)
      BY <2>4, <3>1, <3>2, AlikeKeeps
    <3>4. ign \in Results /\ ign.d = dq.d /\ ign.ret = 0
      BY <3>1, IgnoringIs
    <3> HIDE DEF ign
    <3>5. off \in Results /\ Quiet(off.d) /\ Left0(ign.d, off.d)
      BY <3>3, <3>4, StreamoffDoes
    <3> HIDE DEF off
    <3>6. done \in Results /\ done.d = off.d
      BY <3>5, IgnoringIs
    <3> HIDE DEF done
    <3>7. r = Ioctl(done, "encode", Same)
      BY <2>1, <2>6
    <3>8. Plain(done, r, "encode")
      BY <2>2, <3>6, <3>7, PlainIs
    <3>9. r \in Results /\ Alike(off.d, r.d)
      BY <3>6, <3>8, PlainAlike
    <3>10. r.d \in Devices
      BY <3>9 DEF Results
    <3>11. Quiet(r.d)
      BY <3>5, <3>9, <3>10, AlikeKeeps DEF Quiet
    <3>12. Left0(d, dq.d)
      BY <2>3, <3>1, AlikeLeft
    <3>13. Left0(d, off.d)
      BY <3>4, <3>5, <3>12, AlikeLeft
    <3>14. QED
      BY <3>9, <3>11, <3>13, AlikeLeft
  <2>7. QED
    BY <2>4, <2>5, <2>6
<1>4. QED
  BY <1>2, <1>3

-----------------------------------------------------------------------------
(* Node 2.                                                                 *)

\* What a method of node 2 leaves alone keeps node 0 as it was.
LEMMA Left2Keeps ==
  ASSUME NEW d, NEW e, Left2(d, e)
  PROVE  /\ Held(d) => Held(e)
         /\ Flagged(d) => Flagged(e)
         /\ Stray0(d) => Stray0(e)
         /\ \A K : Broke(d, K) => Broke(e, K)
<1>1. /\ e.init = d.init /\ e.fd = d.fd /\ e.fd2 = d.fd2 /\ d.failed \subseteq e.failed
      /\ e.cameraStart = d.cameraStart /\ e.stream = d.stream
  BY DEF Left2, Left
<1>2. \A K : Broke(d, K) => Broke(e, K)
  BY <1>1, BrokeStays
<1>3. QED
  BY <1>1, <1>2 DEF Held, Flagged, Stray0

LEMMA Left2Modes ==
  ASSUME NEW d, NEW e, Left2(d, e), Sound(d) => Sound(e)
  PROVE  (Running(d) => Running(e)) /\ (AtRest(d) => AtRest(e))
<1>1. e.cameraStart = d.cameraStart /\ e.capture = d.capture
  BY DEF Left2
<1>2. QED
  BY <1>1, Left2Keeps DEF Running, AtRest

LEMMA Left2Of ==
  ASSUME NEW d \in Devices, NEW e,
         \/ \E at : e = [d EXCEPT !.failed = @ \cup {at}]
         \/ e = [d EXCEPT !.busy = TRUE]
         \/ e = [d EXCEPT !.stream2 = TRUE]
         \/ e = [d EXCEPT !.stream2 = FALSE]
         \/ e = [d EXCEPT !.recordStart = TRUE]
         \/ e = [d EXCEPT !.recordStart = FALSE]
  PROVE  Left2(d, e)
BY DEF Left2, Left, Devices

LEMMA Left2Twice == ASSUME NEW d, NEW e, NEW g, Left2(d, e), Left2(e, g) PROVE Left2(d, g)
BY DEF Left2, Left

LEMMA Node2Sound ==
  ASSUME NEW d, Sound(d), NEW e \in Devices, Left2(d, e),
         e.recordStart => e.stream2 \/ "caf" \in e.failed,
         e.stream2 => e.recordStart \/ Broke(e, Stranding2),
         e.stream2 => e.fd2 \/ e.leaked # {},
         e.busy => d.busy \/ Broke(e, Stranding0 \cup Stranding2)
  PROVE  Sound(e)
<1>1. Steady(d) /\ Held(d)
  BY DEF Sound
<1>2. /\ e.init = d.init /\ e.fd = d.fd /\ e.fd2 = d.fd2 /\ d.failed \subseteq e.failed
      /\ e.leaked = d.leaked /\ e.cameraStart = d.cameraStart /\ e.stream = d.stream
  BY DEF Left2, Left
<1>3. \A K : Broke(d, K) => Broke(e, K)
  BY <1>2, BrokeStays
<1>4. Steady(e)
  BY <1>1, <1>2, <1>3 DEF Steady
<1>5. Held(e)
  BY <1>1, Left2Keeps
<1>6. QED
  BY <1>4, <1>5 DEF Sound

\* startRecord() by someone who is not recording.
LEMMA StartRecordDoes ==
  ASSUME NEW d, Sound(d), Stray2(d), NEW f \in SUBSET Faults, NEW r, r = startRecord(d, f)
  PROVE  r \in Results /\ Sound(r.d) /\ Left2(d, r.d) /\ (r.ret = -1 => Stray2(r.d))
<1>1. d \in Devices /\ Steady(d) /\ Left2(d, d)
  BY DEF Sound, Steady, Left2, Left
<1>2. CASE d.recordStart
  BY <1>1, <1>2, BeginIs DEF startRecord
<1>3. CASE ~ d.recordStart /\ ~ d.fd2
  BY <1>1, <1>3, BeginIs DEF startRecord
<1>4. CASE ~ d.recordStart /\ d.fd2
  <2> DEFINE b    == Begin(d, f)
             bufs == Buffers(b, 2, "setup2")
             full == fimc_v4l2_qbuf(bufs, 2, "setup2", MaxBuffers)
             dt   == [full.d EXCEPT !.stream2 = TRUE]
             strm == fimc_v4l2_streamon(full, 2, "setup2", "record")
             poll == fimc_poll(strm, "late2")
             on   == fimc_v4l2_s_ctrl(poll, "late2")
             dr   == [on.d EXCEPT !.recordStart = TRUE]
             ds   == [d EXCEPT !.stream2 = TRUE]
             Out(q) == q.ret = -1 /\ Sound(q.d) /\ Left2(d, q.d) /\ Stray2(q.d)
  <2>1. r = ThenTo(on, dr)
    BY <1>4 DEF startRecord, Then, ThenTo
  <2>2. {"setup2", "late2"} \subseteq Faults /\ "late2" \in Stranding2
    BY DEF Faults, RecFaults, Stranding2
  <2>3. b \in Results /\ b.d = d /\ b.ret = 0
    BY <1>1, BeginIs
  <2> HIDE DEF b
  <2>4. /\ bufs \in Results
        /\ \/ bufs.ret = -1 /\ Streams(d, 2) /\ bufs.d = [d EXCEPT !.busy = TRUE]
           \/ bufs.ret = -1 /\ bufs.d = [d EXCEPT !.failed = @ \cup {"setup2"}]
           \/ bufs.ret = 0 /\ ~ Streams(d, 2) /\ bufs.d = d
    <3>1. bufs \in Results /\ Buffering(d, 2, "setup2", bufs)
      BY <2>2, <2>3, BuffersDo
    <3>2. QED
      BY <3>1 DEF Buffering
  <2> HIDE DEF bufs
  <2>5. ASSUME NEW e, NEW at, e = [d EXCEPT !.failed = @ \cup {at}], e \in Devices
        PROVE  Sound(e) /\ Left2(d, e) /\ Stray2(e)
    <3>1. Alike(d, e)
      BY <1>1, <2>5, FailedAlike
    <3>2. Left2(d, e)
      BY <1>1, <2>5, Left2Of
    <3>3. QED
      BY <2>5, <3>1, <3>2, AlikeKeeps
  <2>6. Out(bufs) \/ (bufs.ret = 0 /\ bufs.d = d)
    <3>1. CASE bufs.ret = -1 /\ Streams(d, 2) /\ bufs.d = [d EXCEPT !.busy = TRUE]
      <4> DEFINE e == bufs.d
      <4>1. e \in Devices /\ Left2(d, e)
        BY <1>1, <2>4, <3>1, Left2Of DEF Results
      <4>2. e.recordStart = d.recordStart /\ e.stream2 = d.stream2 /\ e.failed = d.failed
        BY <1>1, <3>1 DEF Devices
      <4> HIDE DEF e
      <4>3. d.stream2 /\ Broke(d, Stranding2) /\ (d.fd2 \/ d.leaked # {})
        BY <1>1, <1>4, <3>1 DEF Steady, Streams
      <4>4. Broke(e, Stranding2) /\ Broke(e, Stranding0 \cup Stranding2)
        BY <4>2, <4>3 DEF Broke
      <4>5. Sound(e)
        BY <1>1, <1>4, <4>1, <4>2, <4>4, Node2Sound DEF Left2, Left
      <4>6. Stray2(e)
        BY <4>2, <4>4 DEF Stray2, Broke
      <4>7. QED
        BY <3>1, <4>1, <4>5, <4>6 DEF e
    <3>2. CASE bufs.ret = -1 /\ bufs.d = [d EXCEPT !.failed = @ \cup {"setup2"}]
      BY <2>4, <2>5, <3>2 DEF Results
    <3>3. QED
      BY <2>4, <3>1, <3>2
  <2>7. Plain(bufs, full, "setup2")
    <3>1. full = Ioctl(bufs, "setup2", Same)
      BY DEF fimc_v4l2_qbuf, Ioctl, Same
    <3>2. QED
      BY <2>2, <2>4, <3>1, PlainIs
  <2> HIDE DEF full
  <2>8. full \in Results /\ (Out(full) \/ (full.ret = 0 /\ full.d = d))
    <3>1. CASE full = bufs
      BY <2>4, <2>6, <3>1
    <3>2. CASE bufs.ret = 0 /\ full.ret = -1 /\ full.d = [bufs.d EXCEPT !.failed = @ \cup {"setup2"}]
      <4>1. full \in Results /\ full.d \in Devices /\ bufs.d = d
        BY <2>6, <2>7, <3>2 DEF Plain, Results
      <4>2. QED
        BY <2>5, <3>2, <4>1
    <3>3. QED
      BY <2>7, <3>1, <3>2 DEF Plain
  <2>9. strm = IoctlTo(full, "setup2", dt)
    BY DEF fimc_v4l2_streamon, Ioctl, IoctlTo
  <2>10. ds \in Devices /\ (full.ret = 0 => dt = ds)
    <3>1. ds \in Devices
      BY <1>1 DEF Devices
    <3>2. full.ret = 0 => full.d = d
      BY <2>8
    <3>3. QED
      BY <3>1, <3>2
  <2>14. Left2(d, ds) /\ ds.stream2 /\ ~ ds.recordStart /\ ds.fd2 /\ ds.busy = d.busy
    BY <1>1, <1>4, Left2Of DEF Devices
  <2> HIDE DEF dt, ds
  <2>11. /\ strm \in Results
         /\ \/ full.ret = -1 /\ strm = full
            \/ full.ret = 0 /\ strm.ret = -1 /\ strm.d = [full.d EXCEPT !.failed = @ \cup {"setup2"}]
            \/ full.ret = 0 /\ strm.ret = 0 /\ strm.d = dt
    BY <2>2, <2>8, <2>9, <2>10, IoctlIs
  <2> HIDE DEF strm
  <2>12. Out(strm) \/ (strm.ret = 0 /\ strm.d = ds)
    <3>1. CASE full.ret = -1 /\ strm = full
      BY <2>8, <3>1
    <3>2. CASE full.ret = 0 /\ strm.ret = -1 /\ strm.d = [full.d EXCEPT !.failed = @ \cup {"setup2"}]
      BY <2>5, <2>8, <2>11, <3>2 DEF Results
    <3>3. CASE full.ret = 0 /\ strm.ret = 0 /\ strm.d = dt
      BY <2>10, <3>3
    <3>4. QED
      BY <2>11, <3>1, <3>2, <3>3
  <2>13. Plain(strm, on, "late2")
    <3>1. Plain(strm, poll, "late2")
      BY <2>2, <2>11, PlainOnes
    <3>2. poll \in Results
      BY <3>1 DEF Plain
    <3> HIDE DEF poll
    <3>3. Plain(poll, on, "late2")
      BY <2>2, <3>2, PlainOnes
    <3>4. QED
      BY <3>1, <3>3, PlainTwice
  <2> HIDE DEF on
  <2>15. on \in Results /\ (Out(on) \/ (on.ret = 0 /\ on.d = ds))
    <3>1. CASE on = strm
      BY <2>11, <2>12, <3>1
    <3>2. CASE strm.ret = 0 /\ on.ret = -1 /\ on.d = [strm.d EXCEPT !.failed = @ \cup {"late2"}]
      <4> DEFINE e == on.d
      <4>1. on \in Results /\ e \in Devices /\ e = [ds EXCEPT !.failed = @ \cup {"late2"}]
        BY <2>12, <2>13, <3>2 DEF Plain, Results
      <4> HIDE DEF e
      <4>2. Alike(ds, e) /\ "late2" \in e.failed /\ Left2(ds, e)
        BY <2>10, <4>1, FailedAlike, Left2Of
      <4>3. Left2(d, e)
        BY <2>14, <4>2, Left2Twice
      <4>4. e.fd2 /\ e.busy = d.busy /\ ~ e.recordStart
        BY <2>14, <4>2 DEF Alike, Left0, Left
      <4>5. Broke(e, Stranding2) /\ Stray2(e)
        BY <2>2, <4>2 DEF Stray2, Broke
      <4>6. Sound(e)
        BY <4>1, <4>3, <4>4, <4>5, Node2Sound
      <4>7. QED
        BY <3>2, <4>1, <4>3, <4>5, <4>6 DEF e
    <3>3. QED
      BY <2>13, <3>1, <3>2 DEF Plain
  <2>16. on.d \in Devices /\ dr \in Devices
    BY <2>15 DEF Results, Devices
  <2>17. /\ r \in Results /\ r.ret = on.ret
         /\ (on.ret = -1 /\ r = on) \/ (on.ret = 0 /\ r.d = dr)
    BY <2>1, <2>15, <2>16, ThenIs
  <2>18. CASE on.ret = -1
    BY <2>15, <2>17, <2>18
  <2>19. CASE on.ret = 0
    <3>1. dr = [ds EXCEPT !.recordStart = TRUE]
      <4>1. on.d = ds
        BY <2>15, <2>19
      <4>2. QED
        BY <4>1
    <3> HIDE DEF dr
    <3>2. Left2(ds, dr) /\ dr.recordStart /\ dr.stream2 = ds.stream2 /\ dr.fd2 = ds.fd2 /\ dr.busy = ds.busy
      BY <2>10, <3>1, Left2Of DEF Devices
    <3>3. Left2(d, dr)
      BY <2>14, <3>2, Left2Twice
    <3>4. Sound(dr)
      BY <2>14, <2>16, <3>2, <3>3, Node2Sound
    <3>5. QED
      BY <2>17, <2>19, <3>3, <3>4
  <2>20. QED
    BY <2>15, <2>18, <2>19 DEF Results
<1>5. QED
  BY <1>2, <1>3, <1>4

\* What stopRecord() makes of a device.
Ending(d, q) ==
  /\ Sound(q.d) /\ Left2(d, q.d) /\ (q.ret = 0 => ~ q.d.stream2)
  /\ q.d.recordStart => "caf" \in q.d.failed

LEMMA EndingFails ==
  ASSUME NEW d, NEW q \in Results, Ending(d, q), NEW at, NEW s, Plain(q, s, at)
  PROVE  Ending(d, s)
<1>1. s \in Results /\ Alike(q.d, s.d) /\ s.d.queued = q.d.queued /\ (s = q \/ s.ret = -1)
  BY PlainAlike
<1>2. s.d \in Devices
  BY <1>1 DEF Results
<1>3. Sound(s.d) /\ (s.d.recordStart => "caf" \in s.d.failed)
  BY <1>1, <1>2, AlikeKeeps DEF Ending, Alike, Left0, Left
<1>4. Left2(d, s.d)
  BY <1>1 DEF Ending, Alike, Left0, Left2, Left
<1>5. QED
  BY <1>1, <1>3, <1>4 DEF Ending

LEMMA StopRecordEnds ==
  ASSUME NEW d, Sound(d), d.recordStart, d.fd2, NEW f \in SUBSET Faults, NEW r, r = stopRecord(d, f)
  PROVE  r \in Results /\ Ending(d, r)
<1> DEFINE b   == Begin(d, f)
           caf == IF d.id = "back" THEN fimc_v4l2_s_ctrl(b, "caf") ELSE b
           dr  == [caf.d EXCEPT !.recordStart = FALSE]
           off == Then(caf, LAMBDA x : [x EXCEPT !.recordStart = FALSE])
           st  == fimc_v4l2_streamoff(off, 2, "streamoff2")
           d1  == [d EXCEPT !.recordStart = FALSE]
           d2  == [off.d EXCEPT !.stream2 = FALSE]
<1>1. r = fimc_v4l2_s_ctrl(st, "tail2")
  BY DEF stopRecord
<1>2. off = ThenTo(caf, dr) /\ st = IoctlTo(off, "streamoff2", d2)
  BY DEF Then, ThenTo, fimc_v4l2_streamoff, Ioctl, IoctlTo, Off2
<1>3. {"caf", "streamoff2", "tail2"} \subseteq Faults /\ "streamoff2" \in Stranding2
  BY DEF Faults, RecFaults, Stranding2
<1>4. d \in Devices /\ (d.stream2 => d.fd2 \/ d.leaked # {})
  BY DEF Sound, Steady
<1>5. b \in Results /\ b.d = d /\ b.ret = 0
  BY <1>4, BeginIs
<1> HIDE DEF b
<1>6. /\ caf \in Results
      /\ \/ caf.ret = 0 /\ caf.d = d
         \/ caf.ret = -1 /\ caf.d = [d EXCEPT !.failed = @ \cup {"caf"}]
  <2>1. Plain(b, fimc_v4l2_s_ctrl(b, "caf"), "caf")
    BY <1>3, <1>5, PlainOnes
  <2>2. Plain(b, caf, "caf")
    BY <1>5, <2>1 DEF Plain
  <2> HIDE DEF caf
  <2>3. QED
    BY <1>5, <2>2 DEF Plain
<1> HIDE DEF caf
<1>7. dr \in Devices /\ (caf.ret = 0 => dr = d1)
  <2>1. dr \in Devices
    BY <1>6 DEF Results, Devices
  <2>2. caf.ret = 0 => caf.d = d
    BY <1>6
  <2>3. QED
    BY <2>1, <2>2
<1> HIDE DEF dr
<1>8. /\ off \in Results /\ off.ret = caf.ret
      /\ (caf.ret = -1 /\ off = caf) \/ (caf.ret = 0 /\ off.d = dr)
  BY <1>2, <1>6, <1>7, ThenIs
<1> HIDE DEF off
<1>9. d2 \in Devices /\ off.d \in Devices
  BY <1>8 DEF Results, Devices
<1>10. /\ Left2(d, d1) /\ d1.stream2 = d.stream2 /\ ~ d1.recordStart /\ d1.busy = d.busy /\ d1 \in Devices
       /\ d1.failed = d.failed
  BY <1>4, Left2Of DEF Devices
<1> HIDE DEF d1
<1>11. off.ret = 0 => /\ Left2(d, d2) /\ ~ d2.stream2 /\ ~ d2.recordStart /\ d2.busy = d.busy
  <2>1. ASSUME off.ret = 0 PROVE d2 = [d1 EXCEPT !.stream2 = FALSE]
    <3>1. off.d = d1
      BY <1>7, <1>8, <2>1
    <3>2. QED
      BY <3>1
  <2> HIDE DEF d2
  <2>2. ASSUME off.ret = 0 PROVE Left2(d1, d2) /\ ~ d2.stream2 /\ ~ d2.recordStart /\ d2.busy = d.busy
    BY <1>10, <2>1, <2>2, Left2Of DEF Devices
  <2>3. QED
    BY <1>10, <2>2, Left2Twice
<1> HIDE DEF d2
<1>12. /\ st \in Results
       /\ \/ off.ret = -1 /\ st = off
          \/ off.ret = 0 /\ st.ret = -1 /\ st.d = [off.d EXCEPT !.failed = @ \cup {"streamoff2"}]
          \/ off.ret = 0 /\ st.ret = 0 /\ st.d = d2
  BY <1>2, <1>3, <1>8, <1>9, IoctlIs
<1> HIDE DEF st
<1>13. Ending(d, st)
  <2>1. CASE off.ret = -1 /\ st = off
    <3> DEFINE e == st.d
    <3>1. e = [d EXCEPT !.failed = @ \cup {"caf"}] /\ e \in Devices /\ st.ret = -1
      BY <1>6, <1>8, <1>9, <2>1
    <3> HIDE DEF e
    <3>2. Alike(d, e) /\ "caf" \in e.failed /\ Left2(d, e)
      BY <1>4, <3>1, FailedAlike, Left2Of
    <3>3. Sound(e)
      BY <3>1, <3>2, AlikeKeeps
    <3>4. QED
      BY <3>1, <3>2, <3>3 DEF e, Ending
  <2>2. CASE off.ret = 0 /\ st.ret = -1 /\ st.d = [off.d EXCEPT !.failed = @ \cup {"streamoff2"}]
    <3> DEFINE e == st.d
    <3>1. e = [d1 EXCEPT !.failed = @ \cup {"streamoff2"}] /\ e \in Devices
      BY <1>7, <1>8, <1>12, <2>2 DEF Results
    <3> HIDE DEF e
    <3>2. Alike(d1, e) /\ "streamoff2" \in e.failed /\ Left2(d1, e)
      BY <1>10, <3>1, FailedAlike, Left2Of
    <3>3. Left2(d, e)
      BY <1>10, <3>2, Left2Twice
    <3>4. /\ ~ e.recordStart /\ e.stream2 = d.stream2 /\ e.busy = d.busy /\ e.fd2 = d.fd2 /\ e.leaked = d.leaked
          /\ Broke(e, Stranding2)
      BY <1>3, <1>10, <3>2, <3>3 DEF Alike, Left0, Left2, Left, Broke
    <3>5. Sound(e)
      BY <1>4, <3>1, <3>3, <3>4, Node2Sound
    <3>6. QED
      BY <2>2, <3>3, <3>4, <3>5 DEF e, Ending
  <2>3. CASE off.ret = 0 /\ st.ret = 0 /\ st.d = d2
    <3>1. Sound(d2)
      BY <1>9, <1>11, <2>3, Node2Sound
    <3>2. QED
      BY <1>11, <2>3, <3>1 DEF Ending
  <2>4. QED
    BY <1>12, <2>1, <2>2, <2>3
<1>14. Plain(st, r, "tail2")
  BY <1>1, <1>3, <1>12, PlainOnes
<1>15. QED
  BY <1>12, <1>13, <1>14, EndingFails DEF Plain

LEMMA StopRecordDoes ==
  ASSUME NEW d, Sound(d), NEW f \in SUBSET Faults, NEW r, r = stopRecord(d, f)
  PROVE  /\ r \in Results /\ Sound(r.d) /\ Left2(d, r.d) /\ (r.ret = 0 => Stray2(r.d))
         /\ r.d.recordStart => ~ d.fd2 \/ "caf" \in r.d.failed
<1>1. d \in Devices /\ Steady(d) /\ Left2(d, d)
  BY DEF Sound, Steady, Left2, Left
<1>2. CASE ~ d.recordStart
  <2>1. r \in Results /\ r.d = d
    BY <1>1, <1>2, BeginIs DEF stopRecord
  <2>2. Stray2(d)
    BY <1>1, <1>2 DEF Steady, Stray2, Broke
  <2>3. QED
    BY <1>1, <1>2, <2>1, <2>2
<1>3. CASE d.recordStart /\ ~ d.fd2
  BY <1>1, <1>3, BeginIs DEF stopRecord
<1>4. CASE d.recordStart /\ d.fd2
  BY <1>4, StopRecordEnds DEF Ending, Stray2
<1>5. QED
  BY <1>2, <1>3, <1>4

\* DeinitCamera() closes the nodes, whatever stopRecord() could not do.
LEMMA DeinitCameraDoes ==
  ASSUME NEW d, AtRest(d), NEW f \in SUBSET Faults, NEW e, e = DeinitCamera(d, f)
  PROVE  AtRest(e) /\ ~ e.init /\ Stray2(e)
<1>1. Sound(d) /\ Steady(d) /\ Held(d)
  BY DEF AtRest, Sound
<1>2. CASE ~ d.init
  <2>1. e = d
    BY <1>2 DEF DeinitCamera
  <2>2. Stray2(d)
    BY <1>1, <1>2 DEF Steady, Held, Stray2, Broke
  <2>3. QED
    BY <1>2, <2>1, <2>2
<1>3. CASE d.init
  <2> DEFINE s == stopRecord(d, f).d
             c == Close0(s)
             g == Close2(c)
  <2>1. e = [g EXCEPT !.init = FALSE]
    BY <1>3 DEF DeinitCamera
  <2>2. Sound(s) /\ Left2(d, s) /\ (s.recordStart => "caf" \in s.failed)
    BY <1>1, <1>3, StopRecordDoes DEF Held
  <2> HIDE DEF s
  <2>3. AtRest(s)
    BY <2>2, Left2Modes
  <2>4. s \in Devices /\ Steady(s) /\ ~ s.capture /\ Flagged(s) /\ Stray0(s)
    BY <2>3 DEF AtRest, Sound, Steady
  <2>5. /\ c \in Devices /\ ~ c.fd /\ c.fd2 = s.fd2 /\ c.leaked = s.leaked /\ c.cameraStart = s.cameraStart
        /\ c.recordStart = s.recordStart /\ c.capture = s.capture /\ c.stream2 = s.stream2
        /\ c.failed = s.failed /\ c.busy = s.busy /\ c.stream \in {s.stream, "off"}
    <3>1. CASE "fd" \in s.leaked
      <4>1. c = [s EXCEPT !.fd = FALSE]
        BY <3>1 DEF Close0
      <4>2. QED
        BY <2>4, <4>1 DEF Devices
    <3>2. CASE "fd" \notin s.leaked
      <4>1. c = [s EXCEPT !.stream = "off", !.queued = 0, !.fd = FALSE]
        BY <3>2 DEF Close0, Off0
      <4>2. 0 \in 0..MaxBuffers
        BY BufferCount
      <4>3. QED
        BY <2>4, <4>1, <4>2 DEF Devices
    <3>3. QED
      BY <3>1, <3>2
  <2> HIDE DEF c
  <2>6. /\ g \in Devices /\ ~ g.fd /\ ~ g.fd2 /\ g.leaked = c.leaked /\ g.cameraStart = c.cameraStart
        /\ g.recordStart = c.recordStart /\ g.capture = c.capture /\ g.failed = c.failed /\ g.busy = c.busy
        /\ g.stream = c.stream /\ (g.stream2 => c.stream2 /\ "fd2" \in c.leaked)
    <3>1. c.stream2 \in BOOLEAN /\ ("fd2" \in c.leaked) \in BOOLEAN
      BY <2>5 DEF Devices
    <3>2. g = [c EXCEPT !.fd2 = FALSE, !.stream2 = c.stream2 /\ "fd2" \in c.leaked]
      BY DEF Close2
    <3>3. QED
      BY <2>5, <3>1, <3>2 DEF Devices
  <2> HIDE DEF g
  <2>7. /\ e \in Devices /\ ~ e.init /\ ~ e.fd /\ ~ e.fd2 /\ e.leaked = g.leaked /\ e.cameraStart = g.cameraStart
        /\ e.recordStart = g.recordStart /\ e.capture = g.capture /\ e.failed = g.failed /\ e.busy = g.busy
        /\ e.stream = g.stream /\ e.stream2 = g.stream2
    BY <2>1, <2>6 DEF Devices
  <2>8. \A K : Broke(s, K) => Broke(e, K)
    BY <2>5, <2>6, <2>7, BrokeStays
  <2>9. Steady(e)
    BY <2>2, <2>4, <2>5, <2>6, <2>7, <2>8 DEF Steady, Flagged
  <2>10. Held(e)
    BY <2>7 DEF Held
  <2>11. Flagged(e) /\ Stray0(e) /\ ~ e.capture
    BY <2>4, <2>5, <2>6, <2>7, <2>8 DEF Flagged, Stray0
  <2>12. Stray2(e)
    <3>1. e.stream2 => Broke(e, HalfOpen)
      BY <2>4, <2>5, <2>6, <2>7, <2>8 DEF Steady
    <3>2. QED
      BY <3>1 DEF Stray2, Broke
  <2>13. QED
    BY <2>7, <2>9, <2>10, <2>11, <2>12 DEF AtRest, Sound
<1>4. QED
  BY <1>2, <1>3

-----------------------------------------------------------------------------
(* Opening.                                                                *)

\* What an opening starts from and keeps: nothing streams that should not, and what
\* has been lost or left open was by an opening that failed half-way.
Opening(d) == Steady(d) /\ ~ d.init /\ ~ d.capture /\ Flagged(d) /\ Stray0(d) /\ Stray2(d)

\* A node has been opened, or the opening has failed half-way.
Node0Open(r) ==
  /\ r \in Results /\ Opening(r.d) /\ (r.d.fd2 => Broke(r.d, HalfOpen))
  /\ IF r.ret = 0 THEN r.d.fd ELSE r.d.fd => Broke(r.d, HalfOpen)
Node2Open(r) ==
  /\ r \in Results /\ Opening(r.d)
  /\ IF r.ret = 0 THEN r.d.fd /\ r.d.fd2 ELSE Broke(r.d, HalfOpen) \/ (~ r.d.fd /\ ~ r.d.fd2)

\* Opening a node again loses the descriptor it had.
LEMMA OpenedAgain ==
  ASSUME NEW d, Opening(d), NEW e \in Devices,
         /\ e.init = d.init /\ e.failed = d.failed /\ e.cameraStart = d.cameraStart /\ e.recordStart = d.recordStart
         /\ e.capture = d.capture /\ e.stream = d.stream /\ e.stream2 = d.stream2 /\ e.busy = d.busy,
         d.fd => e.fd, d.fd2 => e.fd2, d.leaked \subseteq e.leaked, "map" \notin e.leaked,
         e.leaked # d.leaked => Broke(d, HalfOpen)
  PROVE  Opening(e) /\ (Broke(d, HalfOpen) => Broke(e, HalfOpen))
<1>1. \A K : Broke(d, K) => Broke(e, K)
  BY BrokeStays
<1>2. Steady(d)
  BY DEF Opening
<1>3. Steady(e)
  BY <1>1, <1>2 DEF Steady
<1>4. QED
  BY <1>1, <1>3 DEF Opening, Flagged, Stray0, Stray2

LEMMA OpeningAlike ==
  ASSUME NEW d, Opening(d), NEW e \in Devices, Alike(d, e)
  PROVE  Opening(e) /\ (Broke(d, HalfOpen) => Broke(e, HalfOpen)) /\ e.fd = d.fd /\ e.fd2 = d.fd2
<1>1. e.init = d.init /\ e.fd = d.fd /\ e.fd2 = d.fd2 /\ e.capture = d.capture /\ d.failed \subseteq e.failed
  BY DEF Alike, Left0, Left
<1>2. QED
  BY <1>1, AlikeKeeps, BrokeStays DEF Opening

\* A probe that fails has left a node open.
LEMMA ProbeKeeps ==
  ASSUME NEW r \in Results, NEW probe \in Faults \cap HalfOpen, NEW enuminput \in Faults \cap HalfOpen,
         NEW q, q = Probe(r, probe, enuminput)
  PROVE  /\ Node0Open(r) => Node0Open(q)
         /\ Node2Open(r) => Node2Open(q)
<1>1. ASSUME NEW a \in Results, NEW b, NEW at \in Faults \cap HalfOpen, Plain(a, b, at)
      PROVE  /\ b \in Results
             /\ Node0Open(a) => Node0Open(b)
             /\ Node2Open(a) => Node2Open(b)
  <2>1. /\ b \in Results /\ Alike(a.d, b.d)
        /\ b = a \/ (b.ret = -1 /\ at \in b.d.failed)
    BY <1>1, PlainAlike
  <2>2. CASE b = a
    BY <2>2
  <2>3. CASE b.ret = -1 /\ at \in b.d.failed
    <3>1. b.d \in Devices /\ Broke(b.d, HalfOpen)
      BY <2>1, <2>3 DEF Results, Broke
    <3>2. Opening(a.d) => Opening(b.d)
      BY <2>1, <3>1, OpeningAlike
    <3>3. QED
      BY <2>1, <2>3, <3>1, <3>2 DEF Node0Open, Node2Open
  <2>4. QED
    BY <2>1, <2>2, <2>3
<1> DEFINE cap   == fimc_v4l2_querycap(r, probe)
           input == fimc_v4l2_enuminput(cap, enuminput)
<1>2. q = fimc_v4l2_s_input(input, probe)
  BY DEF Probe
<1>3. Plain(r, cap, probe)
  BY PlainOnes
<1>4. cap \in Results
  BY <1>3 DEF Plain
<1> HIDE DEF cap
<1>5. Plain(cap, input, enuminput)
  BY <1>4, PlainOnes
<1>6. input \in Results
  BY <1>5 DEF Plain
<1> HIDE DEF input
<1>7. Plain(input, q, probe)
  BY <1>2, <1>6, PlainOnes
<1>8. (Node0Open(r) => Node0Open(cap)) /\ (Node2Open(r) => Node2Open(cap))
  BY <1>1, <1>3
<1>9. (Node0Open(cap) => Node0Open(input)) /\ (Node2Open(cap) => Node2Open(input))
  BY <1>1, <1>4, <1>5
<1>10. (Node0Open(input) => Node0Open(q)) /\ (Node2Open(input) => Node2Open(q))
  BY <1>1, <1>6, <1>7
<1>11. QED
  BY <1>8, <1>9, <1>10

\* Opening node 0, and then node 2.
LEMMA Node0Opens ==
  ASSUME NEW d, AtRest(d), ~ d.init, Stray2(d), NEW f \in SUBSET Faults,
         NEW q, q = Ioctl(Begin(d, f), "open", Open0)
  PROVE  Node0Open(q)
<1> DEFINE b == Begin(d, f)
           e == Open0(d)
<1>1. /\ d \in Devices /\ Steady(d) /\ Held(d) /\ Opening(d)
      /\ (d.fd => Broke(d, HalfOpen)) /\ (d.fd2 => Broke(d, HalfOpen))
  BY DEF AtRest, Sound, Steady, Held, Opening
<1>2. b \in Results /\ b.d = d /\ b.ret = 0
  BY <1>1, BeginIs
<1>3. q = IoctlTo(b, "open", Open0(b.d))
  BY DEF Ioctl, IoctlTo
<1> HIDE DEF b
<1>4. e = [d EXCEPT !.leaked = IF d.fd THEN d.leaked \cup {"fd"} ELSE d.leaked, !.fd = TRUE]
  BY <1>1 DEF Open0, Lose, Devices
<1> HIDE DEF e
<1>5. /\ e \in Devices /\ e.fd /\ e.fd2 = d.fd2 /\ e.leaked = IF d.fd THEN d.leaked \cup {"fd"} ELSE d.leaked
      /\ e.init = d.init /\ e.failed = d.failed /\ e.cameraStart = d.cameraStart /\ e.recordStart = d.recordStart
      /\ e.capture = d.capture /\ e.stream = d.stream /\ e.stream2 = d.stream2 /\ e.busy = d.busy
  <2>1. (IF d.fd THEN d.leaked \cup {"fd"} ELSE d.leaked) \in SUBSET {"fd", "fd2", "map"}
    BY <1>1 DEF Devices
  <2>2. QED
    BY <1>1, <1>4, <2>1 DEF Devices
<1>6. "map" \notin e.leaked /\ d.leaked \subseteq e.leaked /\ (e.leaked # d.leaked => Broke(d, HalfOpen))
  BY <1>1, <1>5 DEF Steady
<1>7. Opening(e) /\ (Broke(d, HalfOpen) => Broke(e, HalfOpen))
  BY <1>1, <1>5, <1>6, OpenedAgain
<1>8. "open" \in Faults
  BY DEF Faults, OpenFaults
<1>9. /\ q \in Results
      /\ \/ q.ret = -1 /\ q.d = [d EXCEPT !.failed = @ \cup {"open"}]
         \/ q.ret = 0 /\ q.d = e
  <2>1. q = IoctlTo(b, "open", e)
    BY <1>2, <1>3 DEF e
  <2>2. QED
    BY <1>2, <1>5, <1>8, <2>1, IoctlIs
<1>10. CASE q.ret = -1 /\ q.d = [d EXCEPT !.failed = @ \cup {"open"}]
  <2>1. Alike(d, q.d) /\ q.d \in Devices
    BY <1>1, <1>9, <1>10, FailedAlike DEF Results
  <2>2. Opening(q.d) /\ (Broke(d, HalfOpen) => Broke(q.d, HalfOpen)) /\ q.d.fd = d.fd /\ q.d.fd2 = d.fd2
    BY <1>1, <2>1, OpeningAlike
  <2>3. QED
    BY <1>1, <1>9, <1>10, <2>2 DEF Node0Open
<1>11. CASE q.ret = 0 /\ q.d = e
  BY <1>1, <1>5, <1>7, <1>9, <1>11 DEF Node0Open
<1>12. QED
  BY <1>9, <1>10, <1>11

LEMMA Node2Opens ==
  ASSUME NEW r, Node0Open(r), NEW q, q = Ioctl(r, "open2", Open2)
  PROVE  Node2Open(q)
<1> DEFINE d == r.d
           e == Open2(d)
<1>1. /\ r \in Results /\ d \in Devices /\ r.ret \in {0, -1} /\ Opening(d) /\ Steady(d)
      /\ (d.fd2 => Broke(d, HalfOpen)) /\ (IF r.ret = 0 THEN d.fd ELSE d.fd => Broke(d, HalfOpen))
  BY DEF Node0Open, Results, Opening
<1>2. q = IoctlTo(r, "open2", e)
  BY DEF Ioctl, IoctlTo
<1>3. e = [d EXCEPT !.leaked = IF d.fd2 THEN d.leaked \cup {"fd2"} ELSE d.leaked, !.fd2 = TRUE]
  BY <1>1 DEF Open2, Lose, Devices
<1> HIDE DEF d, e
<1>4. /\ e \in Devices /\ e.fd2 /\ e.fd = d.fd /\ e.leaked = IF d.fd2 THEN d.leaked \cup {"fd2"} ELSE d.leaked
      /\ e.init = d.init /\ e.failed = d.failed /\ e.cameraStart = d.cameraStart /\ e.recordStart = d.recordStart
      /\ e.capture = d.capture /\ e.stream = d.stream /\ e.stream2 = d.stream2 /\ e.busy = d.busy
  <2>1. (IF d.fd2 THEN d.leaked \cup {"fd2"} ELSE d.leaked) \in SUBSET {"fd", "fd2", "map"}
    BY <1>1 DEF Devices
  <2>2. QED
    BY <1>1, <1>3, <2>1 DEF Devices
<1>5. "map" \notin e.leaked /\ d.leaked \subseteq e.leaked /\ (e.leaked # d.leaked => Broke(d, HalfOpen))
  BY <1>1, <1>4 DEF Steady
<1>6. Opening(e)
  BY <1>1, <1>4, <1>5, OpenedAgain
<1>7. "open2" \in Faults /\ "open2" \in HalfOpen
  BY DEF Faults, OpenFaults, HalfOpen
<1>8. /\ q \in Results
      /\ \/ r.ret = -1 /\ q = r
         \/ r.ret = 0 /\ q.ret = -1 /\ q.d = [d EXCEPT !.failed = @ \cup {"open2"}]
         \/ r.ret = 0 /\ q.ret = 0 /\ q.d = e
  BY <1>1, <1>2, <1>4, <1>7, IoctlIs DEF d
<1>9. CASE r.ret = -1 /\ q = r
  BY <1>1, <1>8, <1>9 DEF Node2Open, d
<1>10. CASE r.ret = 0 /\ q.ret = -1 /\ q.d = [d EXCEPT !.failed = @ \cup {"open2"}]
  <2>1. Alike(d, q.d) /\ q.d \in Devices /\ "open2" \in q.d.failed
    BY <1>1, <1>8, <1>10, FailedAlike DEF Results
  <2>2. Opening(q.d) /\ Broke(q.d, HalfOpen)
    BY <1>1, <1>7, <2>1, OpeningAlike DEF Broke
  <2>3. QED
    BY <1>8, <1>10, <2>2 DEF Node2Open
<1>11. CASE r.ret = 0 /\ q.ret = 0 /\ q.d = e
  BY <1>1, <1>4, <1>6, <1>8, <1>11 DEF Node2Open
<1>12. QED
  BY <1>8, <1>9, <1>10, <1>11

\* initCamera(), of a device that is closed.
LEMMA InitCameraDoes ==
  ASSUME NEW d, AtRest(d), ~ d.init, Stray2(d), NEW f \in SUBSET Faults, NEW index \in {"back", "front"},
         NEW r, r = initCamera(d, f, index)
  PROVE  AtRest(r.d) /\ Stray2(r.d)
<1> DEFINE o0    == Ioctl(Begin(d, f), "open", Open0)
           node0 == Probe(o0, "probe", "enuminput")
           o2    == Ioctl(node0, "open2", Open2)
           node2 == Probe(o2, "probe2", "probe2")
           e     == [node2.d EXCEPT !.id = index, !.init = TRUE]
<1>1. r = ThenTo(node2, e)
  BY DEF initCamera, Then, ThenTo
<1>2. {"probe", "enuminput", "probe2"} \subseteq Faults \cap HalfOpen
  BY DEF Faults, OpenFaults, HalfOpen
<1>3. Node0Open(o0) /\ o0 \in Results
  BY Node0Opens DEF Node0Open
<1> HIDE DEF o0
<1>4. Node0Open(node0)
  BY <1>2, <1>3, ProbeKeeps
<1> HIDE DEF node0
<1>5. Node2Open(o2) /\ o2 \in Results
  BY <1>4, Node2Opens DEF Node2Open
<1> HIDE DEF o2
<1>6. Node2Open(node2)
  BY <1>2, <1>5, ProbeKeeps
<1> HIDE DEF node2
<1>7. /\ node2 \in Results /\ node2.d \in Devices /\ node2.ret \in {0, -1} /\ Opening(node2.d) /\ Steady(node2.d)
      /\ IF node2.ret = 0 THEN node2.d.fd /\ node2.d.fd2
         ELSE Broke(node2.d, HalfOpen) \/ (~ node2.d.fd /\ ~ node2.d.fd2)
  BY <1>6 DEF Node2Open, Opening, Results
<1>8. /\ e \in Devices /\ e.init /\ e.fd = node2.d.fd /\ e.fd2 = node2.d.fd2 /\ e.leaked = node2.d.leaked
      /\ e.cameraStart = node2.d.cameraStart /\ e.recordStart = node2.d.recordStart
      /\ e.capture = node2.d.capture /\ e.failed = node2.d.failed /\ e.busy = node2.d.busy
      /\ e.stream = node2.d.stream /\ e.stream2 = node2.d.stream2
  BY <1>7 DEF Devices
<1> HIDE DEF e
<1>9. r \in Results /\ ((node2.ret = -1 /\ r = node2) \/ (node2.ret = 0 /\ r.d = e))
  BY <1>1, <1>7, <1>8, ThenIs
<1>10. CASE node2.ret = -1 /\ r = node2
  <2>1. Held(r.d)
    BY <1>7, <1>10 DEF Held, Opening
  <2>2. QED
    BY <1>7, <1>10, <2>1 DEF Opening, AtRest, Sound
<1>11. CASE node2.ret = 0 /\ r.d = e
  <2>1. \A K : Broke(node2.d, K) => Broke(e, K)
    BY <1>8, BrokeStays
  <2>2. Steady(e)
    BY <1>7, <1>8, <2>1 DEF Steady
  <2>3. Held(e)
    BY <1>7, <1>8, <1>11 DEF Held
  <2>4. Flagged(e) /\ Stray0(e) /\ Stray2(e) /\ ~ e.capture
    BY <1>7, <1>8, <2>1 DEF Opening, Flagged, Stray0, Stray2
  <2>5. QED
    BY <1>11, <2>2, <2>3, <2>4 DEF AtRest, Sound
<1>12. QED
  BY <1>9, <1>10, <1>11

-----------------------------------------------------------------------------
(* The calls of the HAL.                                                   *)

LEMMA KindsIs == ASSUME NEW K \in SUBSET Faults, NEW f \in Kinds(K) PROVE f \in SUBSET Faults
BY DEF Kinds

LEMMA KindsOfCalls ==
  /\ OpenFaults \in SUBSET Faults /\ StartFaults \in SUBSET Faults /\ {"streamoff"} \in SUBSET Faults
  /\ (FrameFaults \cup StartFaults \cup {"probe", "enuminput", "streamoff"}) \in SUBSET Faults
  /\ {"setup2", "late2"} \in SUBSET Faults /\ {"caf", "streamoff2", "tail2"} \in SUBSET Faults
  /\ {"streamoff", "shot", "mapped", "shotlate"} \in SUBSET Faults
  /\ ({"streamoff"} \cup ShotFaults) \in SUBSET Faults
  /\ {"streamoff", "caf", "streamoff2", "tail2"} \in SUBSET Faults
BY DEF Faults, OpenFaults, RecFaults, ShotFaults

LEMMA Stray2Left0 == ASSUME NEW d, NEW e, Left0(d, e), Stray2(d) PROVE Stray2(e)
BY BrokeStays DEF Left0, Left, Stray2

LEMMA OpenDeviceInv == ASSUME DeviceInv, Open PROVE DeviceInv'
<1>1. hal = "closed" /\ hal' = "stopped" /\ recording' = FALSE
  BY DEF Open
<1>2. PICK f \in Kinds(OpenFaults), index \in Ids : dev' = initCamera(dev, f, index).d
  BY DEF Open
<1>3. f \in SUBSET Faults /\ index \in {"back", "front"}
  BY CameraIds, KindsIs, KindsOfCalls
<1>4. AtRest(dev) /\ ~ dev.init /\ Stray2(dev)
  BY <1>1 DEF DeviceInv
<1>5. AtRest(dev') /\ Stray2(dev')
  BY <1>2, <1>3, <1>4, InitCameraDoes
<1>6. QED
  BY <1>1, <1>5 DEF DeviceInv

LEMMA StartPreviewDeviceInv == ASSUME DeviceInv, StartPreview PROVE DeviceInv'
<1>1. PICK f \in Kinds(StartFaults) :
        dev' = startPreview(dev, f).d /\ hal' \in {"failed", "running"} /\ recording' = recording
  BY DEF StartPreview
<1>2. f \in SUBSET Faults
  BY KindsIs, KindsOfCalls
<1>3. Running(dev)
  BY StoppedRuns DEF DeviceInv, StartPreview
<1>4. Running(dev') /\ Left0(dev, dev')
  BY <1>1, <1>2, <1>3, StartPreviewRuns
<1>5. Stray2(dev) => Stray2(dev')
  BY <1>4, Stray2Left0
<1>6. QED
  BY <1>1, <1>4, <1>5 DEF DeviceInv

LEMMA PreviewFrameDeviceInv == ASSUME DeviceInv, PreviewFrame PROVE DeviceInv'
<1>1. PICK f \in Kinds(FrameFaults \cup StartFaults \cup {"probe", "enuminput", "streamoff"}) :
        dev' = getPreview(dev, f).d
  BY DEF PreviewFrame
<1>2. hal = "running" /\ hal' = hal /\ recording' = recording /\ Running(dev)
  BY DEF PreviewFrame, DeviceInv
<1>3. f \in SUBSET Faults
  BY KindsIs, KindsOfCalls
<1>4. Running(dev') /\ Left0(dev, dev')
  BY <1>1, <1>2, <1>3, GetPreviewRuns
<1>5. Stray2(dev) => Stray2(dev')
  BY <1>4, Stray2Left0
<1>6. QED
  BY <1>2, <1>4, <1>5 DEF DeviceInv

LEMMA StopPreviewDeviceInv == ASSUME DeviceInv, StopPreview PROVE DeviceInv'
<1>1. PICK f \in Kinds({"streamoff"}) : dev' = stopPreview(dev, f).d
  BY DEF StopPreview
<1>2. hal' = "stopped" /\ recording' = recording /\ Running(dev)
  BY DEF StopPreview, DeviceInv
<1>3. f \in SUBSET Faults
  BY KindsIs, KindsOfCalls
<1>4. AtRest(dev') /\ Left0(dev, dev')
  BY <1>1, <1>2, <1>3, StopPreviewStops
<1>5. Stray2(dev) => Stray2(dev')
  BY <1>4, Stray2Left0
<1>6. QED
  BY <1>2, <1>4, <1>5 DEF DeviceInv

LEMMA StartRecordingDeviceInv == ASSUME DeviceInv, StartRecording PROVE DeviceInv'
<1>1. PICK f \in Kinds({"setup2", "late2"}) :
        dev' = startRecord(dev, f).d /\ recording' = (startRecord(dev, f).ret >= 0)
  BY DEF StartRecording
<1>2. hal = "running" /\ hal' = hal /\ Running(dev) /\ Stray2(dev) /\ Sound(dev)
  BY DEF StartRecording, DeviceInv, Running
<1>3. f \in SUBSET Faults
  BY KindsIs, KindsOfCalls
<1> DEFINE r == startRecord(dev, f)
<1>4. r \in Results /\ Sound(r.d) /\ Left2(dev, r.d) /\ (r.ret = -1 => Stray2(r.d))
  BY <1>2, <1>3, StartRecordDoes
<1>5. dev' = r.d /\ recording' = (r.ret >= 0)
  BY <1>1
<1> HIDE DEF r
<1>6. recording' \in BOOLEAN /\ (~ recording' => r.ret = -1)
  <2>1. r.ret \in {0, -1}
    BY <1>4 DEF Results
  <2>2. CASE r.ret = 0
    <3>1. (r.ret >= 0) = TRUE
      BY <2>2
    <3>2. recording' = TRUE
      BY <1>5, <3>1
    <3>3. QED
      BY <3>2
  <2>3. CASE r.ret = -1
    BY <1>5, <2>3
  <2>4. QED
    BY <2>1, <2>2, <2>3
<1>7. Running(dev')
  BY <1>2, <1>4, <1>5, Left2Modes
<1>8. QED
  BY <1>2, <1>4, <1>5, <1>6, <1>7 DEF DeviceInv

LEMMA StopRecordingDeviceInv == ASSUME DeviceInv, StopRecording PROVE DeviceInv'
<1>1. PICK f \in Kinds({"caf", "streamoff2", "tail2"}) :
        dev' = stopRecord(dev, f).d /\ recording' = (stopRecord(dev, f).ret < 0)
  BY DEF StopRecording
<1>2. hal \in {"running", "failed", "stopped"} /\ hal' = hal
  BY DEF StopRecording
<1>3. Sound(dev) /\ (hal # "stopped" => Running(dev)) /\ (hal = "stopped" => AtRest(dev))
  BY <1>2 DEF DeviceInv, Running, AtRest
<1>4. f \in SUBSET Faults
  BY KindsIs, KindsOfCalls
<1> DEFINE r == stopRecord(dev, f)
<1>5. r \in Results /\ Sound(r.d) /\ Left2(dev, r.d) /\ (r.ret = 0 => Stray2(r.d))
  BY <1>3, <1>4, StopRecordDoes
<1>6. dev' = r.d /\ recording' = (r.ret < 0)
  BY <1>1
<1> HIDE DEF r
<1>7. recording' \in BOOLEAN /\ (~ recording' => r.ret = 0)
  <2>1. r.ret \in {0, -1}
    BY <1>5 DEF Results
  <2>2. CASE r.ret = 0
    BY <1>6, <2>2
  <2>3. CASE r.ret = -1
    <3>1. (r.ret < 0) = TRUE
      BY <2>3
    <3>2. recording' = TRUE
      BY <1>6, <3>1
    <3>3. QED
      BY <2>3, <3>2
  <2>4. QED
    BY <2>1, <2>2, <2>3
<1>8. (Running(dev) => Running(dev')) /\ (AtRest(dev) => AtRest(dev'))
  BY <1>5, <1>6, Left2Modes
<1>9. QED
  BY <1>2, <1>3, <1>5, <1>6, <1>7, <1>8 DEF DeviceInv

LEMMA ShutterDeviceInv == ASSUME DeviceInv, Shutter PROVE DeviceInv'
<1>1. PICK f \in Kinds({"streamoff", "shot", "mapped", "shotlate"}) : dev' = setSnapshotCmd(dev, f).d
  BY DEF Shutter
<1>2. hal' = "shooting" /\ recording' = recording /\ AtRest(dev)
  BY DEF Shutter, DeviceInv
<1>3. f \in SUBSET Faults
  BY KindsIs, KindsOfCalls
<1>4. Shooting(dev') /\ Left0(dev, dev')
  BY <1>1, <1>2, <1>3, SetSnapshotCmdShoots
<1>5. Stray2(dev) => Stray2(dev')
  BY <1>4, Stray2Left0
<1>6. QED
  BY <1>2, <1>4, <1>5 DEF DeviceInv

LEMMA CaptureDeviceInv == ASSUME DeviceInv, Capture PROVE DeviceInv'
<1> DEFINE capt(f) == IF hal = "shooting" THEN getJpeg(dev, f) ELSE getSnapshotAndJpeg(dev, f)
<1>1. PICK f \in Kinds({"streamoff"} \cup ShotFaults) : dev' = endSnapshot(capt(f).d, capt(f).ret)
  BY DEF Capture
<1>2. /\ hal \in {"shooting", "stopped"} /\ hal' = "stopped" /\ recording' = recording
      /\ (hal = "shooting" => Shooting(dev)) /\ (hal = "stopped" => AtRest(dev))
  BY DEF Capture, DeviceInv
<1>3. f \in SUBSET Faults
  BY KindsIs, KindsOfCalls
<1> DEFINE r == capt(f)
<1>4. Quiet(r.d) /\ Left0(dev, r.d)
  <2>1. CASE hal = "shooting"
    BY <1>2, <1>3, <2>1, GetJpegStops
  <2>2. CASE hal = "stopped"
    BY <1>2, <1>3, <2>2, GetSnapshotStops
  <2>3. QED
    BY <1>2, <2>1, <2>2
<1>5. dev' = endSnapshot(r.d, r.ret)
  BY <1>1
<1> HIDE DEF r, capt
<1>6. AtRest(dev') /\ Left0(r.d, dev')
  BY <1>4, <1>5, EndSnapshotDoes
<1>7. Stray2(dev) => Stray2(dev')
  BY <1>4, <1>6, Stray2Left0
<1>8. QED
  BY <1>2, <1>6, <1>7 DEF DeviceInv

LEMMA ReleaseDeviceInv == ASSUME DeviceInv, Release PROVE DeviceInv'
<1>1. PICK f \in Kinds({"streamoff", "caf", "streamoff2", "tail2"}) :
        dev' = DeinitCamera(stopPreview(dev, f).d, f)
  BY DEF Release
<1>2. hal' = "closed" /\ recording' = recording /\ Running(dev)
  BY StoppedRuns DEF Release, DeviceInv
<1>3. f \in SUBSET Faults
  BY KindsIs, KindsOfCalls
<1>4. AtRest(stopPreview(dev, f).d)
  BY <1>2, <1>3, StopPreviewStops
<1>5. AtRest(dev') /\ ~ dev.init' /\ Stray2(dev')
  BY <1>1, <1>3, <1>4, DeinitCameraDoes
<1>6. QED
  BY <1>2, <1>5 DEF DeviceInv

LEMMA DeviceInvInit == Init => DeviceInv
<1> SUFFICES ASSUME Init PROVE DeviceInv
  OBVIOUS
<1>1. Fresh \in Devices
  BY BufferCount DEF Fresh, Devices
<1>2. dev = Fresh /\ hal = "closed" /\ recording = FALSE
  BY DEF Init
<1>3. /\ ~ dev.init /\ ~ dev.fd /\ ~ dev.fd2 /\ dev.leaked = {} /\ ~ dev.cameraStart /\ ~ dev.recordStart
      /\ ~ dev.capture /\ dev.stream = "off" /\ ~ dev.stream2 /\ ~ dev.busy
  BY <1>2 DEF Fresh
<1>4. AtRest(dev) /\ Stray2(dev)
  BY <1>1, <1>2, <1>3 DEF AtRest, Sound, Steady, Held, Flagged, Stray0, Stray2
<1>5. QED
  BY <1>2, <1>3, <1>4 DEF DeviceInv

LEMMA DeviceInvStep == DeviceInv /\ [Next]_vars => DeviceInv'
<1> SUFFICES ASSUME DeviceInv, [Next]_vars PROVE DeviceInv'
  OBVIOUS
<1>1. CASE UNCHANGED vars
  <2>1. dev' = dev /\ hal' = hal /\ recording' = recording
    BY <1>1 DEF vars
  <2>2. QED
    BY <2>1 DEF DeviceInv
<1>2. CASE Next
  BY <1>2, OpenDeviceInv, StartPreviewDeviceInv, PreviewFrameDeviceInv, StopPreviewDeviceInv,
     StartRecordingDeviceInv, StopRecordingDeviceInv, ShutterDeviceInv, CaptureDeviceInv, ReleaseDeviceInv
     DEF Next
<1>3. QED
  BY <1>1, <1>2

LEMMA DeviceInvAgrees == DeviceInv => DeviceAgrees
<1> SUFFICES ASSUME DeviceInv PROVE DeviceAgrees
  OBVIOUS
<1>1. Sound(dev) /\ Steady(dev) /\ Held(dev)
  BY DEF DeviceInv, Running, AtRest, Shooting, Sound
<1>2. TypeOK
  BY <1>1 DEF DeviceInv, Steady, Devices, TypeOK
<1>3. FlagsMeanStreaming
  BY <1>1 DEF Steady, FlagsMeanStreaming
<1>4. StoppedIsOff
  BY DEF DeviceInv, AtRest, Stray0, Stray2, Broke, StoppedIsOff
<1>5. NeverBusy
  BY <1>1 DEF Steady, Broke, NeverBusy
<1>6. NothingLeaks
  <2>1. dev.capture => hal = "shooting"
    BY DEF DeviceInv, Running, AtRest
  <2>2. "map" \notin dev.leaked
    BY <1>1 DEF Steady
  <2>3. dev.leaked # {} \/ (hal = "closed" /\ (dev.fd \/ dev.fd2)) => dev.failed \cap HalfOpen # {}
    BY <1>1 DEF DeviceInv, Steady, Held, Broke
  <2>4. QED
    BY <2>1, <2>2, <2>3 DEF NothingLeaks
<1>7. QED
  BY <1>2, <1>3, <1>4, <1>5, <1>6 DEF DeviceAgrees

\* The flags of SecCamera, the HAL above it and the driver agree on what streams, the
\* driver is asked for nothing it must refuse, and no mapping or descriptor is lost,
\* through any number of openings, previews, recordings and pictures, whichever ioctls
\* fail and however many of them do.
THEOREM DeviceAlwaysAgrees == Spec => []DeviceAgrees
<1>1. DeviceInv /\ [Next]_vars => DeviceInv'
  BY DeviceInvStep
<1>2. QED
  BY DeviceInvInit, <1>1, DeviceInvAgrees, PTL DEF Spec

-----------------------------------------------------------------------------
(* The settings: each call keeps what the three copies have in common.     *)

Values == Accepted \cup {Unset}
SetKinds == Settings \cup {"fps", "batch", "parm", "stream", "record", "caf", "streamoff2"}
Reported == DOMAIN Default

Cams ==
  [ id : {"back", "front"}, run : BOOLEAN, rec : BOOLEAN,
    cache : [Settings -> Values], sensor : [Settings -> Values], pending : SUBSET Settings,
    failed : SUBSET SetKinds, param : [Reported -> 0..2], distances : {0, Macro} ]
Rs == [c : Cams, f : SUBSET SetKinds, ok : BOOLEAN]
Works == [r : Rs, bad : BOOLEAN]

\* SentAtStart, SensorFollowsCache, DistancesFitFocus, TorchOff and MovieIsoEnds of a camera c.
SentBy(c) == Block \cup (IF c.id = "back" THEN DOMAIN Forced ELSE {"blur"})
Apart(c, s) ==
  \/ s = "focus" /\ c.sensor[s] = 0
  \/ s = "face" /\ "focus" \in c.failed
  \/ s = "rate" /\ c.sensor[s] = RateAuto
Follows(c) ==
  c.run /\ {"parm", "batch"} \cap c.failed = {} =>
    \A s \in SentBy(c) \ c.failed : c.sensor[s] = c.cache[s] \/ Apart(c, s)
Fits(c) ==
  c.failed \cap {"focus", "face"} = {} =>
    c.distances = IF c.param["focus"] = Face THEN 0 ELSE c.param["focus"]
Dark(c) == ~ c.run /\ c.failed = {} => c.sensor["flash"] # Torch
Askable(c) == \A s \in Reported : c.param[s] \in Asks[s] \ {Unknown, Refused, Ignored}
IsoEnds(c) == c.cache["iso"] = Movie => c.id = "back" /\ (c.failed = {} => c.rec)
Reflected(c) == c.id = "back" /\ c.run /\ c.failed = {} => c.pending \subseteq {"rate", "flash"}

Coherent(c) == c \in Cams /\ Askable(c) /\ Follows(c) /\ Dark(c)
Good(c) == Coherent(c) /\ Fits(c)

\* The inductive invariant.
SettingsInv == Good(cam) /\ IsoEnds(cam) /\ Reflected(cam) /\ AcceptedIsSet /\ varied \in Clusters

-----------------------------------------------------------------------------
(* One setting.                                                            *)

\* What sending or keeping the settings S leaves alone.
Touches(c, d, S) ==
  /\ d \in Cams /\ d.id = c.id /\ d.run = c.run /\ d.rec = c.rec /\ c.failed \subseteq d.failed
  /\ \A t \in Settings \ S : d.cache[t] = c.cache[t] /\ d.sensor[t] = c.sensor[t]
  /\ ~ c.run => d.sensor = c.sensor

\* What a setter for s makes of a camera c, asked for v.
SetTo(c, d, ok, s, v) ==
  /\ Touches(c, d, {s}) /\ d.param = c.param /\ d.distances = c.distances
  /\ IF v \in Accepted THEN d.cache[s] = v ELSE d.cache[s] = c.cache[s]
  /\ \/ s = "quality" \/ ~ c.run \/ s \in d.failed \/ d.sensor[s] = d.cache[s]
     \/ d.sensor[s] = c.sensor[s] /\ d.cache[s] = c.cache[s]
  /\ IF ok THEN v \in Accepted ELSE v \notin Accepted \/ s \in d.failed

\* A camera that remembers v, whose sensor has it, and one that a failure of at has met.
Kept(c, s, v) == [c EXCEPT !.cache = [@ EXCEPT ![s] = v]]
Sent(c, s, v) == [c EXCEPT !.sensor = [@ EXCEPT ![s] = v], !.pending = @ \cup {s}]
Lost(c, at)   == [c EXCEPT !.failed = @ \cup {at}]

\* What sending v makes of r.
SentTo(r, q, s, v) ==
  /\ q \in Rs /\ q.f = r.f
  /\ \/ s \in r.f /\ q.ok = FALSE /\ q.c = Lost(r.c, s)
     \/ s \notin r.f /\ q.ok = TRUE /\ q.c = Sent(r.c, s, v)

\* Sending fails or arrives, and is nothing else.
LEMMA SctrlIs ==
  ASSUME NEW r \in Rs, NEW s \in Settings, NEW v \in Values
  PROVE  SentTo(r, s_ctrl(r, s, v), s, v)
<1> DEFINE q == s_ctrl(r, s, v)
<1>1. r.c \in Cams /\ r.f \in SUBSET SetKinds
  BY DEF Rs
<1>2. CASE s \in r.f
  <2> DEFINE d == Lost(r.c, s)
  <2>1. q = [r EXCEPT !.ok = FALSE, !.c = d]
    BY <1>2 DEF s_ctrl, No, Rs, Lost
  <2>2. d \in Cams
    BY <1>1, <1>2 DEF Cams, Lost
  <2> HIDE DEF d
  <2>3. q \in Rs /\ q.f = r.f /\ q.ok = FALSE /\ q.c = d
    BY <2>1, <2>2 DEF Rs
  <2>4. QED
    BY <1>2, <2>3 DEF d, SentTo
<1>3. CASE s \notin r.f
  <2> DEFINE d == Sent(r.c, s, v)
  <2>1. q = [r EXCEPT !.ok = TRUE, !.c = d]
    BY <1>3 DEF s_ctrl, Rs, Cams, Sent
  <2>2. d \in Cams
    BY <1>1 DEF Cams, Sent
  <2> HIDE DEF d
  <2>3. q \in Rs /\ q.f = r.f /\ q.ok = TRUE /\ q.c = d
    BY <2>1, <2>2 DEF Rs
  <2>4. QED
    BY <1>3, <2>3 DEF d, SentTo
<1>4. QED
  BY <1>2, <1>3

KeptIs(c, d, s, v) ==
  /\ Touches(c, d, {s}) /\ d.cache[s] = v /\ d.sensor = c.sensor /\ d.param = c.param
  /\ d.distances = c.distances /\ d.failed = c.failed /\ d.pending = c.pending
SentIs(c, d, s, v) ==
  /\ d \in Cams /\ d.id = c.id /\ d.run = c.run /\ d.rec = c.rec /\ d.failed = c.failed
  /\ d.cache = c.cache /\ d.sensor[s] = v /\ d.param = c.param /\ d.distances = c.distances
  /\ d.pending = c.pending \cup {s} /\ \A t \in Settings \ {s} : d.sensor[t] = c.sensor[t]
LostIs(c, d, at) ==
  /\ Touches(c, d, {}) /\ d.cache = c.cache /\ d.sensor = c.sensor /\ d.param = c.param
  /\ d.distances = c.distances /\ d.failed = c.failed \cup {at} /\ d.pending = c.pending

\* Remembering, sending and failing, field by field.
LEMMA TouchesCache ==
  ASSUME NEW c \in Cams, NEW s \in Settings, NEW v \in Values, NEW d, d = Kept(c, s, v)
  PROVE  KeptIs(c, d, s, v)
BY DEF Cams, Touches, Kept, KeptIs

LEMMA RunningTouches ==
  ASSUME NEW c \in Cams, NEW s \in Settings, NEW v \in Values, NEW d, d = Sent(c, s, v), c.run = TRUE
  PROVE  Touches(c, d, {s})
BY DEF Cams, Touches, Sent

LEMMA TouchesSensor ==
  ASSUME NEW c \in Cams, NEW s \in Settings, NEW v \in Values, NEW d, d = Sent(c, s, v)
  PROVE  SentIs(c, d, s, v)
BY DEF Cams, Sent, SentIs

LEMMA TouchesFailed ==
  ASSUME NEW c \in Cams, NEW at \in SetKinds, NEW d, d = Lost(c, at)
  PROVE  LostIs(c, d, at)
BY DEF Cams, Touches, Lost, LostIs

LEMMA TouchesTwice ==
  ASSUME NEW c, NEW d, NEW e, NEW S, NEW T, Touches(c, d, S), Touches(d, e, T)
  PROVE  Touches(c, e, S \cup T)
BY DEF Touches

\* A setter remembers a value in its range, and sends it when the preview runs.
LEMMA SetIs ==
  ASSUME NEW r \in Rs, NEW s \in Settings, NEW v \in Int, NEW q, q = Set(r, s, v)
  PROVE  q \in Rs /\ q.f = r.f /\ SetTo(r.c, q.c, q.ok, s, v)
<1>1. r.c \in Cams /\ r.f \in SUBSET SetKinds /\ r.c.run \in BOOLEAN /\ Touches(r.c, r.c, {s})
  BY DEF Rs, Cams, Touches
<1>2. Accepted \subseteq Values
  BY DEF Values
<1>3. CASE v \notin Accepted
  <2>1. q \in Rs /\ q.f = r.f /\ q.ok = FALSE /\ q.c = r.c
    BY <1>3 DEF Set, No, Rs
  <2>2. QED
    BY <1>1, <1>3, <2>1 DEF SetTo
<1>4. CASE v \in Accepted /\ r.c.cache[s] = v
  <2>1. q \in Rs /\ q.f = r.f /\ q.ok = TRUE /\ q.c = r.c
    BY <1>4 DEF Set, Rs
  <2>2. QED
    BY <1>1, <1>4, <2>1 DEF SetTo
<1>5. CASE v \in Accepted /\ r.c.cache[s] # v
  <2> DEFINE d == Kept(r.c, s, v)
             kept == [r EXCEPT !.ok = TRUE, !.c = d]
  <2> v \in Values
    BY <1>2, <1>5
  <2>1. q = IF r.c.run THEN s_ctrl(kept, s, v) ELSE kept
    BY <1>5 DEF Set, Rs, Cams, Kept
  <2>2. /\ d \in Cams /\ Touches(r.c, d, {s}) /\ d.cache[s] = v /\ d.sensor = r.c.sensor /\ d.param = r.c.param
        /\ d.distances = r.c.distances /\ d.failed = r.c.failed /\ d.run = r.c.run
    <3>1. /\ Touches(r.c, d, {s}) /\ d.cache[s] = v /\ d.sensor = r.c.sensor /\ d.param = r.c.param
          /\ d.distances = r.c.distances /\ d.failed = r.c.failed
      <4>1. r.c \in Cams /\ s \in Settings /\ v \in Values
        BY <1>1
      <4>2. KeptIs(r.c, d, s, v)
        BY <4>1, TouchesCache
      <4>3. QED
        BY <4>2 DEF KeptIs
    <3> HIDE DEF d
    <3>2. QED
      BY <3>1 DEF Touches
  <2> HIDE DEF d
  <2>3. kept \in Rs /\ kept.f = r.f /\ kept.ok = TRUE /\ kept.c = d
    BY <2>2 DEF Rs
  <2> HIDE DEF kept
  <2>4. CASE ~ r.c.run
    BY <1>5, <2>1, <2>2, <2>3, <2>4 DEF SetTo
  <2>5. CASE r.c.run
    <3> DEFINE e == q.c
    <3>1. /\ q \in Rs /\ q.f = r.f
          /\ \/ s \in kept.f /\ q.ok = FALSE /\ e = Lost(d, s)
             \/ s \notin kept.f /\ q.ok = TRUE /\ e = Sent(d, s, v)
      <4>1. SentTo(kept, q, s, v)
        BY <2>1, <2>3, <2>5, SctrlIs
      <4>2. QED
        BY <2>3, <4>1 DEF SentTo
    <3> HIDE DEF e
    <3>2. CASE q.ok = FALSE /\ e = Lost(d, s)
      <4>1. /\ Touches(d, e, {}) /\ e.cache = d.cache /\ e.sensor = d.sensor /\ e.param = d.param
            /\ e.distances = d.distances /\ s \in e.failed
        <5>1. d \in Cams /\ s \in SetKinds /\ e = Lost(d, s)
          BY <2>2, <3>2 DEF SetKinds
        <5>2. LostIs(d, e, s)
          BY <5>1, TouchesFailed
        <5>3. QED
          BY <5>2 DEF LostIs
      <4>2. Touches(r.c, e, {s})
        BY <2>2, <4>1, TouchesTwice
      <4>3. SetTo(r.c, e, q.ok, s, v)
        BY <1>5, <2>2, <3>2, <4>1, <4>2 DEF SetTo
      <4>4. QED
        BY <3>1, <4>3 DEF e
    <3>3. CASE q.ok = TRUE /\ e = Sent(d, s, v)
      <4>1. /\ Touches(d, e, {s}) /\ e.cache = d.cache /\ e.sensor[s] = v /\ e.param = d.param
            /\ e.distances = d.distances
        <5>1. d.run = TRUE
          BY <1>1, <2>2, <2>5
        <5>2. d \in Cams /\ e = Sent(d, s, v)
          BY <2>2, <3>3
        <5>3. Touches(d, e, {s})
          BY <5>1, <5>2, RunningTouches
        <5>4. QED
          <6>1. SentIs(d, e, s, v)
            BY <5>2, <5>3, TouchesSensor
          <6>2. QED
            BY <5>3, <6>1 DEF SentIs
      <4>2. Touches(r.c, e, {s})
        BY <2>2, <4>1, TouchesTwice
      <4>3. SetTo(r.c, e, q.ok, s, v)
        BY <1>5, <2>2, <3>3, <4>1, <4>2 DEF SetTo
      <4>4. QED
        BY <3>1, <4>3 DEF e
    <3>4. QED
      BY <3>1, <3>2, <3>3
  <2>6. QED
    BY <2>4, <2>5
<1>6. QED
  BY <1>3, <1>4, <1>5

\* No setter puts the sensor apart from what is remembered.
LEMMA SetSound ==
  ASSUME NEW c, NEW d, NEW s \in Settings, NEW v, NEW ok, Coherent(c), SetTo(c, d, ok, s, v)
  PROVE  Coherent(d)
<1>1. d \in Cams /\ c \in Cams /\ SentBy(d) = SentBy(c) /\ d.run = c.run
  BY DEF Coherent, SetTo, Touches, SentBy
<1>2. c.failed \subseteq d.failed /\ d.param = c.param /\ d.distances = c.distances
  BY DEF SetTo, Touches
<1>3. Follows(d)
  <2> SUFFICES ASSUME d.run, {"parm", "batch"} \cap d.failed = {}, NEW t \in SentBy(d) \ d.failed
               PROVE  d.sensor[t] = d.cache[t] \/ Apart(d, t)
    BY DEF Follows
  <2>1. t \in Settings /\ t # "quality"
    BY DEF SentBy, Settings, Block, Others, Forced
  <2>2. c.sensor[t] = c.cache[t] \/ Apart(c, t)
    BY <1>1, <1>2 DEF Coherent, Follows
  <2>3. CASE d.cache[t] = c.cache[t] /\ d.sensor[t] = c.sensor[t]
    BY <1>2, <2>2, <2>3 DEF Apart
  <2>4. CASE ~ (d.cache[t] = c.cache[t] /\ d.sensor[t] = c.sensor[t])
    <3>1. t = s
      BY <2>1, <2>4 DEF SetTo, Touches
    <3>2. d.sensor[s] = d.cache[s]
      BY <1>1, <2>1, <2>4, <3>1 DEF SetTo
    <3>3. QED
      BY <3>1, <3>2
  <2>5. QED
    BY <2>3, <2>4
<1>4. Askable(d)
  BY <1>2 DEF Coherent, Askable
<1>5. Dark(d)
  BY <1>1, <1>2 DEF Coherent, Dark, SetTo, Touches
<1>6. QED
  BY <1>1, <1>3, <1>4, <1>5 DEF Coherent

\* ... nor the focus distances from the focus mode.
LEMMA SetKeeps ==
  ASSUME NEW c, NEW d, NEW s \in Settings, NEW v, NEW ok, Good(c), SetTo(c, d, ok, s, v)
  PROVE  Good(d)
<1>1. Coherent(d)
  BY SetSound DEF Good
<1>2. c.failed \subseteq d.failed /\ d.param = c.param /\ d.distances = c.distances
  BY DEF SetTo, Touches
<1>3. Fits(d)
  BY <1>2 DEF Good, Fits
<1>4. QED
  BY <1>1, <1>3 DEF Good

-----------------------------------------------------------------------------
(* setParameters(): the settings that are done stay done.                  *)

\* What setParameters() keeps of the camera it begins with.
Unmoved(c, d) ==
  /\ d.id = c.id /\ d.run = c.run /\ d.rec = c.rec /\ c.failed \subseteq d.failed
  /\ d.cache["iso"] = Movie => c.cache["iso"] = Movie

\* AcceptedIsSet of the settings S, under way.
Done(w, p, S) ==
  w.r.c.id = "back" /\ ~ w.bad /\ w.r.c.failed = {} =>
    \A s \in S :
      p[s] # Ignored =>
        /\ w.r.c.param[s] = p[s]
        /\ w.r.c.run /\ s \notin {"focus", "quality"} => w.r.c.sensor[s] = p[s]

Stage(c, w, p, S) == w \in Works /\ Good(w.r.c) /\ Unmoved(c, w.r.c) /\ Done(w, p, S)

Reports(c, s, v) == [c EXCEPT !.param = [@ EXCEPT ![s] = v]]

\* A step of setParameters(), and whether it was an error.
LEMMA DoIs ==
  ASSUME NEW w \in Works, NEW q \in Rs, NEW w2, w2 = Do(w, q)
  PROVE  /\ w2 \in Works /\ w2.r.c = q.c /\ w2.r.f = q.f
         /\ ~ w2.bad => (~ w.bad /\ q.ok)
<1>1. [q EXCEPT !.ok = TRUE] \in Rs
  BY DEF Rs
<1>2. w2 = [r |-> [q EXCEPT !.ok = TRUE], bad |-> w.bad \/ ~ q.ok]
  BY DEF Do
<1>3. w.bad \in BOOLEAN /\ q.ok \in BOOLEAN
  BY DEF Works, Rs
<1>4. [q EXCEPT !.ok = TRUE].c = q.c /\ [q EXCEPT !.ok = TRUE].f = q.f
  BY DEF Rs
<1>5. w2 \in Works /\ w2.r = [q EXCEPT !.ok = TRUE] /\ w2.bad = (w.bad \/ ~ q.ok)
  BY <1>1, <1>2, <1>3 DEF Works
<1>6. QED
  BY <1>4, <1>5

LEMMA SetSame ==
  ASSUME NEW c, NEW b, NEW d, NEW s \in Settings, NEW v, NEW ok, c \in Cams,
         SetTo(c, d, ok, s, v), Unmoved(b, c), s = "iso" => v # Movie
  PROVE  Unmoved(b, d)
<1>1. /\ d.id = c.id /\ d.run = c.run /\ d.rec = c.rec /\ c.failed \subseteq d.failed
  BY DEF SetTo, Touches
<1>2. d.cache["iso"] = c.cache["iso"] \/ d.cache["iso"] # Movie
  BY DEF SetTo, Touches, Settings, Block
<1>3. QED
  BY <1>1, <1>2 DEF Unmoved

\* A setting outside S.
LEMMA StageSet ==
  ASSUME NEW c, NEW w, NEW p, NEW S \in SUBSET Settings, NEW s \in Settings \ S, NEW v, NEW q \in Rs,
         Stage(c, w, p, S), SetTo(w.r.c, q.c, q.ok, s, v), s = "iso" => v # Movie,
         NEW w2, w2 = Do(w, q)
  PROVE  Stage(c, w2, p, S)
<1>1. /\ w2 \in Works /\ w2.r.c = q.c
      /\ ~ w2.bad => (~ w.bad /\ q.ok)
  BY DoIs DEF Stage
<1>2. Good(w.r.c) /\ w.r.c \in Cams
  BY DEF Stage, Good, Coherent
<1>3. Good(q.c)
  BY <1>2, SetKeeps
<1>4. Unmoved(c, q.c)
  BY <1>2, SetSame DEF Stage
<1>5. Done(w2, p, S)
  <2>1. /\ q.c.id = w.r.c.id /\ q.c.run = w.r.c.run /\ w.r.c.failed \subseteq q.c.failed
        /\ q.c.param = w.r.c.param
        /\ \A t \in S : q.c.sensor[t] = w.r.c.sensor[t]
    BY DEF SetTo, Touches
  <2>2. QED
    BY <1>1, <2>1 DEF Stage, Done
<1>6. QED
  BY <1>1, <1>3, <1>4, <1>5 DEF Stage

LEMMA ReportsKeeps ==
  ASSUME NEW c, NEW s \in Reported \ {"focus"}, NEW v \in Asks[s] \ {Unknown, Refused, Ignored},
         Good(c), NEW d, d = Reports(c, s, v)
  PROVE  /\ Good(d) /\ d.id = c.id /\ d.run = c.run /\ d.rec = c.rec /\ d.failed = c.failed
         /\ d.cache = c.cache /\ d.sensor = c.sensor /\ d.pending = c.pending
         /\ d.param[s] = v /\ \A t \in Reported \ {s} : d.param[t] = c.param[t]
<1>1. c \in Cams
  BY DEF Good, Coherent
<1>2. v \in 0..2
  BY DEF Asks, Reported, Default, Public, Named, Unknown, Refused, Ignored, Macro, Face, Torch, Night
<1>3. /\ d \in Cams /\ d.id = c.id /\ d.run = c.run /\ d.rec = c.rec /\ d.failed = c.failed
      /\ d.cache = c.cache /\ d.sensor = c.sensor /\ d.pending = c.pending /\ d.distances = c.distances
      /\ d.param[s] = v /\ \A t \in Reported \ {s} : d.param[t] = c.param[t]
  BY <1>1, <1>2 DEF Cams, Reports
<1>4. "focus" \in Reported
  BY DEF Reported, Default, Public
<1>5. d.param["focus"] = c.param["focus"]
  BY <1>3, <1>4
<1>6. Askable(d)
  BY <1>3 DEF Good, Coherent, Askable
<1>7. Fits(d)
  BY <1>3, <1>5 DEF Good, Fits
<1>8. Follows(d) /\ Dark(d)
  BY <1>3 DEF Good, Coherent, Follows, Dark, SentBy, Apart
<1>9. QED
  BY <1>3, <1>6, <1>7, <1>8 DEF Good, Coherent

\* A public setting but for the focus; q is what its setter gave.
LEMMA StageOffer ==
  ASSUME NEW c, NEW w, NEW p, NEW S \in SUBSET Public, NEW s \in Public \ {"focus"}, s \notin S,
         NEW v \in Asks[s], v = p[s], NEW q, Stage(c, w, p, S),
         v \notin {Unknown, Ignored} => q \in Rs /\ SetTo(w.r.c, q.c, q.ok, s, v),
         NEW w2, w2 = Offer(w, s, v, q)
  PROVE  Stage(c, w2, p, S \cup {s})
<1>1. w \in Works /\ Good(w.r.c) /\ Unmoved(c, w.r.c) /\ Done(w, p, S)
  BY DEF Stage
<1>2. CASE v = Unknown
  <2>1. w2 \in Works /\ w2.r = w.r /\ w2.bad = TRUE
    <3>1. w2 = [w EXCEPT !.bad = TRUE]
      BY <1>2 DEF Offer, Bad, Unknown, Ignored
    <3>2. QED
      BY <1>1, <3>1 DEF Works
  <2>2. QED
    BY <1>1, <2>1 DEF Stage, Done
<1>3. CASE v = Ignored
  <2>1. w2 = w
    BY <1>3 DEF Offer, Unknown, Ignored
  <2>2. Done(w, p, S \cup {s})
    BY <1>1, <1>3 DEF Done
  <2>3. QED
    BY <1>1, <2>1, <2>2 DEF Stage
<1>4. CASE v \notin {Unknown, Ignored}
  <2> DEFINE d == Reports(q.c, s, v)
             g == IF q.ok THEN [q EXCEPT !.c = d] ELSE q
  <2>1. q \in Rs /\ SetTo(w.r.c, q.c, q.ok, s, v) /\ q.c \in Cams /\ q.ok \in BOOLEAN
    BY <1>4 DEF Rs
  <2>2. s \in Settings \ S /\ s \in Reported
    BY DEF Public, Settings, Block, Others, Reported, Default
  <2>3. Good(q.c)
    BY <1>1, <2>1, <2>2, SetKeeps
  <2>4. w2 = Do(w, g)
    <3>1. w2 = Do(w, IF q.ok THEN [q EXCEPT !.c.param[s] = v] ELSE q)
      BY <1>4 DEF Offer
    <3>2. [q EXCEPT !.c.param[s] = v] = [q EXCEPT !.c = d]
      BY <2>1 DEF Rs, Reports
    <3>3. QED
      BY <3>1, <3>2
  <2>5. s = "iso" => v # Movie
    BY DEF Asks, Public, Default, Named, Movie, Unknown
  <2>6. Unmoved(c, q.c)
    <3>1. w.r.c \in Cams
      BY <1>1 DEF Good, Coherent
    <3>2. QED
      BY <1>1, <2>1, <2>2, <2>5, <3>1, SetSame
  <2>7. /\ q.c.id = w.r.c.id /\ q.c.run = w.r.c.run /\ w.r.c.failed \subseteq q.c.failed
        /\ q.c.param = w.r.c.param
        /\ \A t \in S : q.c.sensor[t] = w.r.c.sensor[t]
    <3>1. S \subseteq Settings \ {s}
      BY DEF Public, Settings, Block, Others
    <3>2. QED
      BY <2>1, <3>1 DEF SetTo, Touches
  <2>8. CASE ~ q.ok
    <3>1. w2 = Do(w, q)
      BY <2>4, <2>8
    <3>2. w2 \in Works /\ w2.r.c = q.c /\ (~ w2.bad => q.ok)
      BY <1>1, <2>1, <3>1, DoIs
    <3>3. Done(w2, p, S \cup {s})
      BY <2>8, <3>2 DEF Done
    <3>4. QED
      BY <2>3, <2>6, <3>2, <3>3 DEF Stage
  <2>9. CASE q.ok
    <3>1. v \in Asks[s] \ {Unknown, Refused, Ignored} /\ q.c.cache[s] = v
      <4>1. v \in Accepted
        BY <2>1, <2>9 DEF SetTo
      <4>2. QED
        BY <1>4, <2>1, <4>1 DEF SetTo, Accepted, Refused
    <3>2. /\ Good(d) /\ d.id = q.c.id /\ d.run = q.c.run /\ d.rec = q.c.rec /\ d.failed = q.c.failed
          /\ d.cache = q.c.cache /\ d.sensor = q.c.sensor
          /\ d.param[s] = v /\ \A t \in Reported \ {s} : d.param[t] = q.c.param[t]
      BY <2>2, <2>3, <3>1, ReportsKeeps
    <3> HIDE DEF d
    <3>3. g \in Rs /\ g.c = d
      <4>1. d \in Cams
        BY <3>2 DEF Good, Coherent
      <4>2. QED
        BY <2>1, <2>9, <4>1 DEF Rs
    <3> HIDE DEF g
    <3>4. w2 \in Works /\ w2.r.c = d /\ (~ w2.bad => ~ w.bad)
      BY <1>1, <2>4, <3>3, DoIs
    <3>5. Unmoved(c, d)
      BY <2>6, <3>2 DEF Unmoved
    <3>6. d.id = "back" /\ d.failed = {} /\ d.run /\ s # "quality" => d.sensor[s] = v
      <4>1. d.id = "back" => s \in SentBy(d) \/ s = "quality"
        BY DEF SentBy, Public, Block, Forced
      <4>2. s \notin {"focus", "face", "rate"}
        BY DEF Public
      <4>3. QED
        BY <3>1, <3>2, <4>1, <4>2 DEF Good, Coherent, Follows, Apart
    <3>7. Done(w2, p, S \cup {s})
      <4> SUFFICES ASSUME w2.r.c.id = "back", ~ w2.bad, w2.r.c.failed = {},
                          NEW t \in S \cup {s}, p[t] # Ignored
                   PROVE  /\ w2.r.c.param[t] = p[t]
                          /\ w2.r.c.run /\ t \notin {"focus", "quality"} => w2.r.c.sensor[t] = p[t]
        BY DEF Done
      <4>1. CASE t = s
        BY <3>2, <3>4, <3>6, <4>1
      <4>2. CASE t \in S
        <5>1. ~ w.bad /\ w.r.c.id = "back" /\ w.r.c.failed = {}
          BY <2>7, <3>2, <3>4
        <5>2. /\ w.r.c.param[t] = p[t]
              /\ w.r.c.run /\ t \notin {"focus", "quality"} => w.r.c.sensor[t] = p[t]
          BY <1>1, <4>2, <5>1 DEF Done
        <5>3. d.param[t] = w.r.c.param[t] /\ d.sensor[t] = w.r.c.sensor[t] /\ d.run = w.r.c.run
          <6>1. t \in Reported \ {s}
            BY <4>2 DEF Public, Reported, Default
          <6>2. QED
            BY <2>7, <3>2, <4>2, <6>1
        <5>4. QED
          BY <3>4, <5>2, <5>3
      <4>3. QED
        BY <4>1, <4>2
    <3>8. QED
      BY <3>2, <3>4, <3>5, <3>7 DEF Stage
  <2>10. QED
    BY <2>1, <2>8, <2>9
<1>5. QED
  BY <1>2, <1>3, <1>4

\* The JPEG quality, which only the back camera's sensor has.
LEMMA JpegIs ==
  ASSUME NEW r \in Rs, NEW v \in Accepted, NEW q, q = setJpegQuality(r, v)
  PROVE  q \in Rs /\ SetTo(r.c, q.c, q.ok, "quality", v)
<1>1. "quality" \in Settings /\ v \in Int /\ v \in Values /\ r.c \in Cams
  BY DEF Settings, Others, Accepted, Values, Rs
<1>2. CASE r.c.id = "back"
  <2>1. q = Set(r, "quality", v)
    BY <1>2 DEF setJpegQuality
  <2>2. QED
    BY <1>1, <2>1, SetIs
<1>3. CASE r.c.id # "back"
  <2> DEFINE d == Kept(r.c, "quality", v)
  <2>1. q = [r EXCEPT !.ok = TRUE, !.c = d]
    BY <1>1, <1>3 DEF setJpegQuality, Kept, Rs, Cams
  <2>2. /\ Touches(r.c, d, {"quality"}) /\ d.cache["quality"] = v /\ d.sensor = r.c.sensor /\ d.param = r.c.param
        /\ d.distances = r.c.distances /\ d.failed = r.c.failed /\ d.pending = r.c.pending
    <3>1. r.c \in Cams /\ "quality" \in Settings /\ v \in Values
      BY <1>1
    <3>2. QED
      <4>1. KeptIs(r.c, d, "quality", v)
        BY <3>1, TouchesCache
      <4>2. QED
        BY <4>1 DEF KeptIs
  <2> HIDE DEF d
  <2>3. q \in Rs /\ q.c = d /\ q.ok = TRUE
    <3>1. d \in Cams
      BY <2>2 DEF Touches
    <3>2. QED
      BY <2>1, <3>1 DEF Rs
  <2>4. QED
    BY <2>2, <2>3 DEF SetTo
<1>4. QED
  BY <1>2, <1>3

\* What setFaceDetect() makes of a camera.
FaceBy(c, d) ==
  /\ Touches(c, d, {"face", "focus"}) /\ d.param = c.param /\ d.distances = c.distances
  /\ d.cache["focus"] = c.cache["focus"] /\ d.sensor["focus"] \in {c.sensor["focus"], 0}
  /\ \/ ~ c.run \/ {"face", "focus"} \cap d.failed # {} \/ d.sensor["face"] = d.cache["face"]
     \/ d.sensor["face"] = c.sensor["face"] /\ d.cache["face"] = c.cache["face"]

\* ... which is one of the ways the sensor may be apart.
LEMMA FaceSound ==
  ASSUME NEW c, NEW d, Coherent(c), FaceBy(c, d)
  PROVE  Coherent(d)
<1>1. d \in Cams /\ c \in Cams /\ SentBy(d) = SentBy(c) /\ d.run = c.run
  BY DEF Coherent, FaceBy, Touches, SentBy
<1>2. c.failed \subseteq d.failed /\ d.param = c.param
  BY DEF FaceBy, Touches
<1>3. Follows(d)
  <2> SUFFICES ASSUME d.run, {"parm", "batch"} \cap d.failed = {}, NEW t \in SentBy(d) \ d.failed
               PROVE  d.sensor[t] = d.cache[t] \/ Apart(d, t)
    BY DEF Follows
  <2>1. t \in Settings
    BY DEF SentBy, Settings, Block, Others, Forced
  <2>2. c.sensor[t] = c.cache[t] \/ Apart(c, t)
    BY <1>1, <1>2 DEF Coherent, Follows
  <2>3. CASE d.cache[t] = c.cache[t] /\ d.sensor[t] = c.sensor[t]
    BY <1>2, <2>2, <2>3 DEF Apart
  <2>4. CASE t = "focus"
    BY <2>2, <2>3, <2>4 DEF FaceBy, Apart
  <2>5. CASE t = "face"
    BY <1>1, <2>2, <2>3, <2>5 DEF FaceBy, Apart
  <2>6. CASE t \notin {"face", "focus"}
    BY <2>1, <2>3, <2>6 DEF FaceBy, Touches
  <2>7. QED
    BY <2>4, <2>5, <2>6
<1>4. Askable(d)
  BY <1>2 DEF Coherent, Askable
<1>5. Dark(d)
  BY <1>1, <1>2 DEF Coherent, Dark, FaceBy, Touches
<1>6. QED
  BY <1>1, <1>3, <1>4, <1>5 DEF Coherent

\* Sending from a camera that runs.
SentOn(r, q, s, v) ==
  /\ q \in Rs /\ Touches(r.c, q.c, {s}) /\ q.c.cache = r.c.cache /\ q.c.param = r.c.param
  /\ q.c.distances = r.c.distances /\ q.c.pending \subseteq r.c.pending \cup {s}
  /\ \/ s \in q.c.failed /\ q.c.sensor = r.c.sensor /\ q.ok = FALSE
     \/ q.c.sensor[s] = v /\ q.ok = TRUE

LEMMA SentBack ==
  ASSUME NEW r \in Rs, r.c.run = TRUE, NEW s \in Settings, NEW v \in Values,
         NEW q, q = s_ctrl(r, s, v)
  PROVE  SentOn(r, q, s, v)
<1>1. SentTo(r, q, s, v) /\ r.c \in Cams
  BY SctrlIs DEF Rs
<1>2. CASE q.ok = FALSE /\ q.c = Lost(r.c, s)
  <2>1. s \in SetKinds
    BY DEF SetKinds
  <2>2. /\ Touches(r.c, q.c, {}) /\ q.c.cache = r.c.cache /\ q.c.sensor = r.c.sensor /\ q.c.param = r.c.param
        /\ q.c.distances = r.c.distances /\ q.c.failed = r.c.failed \cup {s} /\ q.c.pending = r.c.pending
    <3>1. LostIs(r.c, q.c, s)
      BY <1>1, <1>2, <2>1, TouchesFailed
    <3>2. QED
      BY <3>1 DEF LostIs
  <2>3. Touches(r.c, q.c, {s})
    BY <2>2 DEF Touches
  <2>4. q \in Rs
    BY <1>1 DEF SentTo
  <2>5. QED
    BY <1>2, <2>2, <2>3, <2>4 DEF SentOn
<1>3. CASE q.ok = TRUE /\ q.c = Sent(r.c, s, v)
  <2>1. Touches(r.c, q.c, {s})
    BY <1>1, <1>3, RunningTouches
  <2>2. /\ q.c.cache = r.c.cache /\ q.c.param = r.c.param /\ q.c.distances = r.c.distances /\ q.c.sensor[s] = v
        /\ q.c.pending = r.c.pending \cup {s}
    <3>1. SentIs(r.c, q.c, s, v)
      BY <1>1, <1>3, TouchesSensor
    <3>2. QED
      BY <3>1 DEF SentIs
  <2>3. q \in Rs
    BY <1>1 DEF SentTo
  <2>4. QED
    BY <1>3, <2>1, <2>2, <2>3 DEF SentOn
<1>4. QED
  BY <1>1, <1>2, <1>3 DEF SentTo

\* Face detection sets the automatic focus behind the cached one.
LEMMA FaceIs ==
  ASSUME NEW r \in Rs, NEW v \in {0, 1}, NEW q, q = setFaceDetect(r, v)
  PROVE  q \in Rs /\ FaceBy(r.c, q.c)
<1>1. r.c \in Cams /\ r.c.run \in BOOLEAN /\ v \in Values /\ 0 \in Values /\ {"face", "focus"} \subseteq Settings
  BY DEF Rs, Cams, Values, Accepted, Settings, Block, Others
<1>2. CASE r.c.cache["face"] = v
  <2>1. q = [r EXCEPT !.ok = TRUE]
    BY <1>2 DEF setFaceDetect
  <2>2. q \in Rs /\ q.c = r.c
    BY <2>1 DEF Rs
  <2>3. QED
    BY <1>1, <2>2 DEF FaceBy, Touches
<1>3. CASE r.c.cache["face"] # v
  <2> DEFINE d == Kept(r.c, "face", v)
             kept == [r EXCEPT !.ok = TRUE, !.c = d]
             focus == IF v = 0 THEN kept ELSE s_ctrl(kept, "focus", 0)
  <2>1. q = IF ~ r.c.run THEN kept ELSE IF focus.ok THEN s_ctrl(focus, "face", v) ELSE focus
    <3>1. [r EXCEPT !.ok = TRUE, !.c.cache["face"] = v] = kept
      BY <1>1 DEF Kept, Rs, Cams
    <3>2. QED
      BY <1>3, <3>1 DEF setFaceDetect
  <2>2. /\ Touches(r.c, d, {"face"}) /\ d.cache["face"] = v /\ d.sensor = r.c.sensor /\ d.param = r.c.param
        /\ d.distances = r.c.distances /\ d.failed = r.c.failed
    <3>1. r.c \in Cams /\ "face" \in Settings /\ v \in Values
      BY <1>1
    <3>2. KeptIs(r.c, d, "face", v)
      BY <3>1, TouchesCache
    <3>3. QED
      BY <3>2 DEF KeptIs
  <2> HIDE DEF d
  <2>3. d \in Cams /\ d.run = r.c.run /\ d.cache["focus"] = r.c.cache["focus"]
    BY <1>1, <2>2 DEF Touches
  <2>4. kept \in Rs /\ kept.c = d /\ kept.ok = TRUE
    BY <2>3 DEF Rs
  <2> HIDE DEF kept
  <2>5. CASE ~ r.c.run
    <3>1. Touches(r.c, d, {"face", "focus"})
      BY <2>2 DEF Touches
    <3>2. QED
      BY <2>1, <2>2, <2>3, <2>4, <2>5, <3>1 DEF FaceBy
  <2>6. CASE r.c.run
    <3>1. /\ focus \in Rs /\ Touches(d, focus.c, {"focus"}) /\ focus.c.cache = d.cache
          /\ focus.c.param = d.param /\ focus.c.distances = d.distances
          /\ focus.c.sensor["focus"] \in {d.sensor["focus"], 0}
          /\ focus.ok = TRUE \/ (focus.ok = FALSE /\ "focus" \in focus.c.failed)
      <4>1. CASE v = 0
        <5>1. Touches(d, d, {"focus"})
          BY <2>3 DEF Touches
        <5>2. QED
          BY <2>4, <4>1, <5>1
      <4>2. CASE v # 0
        <5>1. kept.c.run = TRUE
          BY <1>1, <2>3, <2>4, <2>6
        <5>2. focus = s_ctrl(kept, "focus", 0)
          BY <4>2
        <5> HIDE DEF focus
        <5>3. SentOn(kept, focus, "focus", 0)
          <6>1. "focus" \in Settings /\ 0 \in Values
            BY <1>1
          <6>2. QED
            BY <2>4, <5>1, <5>2, <6>1, SentBack
        <5>4. QED
          BY <2>4, <5>3 DEF SentOn
      <4>3. QED
        BY <4>1, <4>2
    <3> HIDE DEF focus
    <3>2. Touches(r.c, focus.c, {"face", "focus"})
      <4>1. Touches(r.c, focus.c, {"face"} \cup {"focus"})
        BY <2>2, <3>1, TouchesTwice
      <4>2. {"face"} \cup {"focus"} = {"face", "focus"}
        OBVIOUS
      <4>3. QED
        BY <4>1, <4>2
    <3>3. CASE focus.ok = FALSE
      <4>1. q = focus
        BY <2>1, <2>6, <3>3
      <4>2. QED
        BY <2>2, <2>3, <3>1, <3>2, <3>3, <4>1 DEF FaceBy
    <3>4. CASE focus.ok = TRUE
      <4>1. q = s_ctrl(focus, "face", v)
        BY <2>1, <2>6, <3>4
      <4>2. focus.c.run = TRUE
        BY <1>1, <2>6, <3>2 DEF Touches
      <4>3. SentOn(focus, q, "face", v)
        <5>1. "face" \in Settings /\ v \in Values
          BY <1>1
        <5>2. QED
          BY <3>1, <4>1, <4>2, <5>1, SentBack
      <4>4. Touches(r.c, q.c, {"face", "focus"})
        <5>1. Touches(r.c, q.c, {"face", "focus"} \cup {"face"})
          BY <3>2, <4>3, TouchesTwice DEF SentOn
        <5>2. {"face", "focus"} \cup {"face"} = {"face", "focus"}
          OBVIOUS
        <5>3. QED
          BY <5>1, <5>2
      <4>5. q.c.sensor["focus"] = focus.c.sensor["focus"]
        BY <4>3 DEF SentOn, Touches, Settings, Block
      <4>6. QED
        BY <2>2, <2>3, <3>1, <4>3, <4>4, <4>5 DEF FaceBy, SentOn
    <3>5. QED
      BY <3>1, <3>3, <3>4
  <2>7. QED
    BY <2>5, <2>6
<1>4. QED
  BY <1>2, <1>3

\* Reporting a focus mode whose distances are in place.
LEMMA ReportsFocus ==
  ASSUME NEW c, NEW v \in {0, Macro, Face}, Coherent(c), NEW d, d = Reports(c, "focus", v),
         c.distances = IF v = Face THEN 0 ELSE v
  PROVE  /\ Good(d) /\ d.id = c.id /\ d.run = c.run /\ d.rec = c.rec /\ d.failed = c.failed
         /\ d.cache = c.cache /\ d.sensor = c.sensor
         /\ d.param["focus"] = v /\ \A t \in Reported \ {"focus"} : d.param[t] = c.param[t]
<1>1. c \in Cams
  BY DEF Coherent
<1>2. v \in 0..2 /\ "focus" \in Reported /\ v \in Asks["focus"] \ {Unknown, Refused, Ignored}
  BY DEF Asks, Reported, Default, Public, Named, Unknown, Refused, Ignored, Macro, Face
<1>3. /\ d \in Cams /\ d.id = c.id /\ d.run = c.run /\ d.rec = c.rec /\ d.failed = c.failed
      /\ d.cache = c.cache /\ d.sensor = c.sensor /\ d.distances = c.distances
      /\ d.param["focus"] = v /\ \A t \in Reported \ {"focus"} : d.param[t] = c.param[t]
  BY <1>1, <1>2 DEF Cams, Reports
<1>4. Askable(d)
  BY <1>2, <1>3 DEF Coherent, Askable
<1>5. Fits(d)
  BY <1>3 DEF Fits
<1>6. Follows(d) /\ Dark(d)
  BY <1>3 DEF Coherent, Follows, Dark, SentBy, Apart
<1>7. QED
  BY <1>3, <1>4, <1>5, <1>6 DEF Good, Coherent

\* From w to w2 the settings S are left alone.
Alone(w, w2, S) ==
  /\ Unmoved(w.r.c, w2.r.c) /\ (~ w2.bad => ~ w.bad)
  /\ \A t \in S : w2.r.c.param[t] = w.r.c.param[t] /\ w2.r.c.sensor[t] = w.r.c.sensor[t]

LEMMA AloneDone ==
  ASSUME NEW w, NEW w2, NEW p, NEW S, Done(w, p, S), Alone(w, w2, S)
  PROVE  Done(w2, p, S)
BY DEF Done, Alone, Unmoved

LEMMA AloneTwice ==
  ASSUME NEW w, NEW w2, NEW w3, NEW S, Alone(w, w2, S), Alone(w2, w3, S)
  PROVE  Alone(w, w3, S)
BY DEF Alone, Unmoved

LEMMA SameTwice ==
  ASSUME NEW b, NEW c, NEW d, Unmoved(b, c), Unmoved(c, d)
  PROVE  Unmoved(b, d)
BY DEF Unmoved

\* The focus: face detection, its distances and the mode, one after the other.
LEMMA StageFocus ==
  ASSUME NEW c, NEW w, NEW p, NEW S \in SUBSET (Public \ {"focus"}), Stage(c, w, p, S),
         NEW v \in Asks["focus"], v = p["focus"], NEW w2, w2 = OfferFocus(w, v)
  PROVE  Stage(c, w2, p, S \cup {"focus"})
<1>1. w \in Works /\ Good(w.r.c) /\ Unmoved(c, w.r.c) /\ Done(w, p, S) /\ w.r.c \in Cams
  BY DEF Stage, Good, Coherent
<1>2. v \in {0, Macro, Face, Unknown} /\ {"face", "focus"} \subseteq Settings /\ S \subseteq Settings
  BY DEF Asks, Public, Default, Named, Settings, Block, Others
<1>3. CASE v = Unknown
  <2>1. w2 \in Works /\ w2.r = w.r /\ w2.bad = TRUE
    <3>1. w2 = [w EXCEPT !.bad = TRUE]
      BY <1>3 DEF OfferFocus, Bad
    <3>2. QED
      BY <1>1, <3>1 DEF Works
  <2>2. QED
    BY <1>1, <2>1 DEF Stage, Done
<1>4. CASE v \in {0, Macro, Face}
  <2> DEFINE far == [w EXCEPT !.r.c.distances = IF v = Face THEN 0 ELSE v]
             a == far.r.c
             x == IF v = Face THEN 1 ELSE 0
             q == setFaceDetect(far.r, x)
             on == Do(far, q)
             d == on.r.c
  <2>1. /\ far \in Works /\ far.bad = w.bad /\ a = [w.r.c EXCEPT !.distances = IF v = Face THEN 0 ELSE v]
    BY <1>1, <1>4 DEF Works, Rs, Cams, Macro, Face
  <2>2. /\ Coherent(a) /\ Alone(w, far, S) /\ a.distances = IF v = Face THEN 0 ELSE v
    <3>1. /\ a \in Cams /\ a.id = w.r.c.id /\ a.run = w.r.c.run /\ a.rec = w.r.c.rec /\ a.failed = w.r.c.failed
          /\ a.cache = w.r.c.cache /\ a.sensor = w.r.c.sensor /\ a.param = w.r.c.param
          /\ a.distances = IF v = Face THEN 0 ELSE v
      BY <1>1, <1>4, <2>1 DEF Cams, Macro, Face
    <3> HIDE DEF a
    <3>2. Follows(a) /\ Dark(a) /\ Askable(a)
      BY <1>1, <3>1 DEF Good, Coherent, Follows, Dark, Askable, SentBy, Apart
    <3>3. Alone(w, far, S)
      BY <2>1, <3>1 DEF Alone, Unmoved, a
    <3>4. QED
      BY <3>1, <3>2, <3>3 DEF Coherent
  <2>3. far.r \in Rs
    BY <2>1 DEF Works
  <2> HIDE DEF far
  <2>4. q \in Rs /\ FaceBy(a, q.c)
    BY <2>3, FaceIs
  <2> HIDE DEF q
  <2>5. on \in Works /\ d = q.c /\ (~ on.bad => ~ far.bad)
    BY <2>1, <2>4, DoIs
  <2>6. Coherent(d) /\ Alone(far, on, S) /\ d.distances = IF v = Face THEN 0 ELSE v
    <3>1. Coherent(d)
      BY <2>2, <2>4, <2>5, FaceSound
    <3>2. d.distances = a.distances
      BY <2>4, <2>5 DEF FaceBy
    <3>3. S \subseteq Settings \ {"face", "focus"} /\ "iso" \in Settings \ {"face", "focus"}
      BY DEF Public, Settings, Block, Others
    <3>4. Unmoved(a, d)
      BY <2>4, <2>5, <3>3 DEF FaceBy, Touches, Unmoved
    <3>5. \A t \in S : d.param[t] = a.param[t] /\ d.sensor[t] = a.sensor[t]
      BY <2>4, <2>5, <3>3 DEF FaceBy, Touches
    <3>6. QED
      BY <2>2, <2>5, <3>1, <3>2, <3>4, <3>5 DEF Alone
  <2>7. Alone(w, on, S)
    BY <2>2, <2>6, AloneTwice
  <2> HIDE DEF on
  <2>8. \A t \in S : t \in Reported \ {"focus"}
    BY DEF Public, Reported, Default
  <2>9. CASE v = Face
    <3> DEFINE e == Reports(d, "focus", v)
    <3>1. w2 = [on EXCEPT !.r.c.param["focus"] = Face]
      BY <2>9 DEF OfferFocus, on, q, far, Unknown, Face
    <3>2. /\ Good(e) /\ e.id = d.id /\ e.run = d.run /\ e.rec = d.rec /\ e.failed = d.failed
          /\ e.cache = d.cache /\ e.sensor = d.sensor
          /\ e.param["focus"] = v /\ \A t \in Reported \ {"focus"} : e.param[t] = d.param[t]
      BY <1>4, <2>6, ReportsFocus
    <3>3. w2 \in Works /\ w2.r.c = e /\ w2.bad = on.bad
      <4>1. e \in Cams
        BY <3>2 DEF Good, Coherent
      <4>2. w2 = [on EXCEPT !.r = [@ EXCEPT !.c = e]]
        BY <2>5, <2>9, <3>1 DEF Reports, Works, Rs, Cams
      <4> HIDE DEF e
      <4>3. QED
        BY <2>5, <4>1, <4>2 DEF Works, Rs
    <3> HIDE DEF e
    <3>4. Alone(on, w2, S)
      BY <2>8, <3>2, <3>3 DEF Alone, Unmoved
    <3>5. Done(w2, p, S)
      BY <1>1, <2>7, <3>4, AloneTwice, AloneDone
    <3>6. Unmoved(c, e)
      <4>1. Alone(w, w2, S)
        BY <2>7, <3>4, AloneTwice
      <4>2. Unmoved(w.r.c, e)
        BY <3>3, <4>1 DEF Alone
      <4>3. QED
        BY <1>1, <4>2, SameTwice
    <3>7. Done(w2, p, S \cup {"focus"})
      BY <3>2, <3>3, <3>5 DEF Done
    <3>8. QED
      BY <3>2, <3>3, <3>6, <3>7 DEF Stage
  <2>10. CASE v # Face
    <3> DEFINE g == setFocusMode(on.r, v)
    <3>1. w2 = Offer(on, "focus", v, g)
      BY <1>4, <2>10 DEF OfferFocus, on, q, far, Unknown, Face, Macro
    <3>2. v \in Accepted /\ v \in Int
      BY <1>4 DEF Accepted, Macro, Face
    <3>3. g \in Rs /\ SetTo(d, g.c, g.ok, "focus", v)
      <4>1. on.r \in Rs
        BY <2>5 DEF Works
      <4>2. QED
        BY <1>2, <3>2, <4>1, SetIs DEF setFocusMode
    <3> HIDE DEF g
    <3>4. Coherent(g.c)
      BY <1>2, <2>6, <3>3, SetSound
    <3>5. Unmoved(d, g.c) /\ \A t \in S : g.c.param[t] = d.param[t] /\ g.c.sensor[t] = d.sensor[t]
      <4>1. S \subseteq Settings \ {"focus"} /\ "iso" \in Settings \ {"focus"}
        BY DEF Public, Settings, Block, Others
      <4>2. QED
        BY <3>3, <4>1 DEF SetTo, Touches, Unmoved
    <3>6. g.c.distances = v
      BY <2>6, <2>10, <3>3 DEF SetTo
    <3>7. CASE ~ g.ok
      <4>1. w2 = Do(on, g)
        BY <1>4, <3>1, <3>7 DEF Offer, Unknown, Ignored, Macro, Face
      <4>2. w2 \in Works /\ w2.r.c = g.c /\ (~ w2.bad => (~ on.bad /\ g.ok))
        BY <2>5, <3>3, <4>1, DoIs
      <4>3. "focus" \in g.c.failed
        BY <3>2, <3>3, <3>7 DEF SetTo
      <4>4. Fits(g.c)
        BY <4>3 DEF Fits
      <4>5. Unmoved(c, g.c)
        BY <1>1, <2>7, <3>5, SameTwice DEF Alone
      <4>6. Done(w2, p, S \cup {"focus"})
        BY <4>2, <4>3 DEF Done
      <4>7. QED
        BY <3>4, <4>2, <4>4, <4>5, <4>6 DEF Stage, Good
    <3>8. CASE g.ok
      <4> DEFINE e == Reports(g.c, "focus", v)
                 h == [g EXCEPT !.c = e]
      <4>1. w2 = Do(on, h)
        <5>1. w2 = Do(on, [g EXCEPT !.c.param["focus"] = v])
          BY <1>4, <3>1, <3>8 DEF Offer, Unknown, Ignored, Macro, Face
        <5>2. [g EXCEPT !.c.param["focus"] = v] = h
          BY <3>3 DEF Rs, Reports
        <5>3. QED
          BY <5>1, <5>2
      <4>2. /\ Good(e) /\ e.id = g.c.id /\ e.run = g.c.run /\ e.rec = g.c.rec /\ e.failed = g.c.failed
            /\ e.cache = g.c.cache /\ e.sensor = g.c.sensor
            /\ e.param["focus"] = v /\ \A t \in Reported \ {"focus"} : e.param[t] = g.c.param[t]
        BY <1>4, <2>10, <3>4, <3>6, ReportsFocus
      <4> HIDE DEF e
      <4>3. h \in Rs /\ h.c = e
        <5>1. e \in Cams
          BY <4>2 DEF Good, Coherent
        <5>2. QED
          BY <3>3, <5>1 DEF Rs
      <4> HIDE DEF h
      <4>4. w2 \in Works /\ w2.r.c = e /\ (~ w2.bad => ~ on.bad)
        BY <2>5, <4>1, <4>3, DoIs
      <4>5. Alone(on, w2, S)
        BY <2>8, <3>5, <4>2, <4>4 DEF Alone, Unmoved
      <4>6. Done(w2, p, S)
        BY <1>1, <2>7, <4>5, AloneTwice, AloneDone
      <4>7. Unmoved(c, e)
        <5>1. Alone(w, w2, S)
          BY <2>7, <4>5, AloneTwice
        <5>2. Unmoved(w.r.c, e)
          BY <4>4, <5>1 DEF Alone
        <5>3. QED
          BY <1>1, <5>2, SameTwice
      <4>8. Done(w2, p, S \cup {"focus"})
        BY <4>2, <4>4, <4>6 DEF Done
      <4>9. QED
        BY <4>2, <4>4, <4>7, <4>8 DEF Stage
    <3>9. QED
      BY <3>7, <3>8
  <2>11. QED
    BY <2>9, <2>10
<1>5. QED
  BY <1>2, <1>3, <1>4

\* A setting with the common setter, and the JPEG quality.
LEMMA StageSetter ==
  ASSUME NEW c, NEW w, NEW p, NEW S \in SUBSET Public, NEW s \in Public \ {"focus"}, s \notin S,
         NEW v \in Asks[s], v = p[s], Stage(c, w, p, S), NEW w2, w2 = Offer(w, s, v, Set(w.r, s, v))
  PROVE  Stage(c, w2, p, S \cup {s})
<1> DEFINE q == Set(w.r, s, v)
<1>1. w.r \in Rs /\ s \in Settings /\ v \in Int
  BY DEF Stage, Works, Settings, Block, Others, Public, Asks, Default, Named, Macro, Face, Torch, Night,
         Unknown, Refused, Ignored
<1>2. q \in Rs /\ SetTo(w.r.c, q.c, q.ok, s, v)
  BY <1>1, SetIs
<1> HIDE DEF q
<1>3. w2 = Offer(w, s, v, q)
  BY DEF q
<1>4. QED
  BY <1>2, <1>3, StageOffer

LEMMA StageQuality ==
  ASSUME NEW c, NEW w, NEW p, NEW S \in SUBSET Public, "quality" \notin S,
         NEW v \in Asks["quality"], v = p["quality"], Stage(c, w, p, S),
         NEW w2, w2 = Offer(w, "quality", v, setJpegQuality(w.r, v))
  PROVE  Stage(c, w2, p, S \cup {"quality"})
<1> DEFINE q == setJpegQuality(w.r, v)
<1>1. w.r \in Rs /\ "quality" \in Public \ {"focus"} /\ (v = Ignored \/ v \in Accepted)
  BY DEF Stage, Works, Public, Asks, Default, Named, Ignored, Accepted
<1>2. v # Ignored => q \in Rs /\ SetTo(w.r.c, q.c, q.ok, "quality", v)
  BY <1>1, JpegIs
<1> HIDE DEF q
<1>3. w2 = Offer(w, "quality", v, q)
  BY DEF q
<1>4. QED
  BY <1>1, <1>2, <1>3, StageOffer

\* An error leaves nothing promised.
LEMMA StageBad ==
  ASSUME NEW c, NEW w, NEW p, NEW S, Stage(c, w, p, S), NEW w2, w2 = Bad(w)
  PROVE  Stage(c, w2, p, S)
<1>1. w2 = [w EXCEPT !.bad = TRUE] /\ w \in Works
  BY DEF Bad, Stage
<1>2. w2 \in Works /\ w2.r = w.r /\ w2.bad = TRUE
  BY <1>1 DEF Works
<1>3. QED
  BY <1>2 DEF Stage, Done

\* The range of frame rates is no setting of SecCamera.
LEMMA StageFps ==
  ASSUME NEW c, NEW w, NEW p, NEW pp, NEW S \in SUBSET Public, Stage(c, w, p, S), NEW w2, w2 = SceneFps(w, pp)
  PROVE  Stage(c, w2, p, S)
<1> DEFINE v == IF pp["scene"] = Night THEN 1 ELSE 0
           d == w.r.c
           e == Reports(d, "fps", v)
<1>1. w \in Works /\ Good(d) /\ Unmoved(c, d) /\ Done(w, p, S) /\ d \in Cams
  BY DEF Stage, Good, Coherent
<1>2. "fps" \in Reported \ {"focus"} /\ v \in Asks["fps"] \ {Unknown, Refused, Ignored}
  BY DEF Reported, Default, Public, Asks, Named, Unknown, Refused, Ignored
<1>3. w2 = [w EXCEPT !.r = [@ EXCEPT !.c = e]]
  BY <1>1 DEF SceneFps, Reports, Works, Rs, Cams
<1> HIDE DEF v
<1>4. /\ Good(e) /\ e.id = d.id /\ e.run = d.run /\ e.rec = d.rec /\ e.failed = d.failed
      /\ e.cache = d.cache /\ e.sensor = d.sensor
      /\ \A t \in Reported \ {"fps"} : e.param[t] = d.param[t]
  BY <1>1, <1>2, ReportsKeeps
<1> HIDE DEF e
<1>5. w2 \in Works /\ w2.r.c = e /\ w2.bad = w.bad
  <2>1. e \in Cams
    BY <1>4 DEF Good, Coherent
  <2>2. QED
    BY <1>1, <1>3, <2>1 DEF Works, Rs
<1>6. S \subseteq Reported \ {"fps"}
  BY DEF Public, Reported, Default
<1>7. Unmoved(c, e)
  BY <1>1, <1>4 DEF Unmoved
<1>8. Done(w2, p, S)
  BY <1>1, <1>4, <1>5, <1>6 DEF Done
<1>9. QED
  BY <1>4, <1>5, <1>7, <1>8 DEF Stage

\* The three settings of mInternalParameters, and SecCamera's other setters.
LEMMA StageInside ==
  ASSUME NEW c, NEW w, NEW p, NEW S \in SUBSET Public, Stage(c, w, p, S),
         NEW s \in Settings \ Public, NEW w2, w2 = Do(w, Set(w.r, s, 0))
  PROVE  Stage(c, w2, p, S)
<1> DEFINE q == Set(w.r, s, 0)
<1>1. w.r \in Rs /\ s \in Settings /\ 0 \in Int /\ S \in SUBSET Settings /\ s \in Settings \ S
  BY DEF Stage, Works, Settings, Block, Others, Public
<1>2. q \in Rs /\ SetTo(w.r.c, q.c, q.ok, s, 0)
  BY <1>1, SetIs
<1>3. w2 = Do(w, q)
  OBVIOUS
<1>4. s = "iso" => 0 # Movie
  BY DEF Movie
<1> HIDE DEF q
<1>5. q \in Rs /\ s \in Settings \ S /\ SetTo(w.r.c, q.c, q.ok, s, 0)
  BY <1>1, <1>2
<1>6. QED
  BY <1>1, <1>3, <1>4, <1>5, StageSet, ZenonT(30)

LEMMA StageInternal ==
  ASSUME NEW c, NEW w, NEW p, NEW S \in SUBSET Public, Stage(c, w, p, S), NEW w2, w2 = Internal(w)
  PROVE  Stage(c, w2, p, S)
<1> DEFINE contrast == Do(w, setContrast(w.r, 0))
           set == Do(contrast, setWDR(contrast.r, 0))
<1>1. {"contrast", "wdr", "blur"} \subseteq Settings \ Public
  BY DEF Settings, Block, Others, Public
<1>2. Stage(c, contrast, p, S)
  BY <1>1, StageInside DEF setContrast
<1>3. w2 = IF set.r.c.id = "front" THEN Do(set, setBlur(set.r, 0)) ELSE set
  BY DEF Internal
<1> HIDE DEF contrast
<1>4. Stage(c, set, p, S)
  BY <1>1, <1>2, StageInside DEF setWDR
<1> HIDE DEF set
<1>5. Stage(c, Do(set, setBlur(set.r, 0)), p, S)
  BY <1>1, <1>4, StageInside DEF setBlur
<1>6. QED
  BY <1>3, <1>4, <1>5

\* A camera whose reflection has come.
Reflects(c) == [c EXCEPT !.pending = {}]

\* What setBatchReflection() makes of r.
BatchIs(r, q) ==
  /\ q \in Rs /\ Touches(r.c, q.c, {}) /\ q.c.cache = r.c.cache /\ q.c.sensor = r.c.sensor
  /\ q.c.param = r.c.param /\ q.c.distances = r.c.distances
  /\ r.c.run => q.c.pending = {} \/ q.c.failed # {}

\* setBatchReflection() changes no setting.
LEMMA BatchDone ==
  ASSUME NEW r \in Rs, NEW q, q = setBatchReflection(r)
  PROVE  BatchIs(r, q)
<1>1. r.c \in Cams /\ r.c.run \in BOOLEAN
  BY DEF Rs, Cams
<1>2. CASE ~ r.c.run
  <2>1. q = [r EXCEPT !.ok = TRUE]
    BY <1>2 DEF setBatchReflection
  <2>2. q \in Rs /\ q.c = r.c
    BY <2>1 DEF Rs
  <2>3. QED
    BY <1>1, <1>2, <2>2 DEF BatchIs, Touches
<1>3. CASE r.c.run /\ "batch" \in r.f
  <2> DEFINE d == Lost(r.c, "batch")
  <2>1. q = [r EXCEPT !.ok = FALSE, !.c = d]
    BY <1>3 DEF setBatchReflection, No, Lost, Rs
  <2>2. /\ Touches(r.c, d, {}) /\ d.cache = r.c.cache /\ d.sensor = r.c.sensor /\ d.param = r.c.param
        /\ d.distances = r.c.distances /\ d.failed = r.c.failed \cup {"batch"}
    <3>1. "batch" \in SetKinds
      BY <1>1 DEF SetKinds
    <3>2. LostIs(r.c, d, "batch")
      BY <1>1, <3>1, TouchesFailed
    <3>3. QED
      BY <3>2 DEF LostIs
  <2> HIDE DEF d
  <2>3. q \in Rs /\ q.c = d
    <3>1. d \in Cams
      BY <2>2 DEF Touches
    <3>2. QED
      BY <2>1, <3>1 DEF Rs
  <2>4. QED
    BY <2>2, <2>3 DEF BatchIs
<1>4. CASE r.c.run /\ "batch" \notin r.f
  <2> DEFINE d == Reflects(r.c)
  <2>1. q = [r EXCEPT !.ok = TRUE, !.c = d]
    BY <1>4 DEF setBatchReflection, Reflects, Rs
  <2>2. /\ Touches(r.c, d, {}) /\ d.cache = r.c.cache /\ d.sensor = r.c.sensor /\ d.param = r.c.param
        /\ d.distances = r.c.distances /\ d.pending = {}
    BY <1>1 DEF Cams, Reflects, Touches
  <2> HIDE DEF d
  <2>3. q \in Rs /\ q.c = d
    <3>1. d \in Cams
      BY <2>2 DEF Touches
    <3>2. QED
      BY <2>1, <3>1 DEF Rs
  <2>4. QED
    BY <2>2, <2>3 DEF BatchIs
<1>5. QED
  BY <1>2, <1>3, <1>4

LEMMA BatchKeeps ==
  ASSUME NEW c, NEW r, NEW q, Good(r.c), Unmoved(c, r.c), BatchIs(r, q)
  PROVE  Good(q.c) /\ Unmoved(c, q.c) /\ Reflected(q.c)
<1>1. /\ q.c \in Cams /\ q.c.id = r.c.id /\ q.c.run = r.c.run /\ q.c.rec = r.c.rec
      /\ r.c.failed \subseteq q.c.failed /\ q.c.cache = r.c.cache /\ q.c.sensor = r.c.sensor
      /\ q.c.param = r.c.param /\ q.c.distances = r.c.distances
  BY DEF BatchIs, Touches
<1>2. Follows(q.c)
  BY <1>1 DEF Good, Coherent, Follows, SentBy, Apart
<1>3. Askable(q.c) /\ Dark(q.c) /\ Fits(q.c)
  BY <1>1 DEF Good, Coherent, Askable, Dark, Fits
<1>4. Unmoved(c, q.c)
  BY <1>1 DEF Unmoved
<1>5. Reflected(q.c)
  BY <1>1 DEF BatchIs, Reflected
<1>6. QED
  BY <1>1, <1>2, <1>3, <1>4, <1>5 DEF Good, Coherent

\* Every call of setParameters() ends with all the public settings done.
LEMMA ParametersDone ==
  ASSUME NEW r \in Rs, Good(r.c), NEW p \in [Reported -> Int], \A s \in Reported : p[s] \in Asks[s],
         NEW w, w = setParameters(r, p)
  PROVE  Stage(r.c, w, InScene(p), Public) /\ Reflected(w.r.c)
<1> DEFINE c == r.c
           to == InScene(p)
           w0 == On(r)
           w1 == OfferQuality(w0, p)
           w2 == OfferBrightness(w1, p)
           w3 == OfferISO(w2, p)
           light == OfferWhiteBalance(w3, p)
           fps == CheckFps(light, p)
           w4 == SceneFps(fps, p)
           focus == OfferFocus(w4, SceneFocus(p))
           w5 == OfferFlash(focus, SceneFlash(p))
           w6 == OfferScene(w5, p)
           w7 == OfferZoom(w6, p)
           one == CheckFocus(fps, p)
           mode == IF r.c.id = "front" THEN one ELSE w7
           eff == OfferEffect(mode, p)
           rest == Internal(eff)
           S4 == {"quality", "brightness", "iso", "wb"}
           S8 == S4 \cup {"focus", "flash", "scene", "zoom"}
<1>1. w = Do(rest, setBatchReflection(rest.r))
  BY DEF setParameters
<1>2. /\ Public = {"quality", "brightness", "iso", "wb", "focus", "flash", "scene", "zoom", "effects"}
      /\ Reported = Public \cup {"fps"} /\ Public \subseteq Reported
  BY DEF Public, Reported, Default
<1>3. /\ to["focus"] = SceneFocus(p) /\ to["flash"] = SceneFlash(p)
      /\ \A s \in Public \ {"focus", "flash"} : to[s] = p[s]
  BY <1>2 DEF InScene
<1>4. SceneFocus(p) \in Asks["focus"] /\ SceneFlash(p) \in Asks["flash"]
  BY <1>2 DEF SceneFocus, SceneFlash, Asks, Public, Default, Named
<1>5. \A s \in Public \ {"focus", "flash"} : to[s] \in Asks[s]
  BY <1>2, <1>3
<1> HIDE DEF to
<1>6. Stage(c, w0, to, {})
  <2>1. w0 \in Works /\ w0.r = r
    BY DEF On, Works
  <2>2. QED
    BY <2>1 DEF Stage, Unmoved, Done
<1> HIDE DEF w0
<1>7. Stage(c, w1, to, {"quality"})
  <2>1. Stage(c, w1, to, {} \cup {"quality"})
    <3>1. {} \in SUBSET Public /\ "quality" \notin {} /\ p["quality"] \in Asks["quality"] /\ p["quality"] = to["quality"]
      BY <1>2, <1>3
    <3>2. QED
      BY <1>6, <3>1, StageQuality DEF OfferQuality
  <2>2. QED
    BY <2>1
<1> HIDE DEF w1
<1>8. Stage(c, w2, to, {"quality", "brightness"})
  <2>1. Stage(c, w2, to, {"quality"} \cup {"brightness"})
    <3>1. p["brightness"] \in Asks["brightness"] /\ p["brightness"] = to["brightness"]
      BY <1>2, <1>3
    <3>2. QED
      BY <1>2, <1>7, <3>1, StageSetter DEF OfferBrightness, setBrightness
  <2>2. {"quality"} \cup {"brightness"} = {"quality", "brightness"}
    OBVIOUS
  <2>3. QED
    BY <2>1, <2>2
<1> HIDE DEF w2
<1>9. Stage(c, w3, to, {"quality", "brightness", "iso"})
  <2>1. Stage(c, w3, to, {"quality", "brightness"} \cup {"iso"})
    <3>1. p["iso"] \in Asks["iso"] /\ p["iso"] = to["iso"]
      BY <1>2, <1>3
    <3>2. QED
      BY <1>2, <1>8, <3>1, StageSetter DEF OfferISO, setISO
  <2>2. {"quality", "brightness"} \cup {"iso"} = {"quality", "brightness", "iso"}
    OBVIOUS
  <2>3. QED
    BY <2>1, <2>2
<1> HIDE DEF w3
<1>10. Stage(c, light, to, S4)
  <2>1. Stage(c, light, to, {"quality", "brightness", "iso"} \cup {"wb"})
    <3>1. p["wb"] \in Asks["wb"] /\ p["wb"] = to["wb"]
      BY <1>2, <1>3
    <3>2. QED
      BY <1>2, <1>9, <3>1, StageSetter DEF OfferWhiteBalance, setWhiteBalance
  <2>2. {"quality", "brightness", "iso"} \cup {"wb"} = S4
    OBVIOUS
  <2>3. QED
    BY <2>1, <2>2
<1> HIDE DEF light
<1>11. Stage(c, fps, to, S4)
  <2>1. fps = Bad(light) \/ fps = light
    BY DEF CheckFps
  <2>2. QED
    BY <1>10, <2>1, StageBad
<1> HIDE DEF fps
<1>12. Stage(c, w7, to, S8)
  <2>1. Stage(c, w4, to, S4)
    BY <1>2, <1>11, StageFps
  <2> HIDE DEF w4
  <2>2. Stage(c, focus, to, S4 \cup {"focus"})
    <3>1. S4 \in SUBSET (Public \ {"focus"})
      BY <1>2
    <3>2. QED
      BY <1>3, <1>4, <2>1, <3>1, StageFocus
  <2> HIDE DEF focus
  <2>3. Stage(c, w5, to, (S4 \cup {"focus"}) \cup {"flash"})
    <3>1. w5 = Offer(focus, "flash", SceneFlash(p), Set(focus.r, "flash", SceneFlash(p)))
      BY DEF OfferFlash, setFlashMode
    <3> HIDE DEF w5
    <3>2. QED
      BY <1>2, <1>3, <1>4, <2>2, <3>1, StageSetter
  <2> HIDE DEF w5
  <2>4. Stage(c, w6, to, ((S4 \cup {"focus"}) \cup {"flash"}) \cup {"scene"})
    <3>1. p["scene"] \in Asks["scene"] /\ p["scene"] = to["scene"]
      BY <1>2, <1>3
    <3>2. QED
      BY <1>2, <2>3, <3>1, StageSetter DEF OfferScene, setSceneMode
  <2> HIDE DEF w6
  <2>5. Stage(c, w7, to, (((S4 \cup {"focus"}) \cup {"flash"}) \cup {"scene"}) \cup {"zoom"})
    <3>1. p["zoom"] \in Asks["zoom"] /\ p["zoom"] = to["zoom"]
      BY <1>2, <1>3
    <3>2. QED
      BY <1>2, <2>4, <3>1, StageSetter DEF OfferZoom, setZoom
  <2>6. (((S4 \cup {"focus"}) \cup {"flash"}) \cup {"scene"}) \cup {"zoom"} = S8
    OBVIOUS
  <2>7. QED
    BY <2>5, <2>6
<1> HIDE DEF w7
<1>13. Stage(c, one, to, S4)
  <2>1. one = Bad(fps) \/ one = fps
    BY DEF CheckFocus
  <2>2. QED
    BY <1>11, <2>1, StageBad
<1> HIDE DEF one
<1>14. Stage(c, mode, to, S8)
  <2>1. CASE r.c.id = "front"
    <3>1. mode = one
      BY <2>1
    <3>2. mode.r.c.id = "front"
      BY <1>13, <2>1, <3>1 DEF Stage, Unmoved
    <3>3. Done(mode, to, S8)
      BY <3>2 DEF Done
    <3>4. QED
      BY <1>13, <3>1, <3>3 DEF Stage
  <2>2. CASE r.c.id # "front"
    BY <1>12, <2>2
  <2>3. QED
    BY <2>1, <2>2
<1> HIDE DEF mode
<1>15. Stage(c, eff, to, Public)
  <2>1. Stage(c, eff, to, S8 \cup {"effects"})
    <3>1. p["effects"] \in Asks["effects"] /\ p["effects"] = to["effects"]
      BY <1>2, <1>3
    <3>2. QED
      BY <1>2, <1>14, <3>1, StageSetter DEF OfferEffect, setImageEffect
  <2>2. S8 \cup {"effects"} = Public
    BY <1>2
  <2>3. QED
    BY <2>1, <2>2
<1> HIDE DEF eff
<1>16. Stage(c, rest, to, Public)
  BY <1>15, StageInternal
<1> HIDE DEF rest
<1> DEFINE q == setBatchReflection(rest.r)
<1>17. BatchIs(rest.r, q)
  <2>1. rest.r \in Rs
    BY <1>16 DEF Stage, Works
  <2>2. QED
    BY <2>1, BatchDone
<1> HIDE DEF q
<1>18. w \in Works /\ w.r.c = q.c /\ (~ w.bad => ~ rest.bad)
  <2>1. q \in Rs /\ rest \in Works /\ w = Do(rest, q)
    BY <1>1, <1>16, <1>17 DEF Stage, BatchIs, q
  <2>2. QED
    BY <2>1, DoIs
<1>19. Good(q.c) /\ Unmoved(c, q.c) /\ Reflected(q.c)
  BY <1>16, <1>17, BatchKeeps DEF Stage
<1>20. Done(w, to, Public)
  <2>1. /\ q.c.id = rest.r.c.id /\ q.c.run = rest.r.c.run /\ rest.r.c.failed \subseteq q.c.failed
        /\ q.c.sensor = rest.r.c.sensor /\ q.c.param = rest.r.c.param
    BY <1>17 DEF BatchIs, Touches
  <2>2. QED
    BY <1>16, <1>18, <2>1 DEF Stage, Done
<1>21. QED
  BY <1>18, <1>19, <1>20 DEF Stage, to

\* A setter outside setParameters().
LEMMA SetterKeeps ==
  ASSUME NEW b, NEW r \in Rs, Good(r.c), Unmoved(b, r.c), NEW s \in Settings, NEW v \in Int,
         s = "iso" => v # Movie, NEW q, q = Set(r, s, v)
  PROVE  q \in Rs /\ Good(q.c) /\ Unmoved(b, q.c) /\ SetTo(r.c, q.c, q.ok, s, v)
<1>1. q \in Rs /\ SetTo(r.c, q.c, q.ok, s, v)
  BY SetIs
<1>2. Good(q.c)
  BY <1>1, SetKeeps
<1>3. r.c \in Cams
  BY DEF Rs
<1>4. Unmoved(b, q.c)
  BY <1>1, <1>3, SetSame
<1>5. QED
  BY <1>1, <1>2, <1>4

\* Opening starts anew, without the ISO that a recording may have left.
LEMMA InitKeeps ==
  ASSUME NEW c \in Cams, c.run = FALSE, c.sensor["flash"] # Torch, NEW d, d = initDefaultParameters(c)
  PROVE  Good(d) /\ IsoEnds(d) /\ Reflected(d)
<1> DEFINE e == [c EXCEPT !.param = Default, !.distances = 0]
           r == [R(e, {}) EXCEPT !.ok = TRUE]
           set == setParameters(r, Default).r
           iso == setISO(set, 0)
           q1 == setMetering(iso, 0)
           q2 == setContrast(q1, 0)
           q3 == setSharpness(q2, 0)
           q4 == setSaturation(q3, 0)
           q5 == setFrameRate(q4, 0)
<1>1. d = q5.c
  BY DEF initDefaultParameters
<1>2. /\ Default \in [Reported -> Int] /\ Default \in [Reported -> 0..2]
      /\ \A s \in Reported : Default[s] = 0 /\ 0 \in Asks[s]
      /\ "focus" \in Reported
  BY DEF Default, Reported, Public, Asks, Named
<1>3. /\ e \in Cams /\ e.run = FALSE /\ e.sensor = c.sensor /\ e.param = Default /\ e.distances = 0
  BY <1>2 DEF Cams
<1> HIDE DEF e
<1>4. Good(e)
  <2>1. Askable(e)
    BY <1>2, <1>3 DEF Askable, Unknown, Refused, Ignored
  <2>2. Follows(e) /\ Dark(e)
    BY <1>3 DEF Follows, Dark
  <2>3. Fits(e)
    BY <1>2, <1>3 DEF Fits, Face
  <2>4. QED
    BY <1>3, <2>1, <2>2, <2>3 DEF Good, Coherent
<1>5. r \in Rs /\ r.c = e
  BY <1>3 DEF R, Rs
<1> HIDE DEF r
<1>6. set \in Rs /\ Good(set.c) /\ set.c.run = FALSE
  <2>1. Stage(r.c, setParameters(r, Default), InScene(Default), Public)
    BY <1>2, <1>4, <1>5, ParametersDone
  <2>2. QED
    BY <1>3, <1>5, <2>1 DEF Stage, Works, Unmoved
<1> HIDE DEF set
<1>7. {"iso", "metering", "contrast", "sharpness", "saturation", "rate"} \subseteq Settings /\ 0 \in Int /\ 0 # Movie
  BY DEF Settings, Block, Movie
<1>8. iso \in Rs /\ Good(iso.c) /\ iso.c.cache["iso"] = 0 /\ iso.c.run = FALSE
  <2>1. Unmoved(set.c, set.c)
    BY DEF Unmoved
  <2>2. /\ iso \in Rs /\ Good(iso.c) /\ Unmoved(set.c, iso.c)
        /\ SetTo(set.c, iso.c, iso.ok, "iso", 0)
    BY <1>6, <1>7, <2>1, SetterKeeps DEF setISO
  <2>3. iso.c.cache["iso"] = 0
    BY <2>2 DEF SetTo, Accepted
  <2>4. QED
    BY <1>6, <2>2, <2>3 DEF Unmoved
<1> HIDE DEF iso
<1>9. q1 \in Rs /\ Good(q1.c) /\ Unmoved(iso.c, q1.c)
  <2>1. Unmoved(iso.c, iso.c)
    BY DEF Unmoved
  <2>2. QED
    BY <1>7, <1>8, <2>1, SetterKeeps DEF setMetering
<1> HIDE DEF q1
<1>10. q2 \in Rs /\ Good(q2.c) /\ Unmoved(iso.c, q2.c)
  BY <1>7, <1>9, SetterKeeps DEF setContrast
<1> HIDE DEF q2
<1>11. q3 \in Rs /\ Good(q3.c) /\ Unmoved(iso.c, q3.c)
  BY <1>7, <1>10, SetterKeeps DEF setSharpness
<1> HIDE DEF q3
<1>12. q4 \in Rs /\ Good(q4.c) /\ Unmoved(iso.c, q4.c)
  BY <1>7, <1>11, SetterKeeps DEF setSaturation
<1> HIDE DEF q4
<1>13. q5 \in Rs /\ Good(q5.c) /\ Unmoved(iso.c, q5.c)
  BY <1>7, <1>12, SetterKeeps DEF setFrameRate
<1> HIDE DEF q5
<1>14. IsoEnds(d) /\ Reflected(d)
  BY <1>1, <1>7, <1>8, <1>13 DEF IsoEnds, Reflected, Unmoved
<1>15. QED
  BY <1>1, <1>13, <1>14

-----------------------------------------------------------------------------
(* Starting: what is sent in order.                                        *)

\* What a run of s_ctrls makes of r, of the settings named by order.
SendIs(r, q, order) ==
  /\ q \in Rs /\ q.c.id = r.c.id /\ q.c.run = r.c.run /\ q.c.rec = r.c.rec
  /\ r.c.failed \subseteq q.c.failed /\ q.c.param = r.c.param /\ q.c.distances = r.c.distances
  /\ \A t \in Settings \ DOMAIN Forced : q.c.cache[t] = r.c.cache[t]
  /\ \A t \in Settings :
       (\A i \in DOMAIN order : order[i] # t) => q.c.sensor[t] = r.c.sensor[t] /\ q.c.cache[t] = r.c.cache[t]
  /\ q.ok => r.ok /\ \A i \in DOMAIN order : q.c.sensor[order[i]] = q.c.cache[order[i]]

\* Sending in order touches what is named, and when nothing failed the sensor has it.
LEMMA SendDone ==
  ASSUME NEW r \in Rs, NEW n \in Nat, NEW order \in [1..n -> Settings], NEW q, q = Send(r, order)
  PROVE  SendIs(r, q, order)
<1>1. r.c \in Cams /\ r.ok \in BOOLEAN /\ r.f \in SUBSET SetKinds
  BY DEF Rs
<1>2. CASE ~ r.ok
  <2>1. q = r
    BY <1>2, ZenonT(30) DEF Send
  <2>2. QED
    BY <1>2, <2>1 DEF SendIs
<1>3. CASE r.ok
  <2> DEFINE reached == Reached(order, r.f)
             value == [s \in Settings |-> IF s \in reached \cap DOMAIN Forced THEN Forced[s] ELSE r.c.cache[s]]
             sent == [s \in Settings |-> IF s \in reached \ r.f THEN value[s] ELSE r.c.sensor[s]]
             d == [r.c EXCEPT !.cache = value, !.failed = @ \cup (reached \cap r.f), !.sensor = sent,
                              !.pending = @ \cup (reached \ r.f)]
             ok == \A i \in DOMAIN order : order[i] \notin r.f
  <2>1. q = [r EXCEPT !.ok = ok, !.c = d]
    BY <1>1, <1>3, ZenonT(30) DEF Send, Rs, Cams
  <2>2. reached \subseteq Settings /\ (\A s \in reached : \E i \in DOMAIN order : order[i] = s)
    BY DEF Reached
  <2>3. ok => \A i \in DOMAIN order : order[i] \in reached \ r.f
    BY DEF Reached
  <2>4. DOMAIN Forced \subseteq Settings /\ \A s \in DOMAIN Forced : Forced[s] \in Values
    BY DEF Forced, Settings, Block, Others, Values, Accepted
  <2> HIDE DEF reached
  <2>5. value \in [Settings -> Values]
    BY <1>1, <2>4 DEF Cams
  <2>6. /\ \A s \in Settings : s \in reached => s \in DOMAIN Forced \/ value[s] = r.c.cache[s]
        /\ \A s \in Settings : s \notin reached => value[s] = r.c.cache[s]
    OBVIOUS
  <2> HIDE DEF value
  <2>7. sent \in [Settings -> Values]
    BY <1>1, <2>5 DEF Cams
  <2>8. \A s \in Settings : sent[s] = IF s \in reached \ r.f THEN value[s] ELSE r.c.sensor[s]
    OBVIOUS
  <2> HIDE DEF sent
  <2>9. /\ d \in Cams /\ d.id = r.c.id /\ d.run = r.c.run /\ d.rec = r.c.rec /\ r.c.failed \subseteq d.failed
        /\ d.param = r.c.param /\ d.distances = r.c.distances /\ d.cache = value /\ d.sensor = sent
    BY <1>1, <2>2, <2>5, <2>7 DEF Cams
  <2> HIDE DEF d
  <2>10. q \in Rs /\ q.c = d /\ (q.ok => ok)
    <3>1. ok \in BOOLEAN
      OBVIOUS
    <3> HIDE DEF ok
    <3>2. QED
      BY <2>1, <2>9, <3>1 DEF Rs
  <2>11. q.ok => \A i \in DOMAIN order : d.sensor[order[i]] = d.cache[order[i]]
    BY <2>3, <2>8, <2>9, <2>10
  <2>12. \A t \in Settings \ DOMAIN Forced : d.cache[t] = r.c.cache[t]
    BY <2>6, <2>9
  <2>13. \A t \in Settings :
          (\A i \in DOMAIN order : order[i] # t) => d.sensor[t] = r.c.sensor[t] /\ d.cache[t] = r.c.cache[t]
    BY <2>2, <2>6, <2>8, <2>9
  <2>14. QED
    BY <1>3, <2>9, <2>10, <2>11, <2>12, <2>13 DEF SendIs
<1>4. QED
  BY <1>2, <1>3

\* What starting and recording leave alone of a camera.
Rest(c, d) ==
  /\ d \in Cams /\ d.id = c.id /\ c.failed \subseteq d.failed
  /\ d.param = c.param /\ d.distances = c.distances

LEMMA RestKeeps ==
  ASSUME NEW c, NEW d, Good(c), Rest(c, d), Follows(d), Dark(d)
  PROVE  Good(d)
BY DEF Good, Coherent, Rest, Askable, Fits

LEMMA RestTwice ==
  ASSUME NEW b, NEW c, NEW d, Rest(b, c), Rest(c, d)
  PROVE  Rest(b, d)
BY DEF Rest

\* The settings S are in the sensor, or have met a failure.
Has(c, S) == \A s \in S : c.sensor[s] = c.cache[s] \/ s \in c.failed

SendIfIs(r, q, s, S) ==
  /\ q \in Rs /\ Rest(r.c, q.c) /\ q.c.run = r.c.run /\ q.c.rec = r.c.rec /\ q.c.cache = r.c.cache
  /\ Has(q.c, S) /\ q.c.pending \subseteq r.c.pending \cup {s}
  /\ r.ok => Has(q.c, S \cup {s})

\* Sending one more of the remembered settings.
LEMMA SendIfDone ==
  ASSUME NEW r \in Rs, r.ok => r.c.run = TRUE, NEW s \in Settings, NEW S \in SUBSET Settings,
         Has(r.c, S), NEW q, q = SendIf(r, s)
  PROVE  SendIfIs(r, q, s, S)
<1>1. r.c \in Cams /\ r.ok \in BOOLEAN
  BY DEF Rs
<1>2. CASE ~ r.ok
  <2>1. q = r
    BY <1>2 DEF SendIf
  <2>2. Rest(r.c, q.c)
    BY <1>1, <2>1 DEF Rest
  <2>3. QED
    BY <1>2, <2>1, <2>2 DEF SendIfIs
<1>3. CASE r.ok
  <2> DEFINE v == r.c.cache[s]
  <2>1. q = s_ctrl(r, s, v) /\ v \in Values
    BY <1>1, <1>3 DEF SendIf, Cams
  <2> HIDE DEF v
  <2>2. SentOn(r, q, s, v)
    BY <1>3, <2>1, SentBack
  <2>3. Rest(r.c, q.c) /\ q.c.run = r.c.run /\ q.c.rec = r.c.rec
    BY <2>2 DEF SentOn, Touches, Rest
  <2>4. Has(q.c, S \cup {s})
    <3> SUFFICES ASSUME NEW t \in S \cup {s} PROVE q.c.sensor[t] = q.c.cache[t] \/ t \in q.c.failed
      BY DEF Has
    <3>1. CASE t = s
      BY <2>2, <3>1 DEF SentOn, v
    <3>2. CASE t # s
      BY <2>2, <3>2 DEF SentOn, Touches, Has
    <3>3. QED
      BY <3>1, <3>2
  <2>5. Has(q.c, S)
    BY <2>4 DEF Has
  <2>6. QED
    BY <1>3, <2>2, <2>3, <2>4, <2>5 DEF SentOn, SendIfIs
<1>4. QED
  BY <1>2, <1>3

\* What S_PARM makes of r.
ParmIs(r, q) ==
  /\ q \in Rs /\ Rest(r.c, q.c) /\ q.c.run = r.c.run /\ q.c.rec = r.c.rec /\ q.c.cache = r.c.cache
  /\ q.c.pending = r.c.pending
  /\ \A t \in Settings \ Block : q.c.sensor[t] = r.c.sensor[t]
  /\ ~ r.ok => q = r
  /\ q.ok => r.ok
  /\ r.ok => IF q.ok THEN Has(q.c, Block) ELSE "parm" \in q.c.failed

\* S_PARM puts the block into the sensor.
LEMMA ParmDone ==
  ASSUME NEW r \in Rs, NEW q, q = s_parm(r)
  PROVE  ParmIs(r, q)
<1>1. r.c \in Cams /\ r.ok \in BOOLEAN
  BY DEF Rs
<1>2. CASE ~ r.ok
  <2>1. q = r
    BY <1>2 DEF s_parm
  <2>2. Rest(r.c, q.c)
    BY <1>1, <2>1 DEF Rest
  <2>3. QED
    BY <1>2, <2>1, <2>2 DEF ParmIs
<1>3. CASE r.ok /\ "parm" \in r.f
  <2> DEFINE d == Lost(r.c, "parm")
  <2>1. q = [r EXCEPT !.ok = FALSE, !.c = d]
    BY <1>3 DEF s_parm, No, Lost, Rs
  <2>2. /\ Touches(r.c, d, {}) /\ d.cache = r.c.cache /\ d.sensor = r.c.sensor /\ d.param = r.c.param
        /\ d.distances = r.c.distances /\ d.failed = r.c.failed \cup {"parm"} /\ d.pending = r.c.pending
    <3>1. "parm" \in SetKinds
      BY <1>1 DEF SetKinds
    <3>2. LostIs(r.c, d, "parm")
      BY <1>1, <3>1, TouchesFailed
    <3>3. QED
      BY <3>2 DEF LostIs
  <2> HIDE DEF d
  <2>3. q \in Rs /\ q.c = d /\ q.ok = FALSE
    <3>1. d \in Cams
      BY <2>2 DEF Touches
    <3>2. QED
      BY <2>1, <3>1 DEF Rs
  <2>4. Rest(r.c, d) /\ d.run = r.c.run /\ d.rec = r.c.rec
    BY <2>2 DEF Rest, Touches
  <2>5. QED
    BY <1>3, <2>2, <2>3, <2>4 DEF ParmIs
<1>4. CASE r.ok /\ "parm" \notin r.f
  <2> DEFINE v == [s \in Settings |-> IF s \in Block THEN r.c.cache[s] ELSE r.c.sensor[s]]
             d == [r.c EXCEPT !.sensor = v]
  <2>1. q = [r EXCEPT !.c = d]
    BY <1>1, <1>4 DEF s_parm, Rs, Cams
  <2>2. v \in [Settings -> Values]
    BY <1>1 DEF Cams
  <2>3. /\ \A t \in Block : v[t] = r.c.cache[t]
        /\ \A t \in Settings \ Block : v[t] = r.c.sensor[t]
    BY DEF Settings
  <2> HIDE DEF v
  <2>4. /\ d \in Cams /\ d.id = r.c.id /\ d.run = r.c.run /\ d.rec = r.c.rec /\ d.failed = r.c.failed
        /\ d.cache = r.c.cache /\ d.sensor = v /\ d.param = r.c.param /\ d.distances = r.c.distances
        /\ d.pending = r.c.pending
    BY <1>1, <2>2 DEF Cams
  <2> HIDE DEF d
  <2>5. q \in Rs /\ q.c = d /\ q.ok = r.ok
    BY <2>1, <2>4 DEF Rs
  <2>6. Has(d, Block) /\ Rest(r.c, d)
    BY <2>3, <2>4 DEF Has, Rest
  <2>7. QED
    BY <1>4, <2>3, <2>4, <2>5, <2>6 DEF ParmIs
<1>5. QED
  BY <1>2, <1>3, <1>4

\* Starting up to STREAMON, from r.
StreamOn(r) ==
  LET sent == IF r.c.id = "back" THEN Send(Send(r, Early), Late) ELSE r
  IN  IF ~ sent.ok THEN sent
      ELSE IF r.c.id = "back" /\ "batch" \in r.f
           THEN [No(sent) EXCEPT !.c.failed = @ \cup {"batch"}]
           ELSE [sent EXCEPT !.c.run = TRUE, !.c.pending = {}]

Runs(c) == [c EXCEPT !.run = TRUE, !.pending = {}]

OnIs(r, q) ==
  /\ q \in Rs /\ Rest(r.c, q.c) /\ q.c.rec = r.c.rec /\ q.c.cache["iso"] = r.c.cache["iso"]
  /\ q.ok => /\ q.c.run = TRUE /\ q.c.pending = {}
             /\ q.c.id = "back" => Has(q.c, DOMAIN Forced)
  /\ ~ q.ok => q.c.run = FALSE /\ q.c.sensor["flash"] = r.c.sensor["flash"]

\* Up to STREAMON the lamp is not touched, and after it the forced settings are sent.
LEMMA StreamOnDone ==
  ASSUME NEW r \in Rs, r.ok = TRUE, r.c.run = FALSE, NEW on, on = StreamOn(r)
  PROVE  OnIs(r, on)
<1> DEFINE early == Send(r, Early)
           both == Send(early, Late)
           sent == IF r.c.id = "back" THEN both ELSE r
<1>1. on = IF ~ sent.ok THEN sent
           ELSE IF r.c.id = "back" /\ "batch" \in r.f
                THEN [No(sent) EXCEPT !.c.failed = @ \cup {"batch"}]
                ELSE [sent EXCEPT !.c.run = TRUE, !.c.pending = {}]
  BY DEF StreamOn
<1>2. SendIs(r, early, Early)
  <2>1. 9 \in Nat /\ Early \in [1..9 -> Settings]
    BY DEF Early, Settings, Block, Others
  <2>2. QED
    BY <2>1, SendDone
<1> HIDE DEF early
<1>3. SendIs(early, both, Late)
  <2>1. 7 \in Nat /\ Late \in [1..7 -> Settings]
    BY DEF Late, Settings, Block, Others
  <2>2. early \in Rs
    BY <1>2 DEF SendIs
  <2>3. QED
    BY <2>1, <2>2, SendDone
<1> HIDE DEF both
<1>4. "flash" \in Settings /\ "iso" \in Settings \ DOMAIN Forced /\ DOMAIN Forced \subseteq Settings
  BY DEF Settings, Block, Others, Forced
<1>5. /\ \A i \in DOMAIN Early : Early[i] # "flash"
      /\ \A i \in DOMAIN Late : Late[i] # "flash"
  BY DEF Early, Late
<1>6. /\ sent \in Rs /\ Rest(r.c, sent.c) /\ sent.c.run = FALSE /\ sent.c.rec = r.c.rec
      /\ sent.c.cache["iso"] = r.c.cache["iso"] /\ sent.c.sensor["flash"] = r.c.sensor["flash"]
  <2>1. CASE r.c.id = "back"
    <3>1. sent = both
      BY <2>1
    <3>2. /\ early \in Rs /\ early.c.run = FALSE /\ early.c.rec = r.c.rec /\ early.c.id = r.c.id
          /\ r.c.failed \subseteq early.c.failed /\ early.c.param = r.c.param /\ early.c.distances = r.c.distances
          /\ early.c.cache["iso"] = r.c.cache["iso"] /\ early.c.sensor["flash"] = r.c.sensor["flash"]
      BY <1>2, <1>4, <1>5 DEF SendIs
    <3>3. /\ both \in Rs /\ both.c.run = FALSE /\ both.c.rec = r.c.rec /\ both.c.id = r.c.id
          /\ r.c.failed \subseteq both.c.failed /\ both.c.param = r.c.param /\ both.c.distances = r.c.distances
          /\ both.c.cache["iso"] = r.c.cache["iso"] /\ both.c.sensor["flash"] = r.c.sensor["flash"]
      BY <1>3, <1>4, <1>5, <3>2 DEF SendIs
    <3>4. Rest(r.c, both.c)
      BY <3>3 DEF Rest, Rs
    <3>5. QED
      BY <3>1, <3>3, <3>4
  <2>2. CASE r.c.id # "back"
    BY <2>2 DEF Rest, Rs
  <2>3. QED
    BY <2>1, <2>2
<1>7. sent.ok /\ r.c.id = "back" => Has(sent.c, DOMAIN Forced)
  <2> SUFFICES ASSUME sent.ok, r.c.id = "back", NEW t \in DOMAIN Forced
               PROVE  sent.c.sensor[t] = sent.c.cache[t]
    BY DEF Has
  <2>1. sent = both
    OBVIOUS
  <2>2. early.ok
    BY <1>3, <2>1 DEF SendIs
  <2>3. CASE \E i \in DOMAIN Late : Late[i] = t
    BY <1>3, <2>1, <2>3 DEF SendIs
  <2>4. CASE \A i \in DOMAIN Late : Late[i] # t
    <3>1. t \in {"banding", "gamma", "slowae"}
      <4>1. \A u \in {"face", "beauty", "zoom"} : \E i \in DOMAIN Late : Late[i] = u
        <5>1. DOMAIN Late = 1..7 /\ Late[2] = "face" /\ Late[6] = "beauty" /\ Late[7] = "zoom"
          BY DEF Late
        <5>2. QED
          BY <5>1
      <4>2. DOMAIN Forced = {"banding", "gamma", "slowae", "face", "beauty", "zoom"}
        BY DEF Forced
      <4>3. QED
        BY <2>4, <4>1, <4>2
    <3>2. \E i \in DOMAIN Early : Early[i] = t
      <4>1. DOMAIN Early = 1..9 /\ Early[1] = "banding" /\ Early[6] = "gamma" /\ Early[7] = "slowae"
        BY DEF Early
      <4>2. QED
        BY <3>1, <4>1
    <3>3. early.c.sensor[t] = early.c.cache[t]
      BY <1>2, <2>2, <3>2 DEF SendIs
    <3>4. both.c.sensor[t] = early.c.sensor[t] /\ both.c.cache[t] = early.c.cache[t]
      BY <1>3, <1>4, <2>4 DEF SendIs
    <3>5. QED
      BY <2>1, <3>3, <3>4
  <2>5. QED
    BY <2>3, <2>4
<1> HIDE DEF sent
<1>8. CASE ~ sent.ok
  <2>1. on = sent
    BY <1>1, <1>8
  <2>2. QED
    BY <1>6, <1>8, <2>1 DEF OnIs
<1>9. CASE sent.ok /\ r.c.id = "back" /\ "batch" \in r.f
  <2> DEFINE d == Lost(sent.c, "batch")
  <2>1. on = [sent EXCEPT !.ok = FALSE, !.c = d]
    BY <1>1, <1>6, <1>9 DEF No, Lost, Rs
  <2>2. sent.c \in Cams /\ "batch" \in SetKinds
    BY <1>6 DEF Rs, SetKinds
  <2>3. /\ Touches(sent.c, d, {}) /\ d.cache = sent.c.cache /\ d.sensor = sent.c.sensor /\ d.param = sent.c.param
        /\ d.distances = sent.c.distances
    <3>1. LostIs(sent.c, d, "batch")
      BY <2>2, TouchesFailed
    <3>2. QED
      BY <3>1 DEF LostIs
  <2> HIDE DEF d
  <2>4. on \in Rs /\ on.c = d /\ on.ok = FALSE
    <3>1. d \in Cams
      BY <2>3 DEF Touches
    <3>2. QED
      BY <1>6, <2>1, <3>1 DEF Rs
  <2>5. Rest(sent.c, d) /\ d.run = sent.c.run /\ d.rec = sent.c.rec
    BY <2>3 DEF Rest, Touches
  <2>6. Rest(r.c, d)
    BY <1>6, <2>5, RestTwice
  <2>7. QED
    BY <1>6, <2>3, <2>4, <2>5, <2>6 DEF OnIs
<1>10. CASE sent.ok /\ ~ (r.c.id = "back" /\ "batch" \in r.f)
  <2> DEFINE d == Runs(sent.c)
  <2>1. on = [sent EXCEPT !.c = d]
    BY <1>1, <1>6, <1>10 DEF Runs, Rs
  <2>2. sent.c \in Cams
    BY <1>6 DEF Rs
  <2>3. /\ d \in Cams /\ d.id = sent.c.id /\ d.run = TRUE /\ d.rec = sent.c.rec /\ d.failed = sent.c.failed
        /\ d.cache = sent.c.cache /\ d.sensor = sent.c.sensor /\ d.param = sent.c.param
        /\ d.distances = sent.c.distances /\ d.pending = {}
    BY <2>2 DEF Runs, Cams
  <2> HIDE DEF d
  <2>4. on \in Rs /\ on.c = d /\ on.ok = sent.ok
    BY <1>6, <2>1, <2>3 DEF Rs
  <2>5. Rest(sent.c, d)
    BY <2>3 DEF Rest
  <2>6. Rest(r.c, d)
    BY <1>6, <2>5, RestTwice
  <2>7. d.id = "back" => Has(d, DOMAIN Forced)
    <3>1. d.id = r.c.id
      BY <2>6 DEF Rest
    <3>2. QED
      BY <1>7, <1>10, <2>3, <3>1 DEF Has
  <2>8. QED
    BY <1>6, <1>10, <2>3, <2>4, <2>6, <2>7 DEF OnIs
<1>11. QED
  BY <1>6, <1>8, <1>9, <1>10 DEF Rs

\* startPreview().
LEMMA StartKeeps ==
  ASSUME NEW r \in Rs, r.ok = TRUE, r.c.run = FALSE, Good(r.c), IsoEnds(r.c), NEW q, q = StartSends(r)
  PROVE  Good(q.c) /\ IsoEnds(q.c) /\ Reflected(q.c)
<1> DEFINE on == StreamOn(r)
           block == s_parm(on)
           blur == SendIf(block, "blur")
           x == IF r.c.id = "back" THEN block ELSE blur
<1>1. q = SendIf(x, "flash")
  BY DEF StartSends, StreamOn
<1>2. OnIs(r, on)
  BY StreamOnDone
<1> HIDE DEF on
<1>3. ParmIs(on, block)
  BY <1>2, ParmDone DEF OnIs
<1> HIDE DEF block
<1>4. Rest(r.c, on.c) /\ Rest(on.c, block.c) /\ Rest(r.c, block.c)
  BY <1>2, <1>3, RestTwice DEF OnIs, ParmIs
<1>5. {"blur", "flash", "iso"} \subseteq Settings /\ Block \subseteq Settings
  BY DEF Settings, Block, Others
<1>6. CASE ~ on.ok
  <2>1. block = on
    BY <1>3, <1>6 DEF ParmIs
  <2>2. blur = block
    BY <1>6, <2>1 DEF SendIf
  <2>3. q = on
    BY <1>1, <1>6, <2>1, <2>2 DEF SendIf
  <2>4. q.c.run = FALSE /\ q.c.sensor["flash"] = r.c.sensor["flash"] /\ Rest(r.c, q.c)
    BY <1>2, <1>4, <1>6, <2>3 DEF OnIs
  <2>5. Follows(q.c) /\ Reflected(q.c)
    BY <2>4 DEF Follows, Reflected
  <2>6. Dark(q.c)
    BY <2>4 DEF Good, Coherent, Dark, Rest
  <2>7. Good(q.c)
    BY <2>4, <2>5, <2>6, RestKeeps
  <2>8. IsoEnds(q.c)
    BY <1>2, <2>3, <2>4 DEF IsoEnds, OnIs, Rest
  <2>9. QED
    BY <2>5, <2>7, <2>8
<1>7. CASE on.ok
  <2>1. /\ on.c.run = TRUE /\ on.c.pending = {}
        /\ on.c.id = "back" => Has(on.c, DOMAIN Forced)
    BY <1>2, <1>7 DEF OnIs
  <2>2. /\ block \in Rs /\ block.c.run = TRUE /\ block.c.rec = r.c.rec /\ block.c.pending = {}
        /\ block.c.cache["iso"] = r.c.cache["iso"] /\ block.c.id = r.c.id
    BY <1>2, <1>3, <1>4, <2>1 DEF OnIs, ParmIs, Rest
  <2>3. CASE ~ block.ok
    <3>1. "parm" \in block.c.failed
      BY <1>3, <1>7, <2>3 DEF ParmIs
    <3>2. blur = block
      BY <2>3 DEF SendIf
    <3>3. q = block
      BY <1>1, <2>3, <3>2 DEF SendIf
    <3>4. Follows(q.c) /\ Reflected(q.c) /\ Dark(q.c)
      BY <2>2, <3>1, <3>3 DEF Follows, Reflected, Dark
    <3>5. Good(q.c)
      BY <1>4, <3>3, <3>4, RestKeeps
    <3>6. IsoEnds(q.c)
      BY <2>2, <3>1, <3>3 DEF IsoEnds
    <3>7. QED
      BY <3>4, <3>5, <3>6
  <2>4. CASE block.ok
    <3>1. Has(block.c, Block)
      BY <1>3, <1>7, <2>4 DEF ParmIs
    <3>2. block.c.id = "back" => Has(block.c, SentBy(block.c))
      <4> SUFFICES ASSUME block.c.id = "back", NEW t \in SentBy(block.c)
                   PROVE  block.c.sensor[t] = block.c.cache[t] \/ t \in block.c.failed
        BY DEF Has
      <4>1. CASE t \in Block
        BY <3>1, <4>1 DEF Has
      <4>2. CASE t \notin Block
        <5>1. t \in DOMAIN Forced /\ t \in Settings \ Block
          BY <4>2 DEF SentBy, Forced, Settings, Others
        <5>2. on.c.sensor[t] = on.c.cache[t] \/ t \in on.c.failed
          BY <1>4, <2>1, <5>1 DEF Has, Rest
        <5>3. QED
          BY <1>3, <1>4, <5>1, <5>2 DEF ParmIs, Rest
      <4>3. QED
        BY <4>1, <4>2
    <3>3. /\ x \in Rs /\ Rest(block.c, x.c) /\ x.c.run = TRUE /\ x.c.rec = r.c.rec
          /\ x.c.cache["iso"] = r.c.cache["iso"] /\ x.c.id = r.c.id /\ Has(x.c, SentBy(x.c))
          /\ x.c.id = "back" => x.c.pending = {}
      <4>1. CASE r.c.id = "back"
        <5>1. Rest(block.c, block.c)
          BY <2>2 DEF Rest, Rs
        <5>2. QED
          BY <2>2, <3>2, <4>1, <5>1
      <4>2. CASE r.c.id # "back"
        <5>1. block.ok => block.c.run = TRUE
          BY <2>2
        <5>2. /\ blur \in Rs /\ Rest(block.c, blur.c) /\ blur.c.run = block.c.run /\ blur.c.rec = block.c.rec
              /\ blur.c.cache = block.c.cache /\ Has(blur.c, Block \cup {"blur"})
          <6>1. "blur" \in Settings /\ Block \in SUBSET Settings
            BY <1>5
          <6>2. SendIfIs(block, blur, "blur", Block)
            BY <2>2, <3>1, <5>1, <6>1, SendIfDone
          <6>3. QED
            BY <2>4, <6>2 DEF SendIfIs
        <5>3. blur.c.id = r.c.id
          BY <2>2, <5>2 DEF Rest
        <5>4. SentBy(blur.c) = Block \cup {"blur"}
          BY <4>2, <5>3 DEF SentBy
        <5>5. QED
          BY <2>2, <4>2, <5>2, <5>3, <5>4
      <4>3. QED
        BY <4>1, <4>2
    <3> HIDE DEF x
    <3>4. /\ q \in Rs /\ Rest(x.c, q.c) /\ q.c.run = x.c.run /\ q.c.rec = x.c.rec /\ q.c.cache = x.c.cache
          /\ Has(q.c, SentBy(x.c)) /\ q.c.pending \subseteq x.c.pending \cup {"flash"}
      <4>1. SentBy(x.c) \in SUBSET Settings /\ "flash" \in Settings
        BY DEF SentBy, Settings, Block, Others, Forced
      <4>2. x.ok => x.c.run = TRUE
        BY <3>3
      <4>3. Has(x.c, SentBy(x.c))
        BY <3>3
      <4>4. SendIfIs(x, q, "flash", SentBy(x.c))
        BY <1>1, <3>3, <4>1, <4>2, <4>3, SendIfDone
      <4>5. QED
        BY <4>4 DEF SendIfIs
    <3>5. Rest(r.c, q.c) /\ q.c.id = r.c.id
      <4>1. Rest(r.c, x.c)
        BY <1>4, <3>3, RestTwice
      <4>2. Rest(r.c, q.c)
        BY <3>4, <4>1, RestTwice
      <4>3. QED
        BY <4>2 DEF Rest
    <3>6. Follows(q.c)
      <4>1. SentBy(q.c) = SentBy(x.c)
        BY <3>3, <3>5 DEF SentBy
      <4>2. QED
        BY <3>4, <4>1 DEF Follows, Has
    <3>7. Dark(q.c) /\ Reflected(q.c)
      BY <3>3, <3>4, <3>5 DEF Dark, Reflected
    <3>8. Good(q.c)
      BY <3>5, <3>6, <3>7, RestKeeps
    <3>9. IsoEnds(q.c)
      BY <3>3, <3>4, <3>5 DEF IsoEnds, Rest
    <3>10. QED
      BY <3>7, <3>8, <3>9
  <2>5. QED
    BY <2>3, <2>4
<1>8. QED
  BY <1>6, <1>7

-----------------------------------------------------------------------------
(* Stopping and recording.                                                 *)

Intact(c) == Good(c) /\ IsoEnds(c) /\ Reflected(c)

Near(c, d) == d.id = c.id /\ d.run = c.run /\ d.rec = c.rec /\ c.failed \subseteq d.failed

\* A failure that is only noted.
LEMMA LostKeeps ==
  ASSUME NEW c, Good(c), NEW at \in SetKinds, NEW d, d = Lost(c, at)
  PROVE  Good(d) /\ Near(c, d) /\ d.failed # {} /\ d.cache = c.cache
<1>1. c \in Cams
  BY DEF Good, Coherent
<1>2. /\ Touches(c, d, {}) /\ d.cache = c.cache /\ d.sensor = c.sensor /\ d.param = c.param
      /\ d.distances = c.distances /\ d.failed = c.failed \cup {at}
  <2>1. LostIs(c, d, at)
    BY <1>1, TouchesFailed
  <2>2. QED
    BY <2>1 DEF LostIs
<1>3. Near(c, d) /\ Rest(c, d)
  BY <1>2 DEF Near, Rest, Touches
<1>4. Follows(d) /\ Dark(d)
  BY <1>2, <1>3 DEF Good, Coherent, Follows, Dark, SentBy, Apart, Near
<1>5. QED
  BY <1>2, <1>3, <1>4, RestKeeps

\* A camera that has met a failure owes nothing for the ISO and the reflection.
LEMMA FailedKeeps ==
  ASSUME NEW c, NEW d, Good(d), d.failed # {}, d.id = c.id, IsoEnds(c), d.cache["iso"] = c.cache["iso"]
  PROVE  Intact(d)
BY DEF Intact, IsoEnds, Reflected

\* Sending the frame rate, the cached one or the one that recording leaves.
LEMMA RateKeeps ==
  ASSUME NEW r \in Rs, Good(r.c), NEW v, v \in {r.c.cache["rate"], RateAuto}, NEW q, q = s_ctrl(r, "rate", v)
  PROVE  /\ q \in Rs /\ Good(q.c) /\ Near(r.c, q.c) /\ q.c.cache = r.c.cache
         /\ q.c.pending \subseteq r.c.pending \cup {"rate"}
         /\ q.ok \/ q.c.failed # {}
<1>1. r.c \in Cams /\ "rate" \in Settings /\ "rate" \in SetKinds /\ v \in Values
  BY DEF Rs, Cams, Settings, Block, SetKinds, Values, Accepted, RateAuto
<1>2. SentTo(r, q, "rate", v)
  BY <1>1, SctrlIs
<1>3. q \in Rs
  BY <1>2 DEF SentTo
<1>4. CASE q.c = Lost(r.c, "rate")
  <2>1. Good(q.c) /\ Near(r.c, q.c) /\ q.c.failed # {} /\ q.c.cache = r.c.cache
    BY <1>1, <1>4, LostKeeps
  <2>2. q.c.pending = r.c.pending
    <3>1. LostIs(r.c, q.c, "rate")
      BY <1>1, <1>4, TouchesFailed
    <3>2. QED
      BY <3>1 DEF LostIs
  <2>3. QED
    BY <1>3, <2>1, <2>2
<1>5. CASE q.ok = TRUE /\ q.c = Sent(r.c, "rate", v)
  <2>1. /\ q.c \in Cams /\ q.c.id = r.c.id /\ q.c.run = r.c.run /\ q.c.rec = r.c.rec /\ q.c.failed = r.c.failed
        /\ q.c.cache = r.c.cache /\ q.c.sensor["rate"] = v /\ q.c.param = r.c.param
        /\ q.c.distances = r.c.distances /\ q.c.pending = r.c.pending \cup {"rate"}
        /\ \A t \in Settings \ {"rate"} : q.c.sensor[t] = r.c.sensor[t]
    <3>1. SentIs(r.c, q.c, "rate", v)
      BY <1>1, <1>5, TouchesSensor
    <3>2. QED
      BY <3>1 DEF SentIs
  <2>2. Rest(r.c, q.c) /\ Near(r.c, q.c)
    BY <2>1 DEF Rest, Near
  <2>3. Dark(q.c)
    BY <2>1 DEF Good, Coherent, Dark, Settings, Block
  <2>4. Follows(q.c)
    <3> SUFFICES ASSUME q.c.run, {"parm", "batch"} \cap q.c.failed = {}, NEW t \in SentBy(q.c) \ q.c.failed
                 PROVE  q.c.sensor[t] = q.c.cache[t] \/ Apart(q.c, t)
      BY DEF Follows
    <3>1. t \in Settings /\ t \in SentBy(r.c) \ r.c.failed
      BY <2>1 DEF SentBy, Settings, Block, Others, Forced
    <3>2. CASE t = "rate"
      BY <2>1, <3>2 DEF Apart
    <3>3. CASE t # "rate"
      BY <2>1, <3>1, <3>3 DEF Good, Coherent, Follows, Apart
    <3>4. QED
      BY <3>2, <3>3
  <2>5. Good(q.c)
    BY <2>2, <2>3, <2>4, RestKeeps
  <2>6. QED
    BY <1>3, <1>5, <2>1, <2>2, <2>5
<1>6. QED
  BY <1>2, <1>4, <1>5 DEF SentTo

Halted(c) == [c EXCEPT !.run = FALSE]

\* stopPreview() puts out the lamp first.
LEMMA StopKeeps ==
  ASSUME NEW r \in Rs, r.c.run = TRUE, Intact(r.c), NEW q, q = StopSends(r)
  PROVE  Intact(q.c)
<1> DEFINE dark == IF r.c.cache["flash"] = Torch THEN setFlashMode(r, 0) ELSE r
           d == dark.c
<1>1. q = IF "stream" \in r.f THEN [No(dark) EXCEPT !.c.failed = @ \cup {"stream"}]
          ELSE [dark EXCEPT !.ok = TRUE, !.c.run = FALSE]
  BY DEF StopSends
<1>2. "flash" \in Settings /\ 0 \in Int /\ "iso" \in Settings \ {"flash"} /\ 0 # Torch
  BY DEF Settings, Block, Torch
<1>3. /\ dark \in Rs /\ Good(d) /\ Near(r.c, d) /\ d.cache["iso"] = r.c.cache["iso"]
      /\ d.failed = {} => d.sensor["flash"] # Torch
  <2>1. CASE r.c.cache["flash"] = Torch
    <3>1. dark = Set(r, "flash", 0)
      BY <2>1 DEF setFlashMode
    <3> HIDE DEF dark
    <3>2. Unmoved(r.c, r.c)
      BY DEF Unmoved
    <3>3. dark \in Rs /\ Good(d) /\ Unmoved(r.c, d) /\ SetTo(r.c, d, dark.ok, "flash", 0)
      BY <1>2, <3>1, <3>2, SetterKeeps DEF Intact
    <3>4. d.cache["iso"] = r.c.cache["iso"]
      BY <1>2, <3>3 DEF SetTo, Touches
    <3>5. d.failed = {} => d.sensor["flash"] # Torch
      <4>1. d.cache["flash"] = 0
        BY <3>3 DEF SetTo, Accepted
      <4>2. d.run = TRUE
        BY <3>3 DEF Unmoved
      <4>3. "flash" \in SentBy(d)
        BY DEF SentBy, Block
      <4>4. QED
        BY <1>2, <3>3, <4>1, <4>2, <4>3 DEF Good, Coherent, Follows, Apart
    <3>6. QED
      BY <3>3, <3>4, <3>5 DEF Unmoved, Near
  <2>2. CASE r.c.cache["flash"] # Torch
    <3>1. "flash" \in SentBy(r.c)
      BY DEF SentBy, Block
    <3>2. r.c.failed = {} => r.c.sensor["flash"] # Torch
      BY <2>2, <3>1 DEF Intact, Good, Coherent, Follows, Apart
    <3>3. QED
      BY <2>2, <3>2 DEF Near, Intact
  <2>3. QED
    BY <2>1, <2>2
<1> HIDE DEF dark
<1>4. CASE "stream" \in r.f
  <2> DEFINE e == Lost(d, "stream")
  <2>1. q = [dark EXCEPT !.ok = FALSE, !.c = e]
    BY <1>1, <1>3, <1>4 DEF No, Lost, Rs
  <2>2. Good(e) /\ Near(d, e) /\ e.failed # {} /\ e.cache = d.cache
    BY <1>3, LostKeeps DEF SetKinds
  <2> HIDE DEF e
  <2>3. q.c = e
    BY <1>3, <2>1 DEF Rs
  <2>4. Intact(e)
    BY <1>3, <2>2, FailedKeeps DEF Near, Intact
  <2>5. QED
    BY <2>3, <2>4
<1>5. CASE "stream" \notin r.f
  <2> DEFINE e == Halted(d)
  <2>1. q = [dark EXCEPT !.ok = TRUE, !.c = e]
    BY <1>1, <1>3, <1>5 DEF Halted, Rs
  <2>2. d \in Cams
    BY <1>3 DEF Good, Coherent
  <2>3. /\ e \in Cams /\ e.id = d.id /\ e.run = FALSE /\ e.rec = d.rec /\ e.failed = d.failed
        /\ e.cache = d.cache /\ e.sensor = d.sensor /\ e.param = d.param /\ e.distances = d.distances
    BY <2>2 DEF Cams, Halted
  <2> HIDE DEF e
  <2>4. q.c = e
    BY <1>3, <2>1 DEF Rs
  <2>5. Rest(d, e) /\ Follows(e) /\ Reflected(e)
    BY <2>3 DEF Rest, Follows, Reflected
  <2>6. Dark(e)
    BY <1>3, <2>3 DEF Dark
  <2>7. Good(e)
    BY <1>3, <2>5, <2>6, RestKeeps
  <2>8. IsoEnds(e)
    BY <1>3, <2>3 DEF Intact, IsoEnds, Near
  <2>9. QED
    BY <2>4, <2>5, <2>7, <2>8 DEF Intact
<1>6. QED
  BY <1>4, <1>5

LEMMA NearTwice ==
  ASSUME NEW b, NEW c, NEW d, Near(b, c), Near(c, d)
  PROVE  Near(b, d)
BY DEF Near

\* A setter, whatever it sets.
LEMMA SetterNear ==
  ASSUME NEW r \in Rs, Good(r.c), NEW s \in Settings, NEW v \in Int, NEW q, q = Set(r, s, v)
  PROVE  /\ q \in Rs /\ Good(q.c) /\ Near(r.c, q.c)
         /\ \A t \in Settings \ {s} : q.c.cache[t] = r.c.cache[t]
         /\ s = "iso" /\ v \in Accepted => q.c.cache["iso"] = v
<1>1. q \in Rs /\ SetTo(r.c, q.c, q.ok, s, v)
  BY SetIs
<1>2. Good(q.c)
  BY <1>1, SetKeeps
<1>3. QED
  BY <1>1, <1>2 DEF SetTo, Touches, Near

LEMMA BatchNear ==
  ASSUME NEW r \in Rs, Good(r.c), NEW q, q = setBatchReflection(r)
  PROVE  /\ q \in Rs /\ Good(q.c) /\ Near(r.c, q.c) /\ q.c.cache = r.c.cache /\ Reflected(q.c)
         /\ r.c.run => q.c.pending = {} \/ q.c.failed # {}
<1>1. BatchIs(r, q)
  BY BatchDone
<1>2. Unmoved(r.c, r.c)
  BY DEF Unmoved
<1>3. Good(q.c) /\ Unmoved(r.c, q.c) /\ Reflected(q.c)
  BY <1>1, <1>2, BatchKeeps
<1>4. QED
  BY <1>1, <1>3 DEF BatchIs, Unmoved, Near

Records(c, b) == [c EXCEPT !.rec = b]

LEMMA RecordsKeeps ==
  ASSUME NEW c, Good(c), NEW b \in BOOLEAN, NEW d, d = Records(c, b)
  PROVE  /\ Good(d) /\ d.id = c.id /\ d.run = c.run /\ d.rec = b /\ d.failed = c.failed
         /\ d.cache = c.cache /\ d.pending = c.pending
<1>1. c \in Cams
  BY DEF Good, Coherent
<1>2. /\ d \in Cams /\ d.id = c.id /\ d.run = c.run /\ d.rec = b /\ d.failed = c.failed
      /\ d.cache = c.cache /\ d.sensor = c.sensor /\ d.param = c.param /\ d.distances = c.distances
      /\ d.pending = c.pending
  BY <1>1 DEF Cams, Records
<1>3. Rest(c, d) /\ Follows(d) /\ Dark(d)
  BY <1>2 DEF Rest, Good, Coherent, Follows, Dark, SentBy, Apart
<1>4. QED
  BY <1>2, <1>3, RestKeeps

\* startRecord() leaves the ISO of recordings only to a recording or a failure.
LEMMA RecordKeeps ==
  ASSUME NEW r \in Rs, r.c.run = TRUE, Intact(r.c), NEW q, q = RecordSends(r)
  PROVE  Intact(q.c)
<1> DEFINE iso == setISO(r, Movie)
           met == setMetering(iso, Matrix)
           batch == setBatchReflection(met)
           set == IF r.c.id = "back" THEN batch ELSE r
           rate == s_ctrl(set, "rate", r.c.cache["rate"])
           d == rate.c
<1>1. q = IF ~ rate.ok \/ "record" \in r.f
          THEN [No(rate) EXCEPT !.c.failed = @ \cup {"record"}]
          ELSE [rate EXCEPT !.c.rec = TRUE]
  BY DEF RecordSends
<1>2. {"iso", "metering"} \subseteq Settings /\ "rate" \in Settings \ {"iso", "metering"} /\ Movie \in Int /\ Matrix \in Int /\ Movie \in Accepted
  BY DEF Settings, Block, Movie, Matrix, Accepted
<1>3. /\ set \in Rs /\ Good(set.c) /\ Near(r.c, set.c)
      /\ set.c.id = "back" => set.c.pending = {} \/ set.c.failed # {}
      /\ set.c.id # "back" => set.c.cache["iso"] = r.c.cache["iso"]
      /\ set.c.cache["rate"] = r.c.cache["rate"]
  <2>1. CASE r.c.id = "back"
    <3>1. iso \in Rs /\ Good(iso.c) /\ Near(r.c, iso.c) /\ iso.c.cache["rate"] = r.c.cache["rate"]
      BY <1>2, SetterNear DEF setISO, Intact
    <3> HIDE DEF iso
    <3>2. met \in Rs /\ Good(met.c) /\ Near(iso.c, met.c) /\ met.c.cache["rate"] = iso.c.cache["rate"]
      BY <1>2, <3>1, SetterNear DEF setMetering
    <3> HIDE DEF met
    <3>3. /\ batch \in Rs /\ Good(batch.c) /\ Near(met.c, batch.c) /\ batch.c.cache = met.c.cache
          /\ met.c.run => batch.c.pending = {} \/ batch.c.failed # {}
      BY <3>2, BatchNear
    <3> HIDE DEF batch
    <3>4. met.c.run = TRUE /\ Near(r.c, batch.c)
      BY <3>1, <3>2, <3>3 DEF Near
    <3>5. set = batch
      BY <2>1
    <3>6. QED
      BY <2>1, <3>1, <3>2, <3>3, <3>4, <3>5 DEF Near
  <2>2. CASE r.c.id # "back"
    BY <2>2 DEF Near, Intact
  <2>3. QED
    BY <2>1, <2>2
<1> HIDE DEF set
<1>4. /\ rate \in Rs /\ Good(d) /\ Near(set.c, d) /\ d.cache = set.c.cache
      /\ d.pending \subseteq set.c.pending \cup {"rate"}
      /\ rate.ok \/ d.failed # {}
  BY <1>3, RateKeeps
<1> HIDE DEF rate
<1>5. Near(r.c, d)
  BY <1>3, <1>4, NearTwice
<1>6. d.cache["iso"] = Movie => d.id = "back"
  BY <1>3, <1>4, <1>5 DEF Intact, IsoEnds, Near
<1>7. CASE ~ rate.ok \/ "record" \in r.f
  <2> DEFINE e == Lost(d, "record")
  <2>1. q = [rate EXCEPT !.ok = FALSE, !.c = e]
    BY <1>1, <1>4, <1>7 DEF No, Lost, Rs
  <2>2. Good(e) /\ Near(d, e) /\ e.failed # {} /\ e.cache = d.cache
    BY <1>4, LostKeeps DEF SetKinds
  <2> HIDE DEF e
  <2>3. q.c = e
    BY <1>4, <2>1 DEF Rs
  <2>4. QED
    BY <1>6, <2>2, <2>3 DEF Intact, IsoEnds, Reflected, Near
<1>8. CASE ~ (~ rate.ok \/ "record" \in r.f)
  <2> DEFINE e == Records(d, TRUE)
  <2>1. q = [rate EXCEPT !.c = e]
    BY <1>1, <1>4, <1>8 DEF Records, Rs
  <2>2. /\ Good(e) /\ e.id = d.id /\ e.run = d.run /\ e.rec = TRUE /\ e.failed = d.failed
        /\ e.cache = d.cache /\ e.pending = d.pending
    BY <1>4, RecordsKeeps
  <2> HIDE DEF e
  <2>3. q.c = e
    BY <1>4, <2>1 DEF Rs
  <2>4. Reflected(e)
    BY <1>3, <1>4, <2>2 DEF Reflected, Near
  <2>5. QED
    BY <1>6, <2>2, <2>3, <2>4 DEF Intact, IsoEnds
<1>9. QED
  BY <1>7, <1>8

\* stopRecord() takes it back or has failed.
LEMMA RecordEndKeeps ==
  ASSUME NEW r \in Rs, r.ok = TRUE, Intact(r.c), NEW q, q = RecordEndSends(r)
  PROVE  Intact(q.c)
<1> DEFINE macro == setFocusMode(r, Macro)
           old == r.c.cache["focus"]
           again == setFocusMode(macro, old)
           focus == IF r.c.id = "back" THEN again ELSE r
           off == [focus EXCEPT !.c.rec = FALSE]
           rate == IF "streamoff2" \in r.f THEN No(off) ELSE s_ctrl(off, "rate", RateAuto)
           d == rate.c
           iso == setISO(rate, 0)
           met == setMetering(iso, 0)
           batch == setBatchReflection(met)
           fail(x) == [No(x) EXCEPT !.c.failed = @ \cup {"record"}]
<1>1. q = IF r.c.id = "back" /\ "caf" \in r.f THEN fail(r)
          ELSE IF ~ rate.ok THEN fail(rate)
          ELSE IF r.c.id = "back" THEN batch ELSE rate
  BY DEF RecordEndSends
<1>2. /\ {"focus", "iso", "metering"} \subseteq Settings /\ "iso" \in Settings \ {"focus", "metering"} /\ Macro \in Int /\ 0 \in Int /\ 0 \in Accepted
      /\ "record" \in SetKinds /\ r.c \in Cams /\ Good(r.c) /\ IsoEnds(r.c)
  BY DEF Settings, Block, Macro, Accepted, SetKinds, Intact, Rs
<1>3. \A x \in Rs : (Good(x.c) /\ x.c.id = r.c.id /\ x.c.cache["iso"] = r.c.cache["iso"]) => Intact(fail(x).c)
  <2> TAKE x \in Rs
  <2> HAVE Good(x.c) /\ x.c.id = r.c.id /\ x.c.cache["iso"] = r.c.cache["iso"]
  <2> DEFINE e == Lost(x.c, "record")
  <2>1. fail(x) = [x EXCEPT !.ok = FALSE, !.c = e]
    BY DEF No, Lost, Rs
  <2>2. Good(e) /\ Near(x.c, e) /\ e.failed # {} /\ e.cache = x.c.cache
    BY <1>2, LostKeeps
  <2> HIDE DEF e
  <2>3. fail(x).c = e
    BY <2>1 DEF Rs
  <2>4. Intact(e)
    BY <1>2, <2>2, FailedKeeps DEF Near
  <2>5. QED
    BY <2>3, <2>4
<1>4. focus \in Rs /\ Good(focus.c) /\ Near(r.c, focus.c) /\ focus.c.cache["iso"] = r.c.cache["iso"]
  <2>1. CASE r.c.id = "back"
    <3>1. macro \in Rs /\ Good(macro.c) /\ Near(r.c, macro.c) /\ macro.c.cache["iso"] = r.c.cache["iso"]
      BY <1>2, SetterNear DEF setFocusMode
    <3>2. old \in Int
      BY <1>2 DEF Cams, Values, Accepted, Unset
    <3> HIDE DEF macro, old
    <3>3. again \in Rs /\ Good(again.c) /\ Near(macro.c, again.c) /\ again.c.cache["iso"] = macro.c.cache["iso"]
      <4>1. again = Set(macro, "focus", old) /\ "focus" \in Settings
        BY <1>2 DEF setFocusMode
      <4> HIDE DEF again
      <4>2. /\ again \in Rs /\ Good(again.c) /\ Near(macro.c, again.c)
            /\ \A t \in Settings \ {"focus"} : again.c.cache[t] = macro.c.cache[t]
        BY <3>1, <3>2, <4>1, SetterNear
      <4>3. QED
        BY <1>2, <4>2
    <3> HIDE DEF again
    <3>4. Near(r.c, again.c)
      BY <3>1, <3>3, NearTwice
    <3>5. QED
      BY <2>1, <3>1, <3>3, <3>4
  <2>2. CASE r.c.id # "back"
    BY <1>2, <2>2 DEF Near
  <2>3. QED
    BY <2>1, <2>2
<1> HIDE DEF focus
<1>5. off \in Rs /\ Good(off.c) /\ off.c.id = r.c.id /\ off.c.cache["iso"] = r.c.cache["iso"]
  <2> DEFINE e == Records(focus.c, FALSE)
  <2>1. off = [focus EXCEPT !.c = e]
    BY <1>4 DEF Records, Rs
  <2>2. Good(e) /\ e.id = focus.c.id /\ e.cache = focus.c.cache
    BY <1>4, RecordsKeeps, ZenonT(30)
  <2> HIDE DEF e
  <2>3. off \in Rs /\ off.c = e
    <3>1. e \in Cams
      BY <2>2 DEF Good, Coherent
    <3>2. QED
      BY <1>4, <2>1, <3>1 DEF Rs
  <2>4. QED
    BY <1>4, <2>2, <2>3 DEF Near
<1> HIDE DEF off
<1>6. rate \in Rs /\ Good(d) /\ d.id = r.c.id /\ d.cache["iso"] = r.c.cache["iso"]
  <2>1. CASE "streamoff2" \in r.f
    <3>1. rate = No(off)
      BY <2>1
    <3>2. rate \in Rs /\ d = off.c
      BY <1>5, <3>1 DEF No, Rs
    <3>3. QED
      BY <1>5, <3>2
  <2>2. CASE "streamoff2" \notin r.f
    <3>1. rate = s_ctrl(off, "rate", RateAuto)
      BY <2>2
    <3> HIDE DEF rate
    <3>2. rate \in Rs /\ Good(d) /\ Near(off.c, d) /\ d.cache = off.c.cache
      BY <1>5, <3>1, RateKeeps
    <3>3. QED
      BY <1>5, <3>2 DEF Near
  <2>3. QED
    BY <2>1, <2>2
<1> HIDE DEF rate
<1>7. CASE r.c.id = "back" /\ "caf" \in r.f
  <2>1. q = fail(r)
    BY <1>1, <1>7
  <2>2. Intact(fail(r).c)
    BY <1>2, <1>3
  <2>3. QED
    BY <2>1, <2>2
<1>8. CASE ~ (r.c.id = "back" /\ "caf" \in r.f) /\ ~ rate.ok
  <2>1. q = fail(rate)
    BY <1>1, <1>8
  <2>2. Intact(fail(rate).c)
    BY <1>3, <1>6
  <2>3. QED
    BY <2>1, <2>2
<1>9. CASE ~ (r.c.id = "back" /\ "caf" \in r.f) /\ rate.ok /\ r.c.id = "back"
  <2>1. q = batch
    BY <1>1, <1>9
  <2>2. iso \in Rs /\ Good(iso.c) /\ iso.c.cache["iso"] = 0
    BY <1>2, <1>6, SetterNear DEF setISO
  <2> HIDE DEF iso
  <2>3. met \in Rs /\ Good(met.c) /\ met.c.cache["iso"] = 0
    BY <1>2, <2>2, SetterNear DEF setMetering
  <2> HIDE DEF met
  <2>4. Good(batch.c) /\ batch.c.cache["iso"] = 0 /\ Reflected(batch.c)
    BY <2>3, BatchNear
  <2>5. QED
    BY <2>1, <2>4 DEF Intact, IsoEnds, Movie
<1>10. CASE ~ (r.c.id = "back" /\ "caf" \in r.f) /\ rate.ok /\ r.c.id # "back"
  <2>1. q = rate
    BY <1>1, <1>10
  <2>2. QED
    BY <1>2, <1>6, <1>10, <2>1 DEF Intact, IsoEnds, Reflected
<1>11. QED
  BY <1>7, <1>8, <1>9, <1>10

-----------------------------------------------------------------------------
(* The calls of the client.                                                *)

LEMMA SettledKeeps ==
  ASSUME NEW c, Intact(c), NEW d, d = Settled(c)
  PROVE  /\ Intact(d) /\ d.id = c.id /\ d.run = c.run /\ d.failed = c.failed
         /\ d.sensor = c.sensor /\ d.param = c.param
<1>1. c \in Cams
  BY DEF Intact, Good, Coherent
<1>2. /\ d \in Cams /\ d.id = c.id /\ d.run = c.run /\ d.rec = c.rec /\ d.failed = c.failed
      /\ d.cache = c.cache /\ d.sensor = c.sensor /\ d.param = c.param /\ d.distances = c.distances
      /\ d.failed = {} => d.pending = c.pending
  BY <1>1 DEF Cams, Settled
<1>3. Rest(c, d) /\ Follows(d) /\ Dark(d)
  BY <1>2 DEF Intact, Rest, Good, Coherent, Follows, Dark, SentBy, Apart
<1>4. Good(d)
  BY <1>3, RestKeeps DEF Intact
<1>5. IsoEnds(d) /\ Reflected(d)
  BY <1>2 DEF Intact, IsoEnds, Reflected
<1>6. QED
  BY <1>2, <1>4, <1>5 DEF Intact

\* A call with the ioctls f failing.
LEMMA CallIs ==
  ASSUME NEW c, Intact(c), NEW f \in SUBSET SetKinds
  PROVE  R(c, f) \in Rs /\ R(c, f).c = c /\ R(c, f).ok = TRUE
BY DEF R, Rs, Intact, Good, Coherent

\* Every call but setParameters().
LEMMA SettleKeeps ==
  ASSUME NEW r, Intact(r.c), Settle(r), varied \in Clusters
  PROVE  SettingsInv'
<1>1. Intact(cam)'
  BY SettledKeeps DEF Settle
<1>2. AcceptedIsSet'
  BY DEF Settle, AcceptedIsSet
<1>3. QED
  BY <1>1, <1>2 DEF Settle, SettingsInv, Intact

\* setParameters(), of what the client got with changes.
LEMMA SetParametersStep ==
  ASSUME SettingsInv, SetParameters
  PROVE  SettingsInv'
<1>1. PICK p \in [varied -> UNION {Asks[s] : s \in varied}], f \in SetFaults(varied \cup {"batch"}) :
        /\ \A s \in varied : p[s] \in Asks[s]
        /\ LET wanted == [s \in DOMAIN Default |-> IF s \in varied THEN p[s] ELSE cam.param[s]]
               w == setParameters(R(cam, f), wanted)
           IN  cam' = Settled(w.r.c) /\ last' = IF w.bad \/ w.r.c.failed # {} THEN NoCall ELSE InScene(wanted)
  BY DEF SetParameters
<1> DEFINE wanted == [s \in DOMAIN Default |-> IF s \in varied THEN p[s] ELSE cam.param[s]]
           w == setParameters(R(cam, f), wanted)
<1>2. cam' = Settled(w.r.c) /\ (last' = IF w.bad \/ w.r.c.failed # {} THEN NoCall ELSE InScene(wanted))
  BY <1>1
<1>3. Intact(cam) /\ varied \in Clusters /\ varied \subseteq Reported /\ varied' = varied
  BY ClustersArePublic DEF SettingsInv, Intact, Reported, SetParameters
<1>4. f \in SUBSET SetKinds
  BY <1>3 DEF SetFaults, SetKinds, Reported, Default, Public, Settings, Block, Others
<1>5. \A s \in Reported : wanted[s] \in Asks[s]
  BY <1>1, <1>3 DEF Reported, Intact, Good, Coherent, Askable
<1>6. wanted \in [Reported -> Int]
  <2>1. \A s \in Reported : Asks[s] \subseteq Int
    BY DEF Asks, Reported, Default, Public, Named, Macro, Face, Torch, Night, Unknown, Refused, Ignored
  <2>2. \A s \in Reported : wanted[s] \in Int
    BY <1>5, <2>1
  <2>3. wanted = [s \in Reported |-> wanted[s]]
    BY DEF Reported
  <2> HIDE DEF wanted
  <2>4. QED
    BY <2>2, <2>3
<1> HIDE DEF wanted
<1> DEFINE r == R(cam, f)
<1>7. r \in Rs /\ r.c = cam
  BY <1>3, <1>4, CallIs
<1> HIDE DEF r
<1>8. Stage(r.c, w, InScene(wanted), Public) /\ Reflected(w.r.c)
  <2>1. Good(r.c)
    BY <1>3, <1>7 DEF Intact
  <2>2. w = setParameters(r, wanted)
    BY DEF r
  <2> HIDE DEF w
  <2>3. QED
    BY <1>5, <1>6, <1>7, <2>1, <2>2, ParametersDone
<1> HIDE DEF w
<1>9. Intact(w.r.c)
  <2>1. IsoEnds(w.r.c)
    BY <1>3, <1>7, <1>8 DEF Stage, Unmoved, Intact, IsoEnds
  <2>2. QED
    BY <1>8, <2>1 DEF Stage, Intact
<1>10. /\ Intact(cam') /\ cam'.id = w.r.c.id /\ cam'.run = w.r.c.run /\ cam'.failed = w.r.c.failed
       /\ cam'.sensor = w.r.c.sensor /\ cam'.param = w.r.c.param
  BY <1>2, <1>9, SettledKeeps
<1>11. AcceptedIsSet'
  <2> SUFFICES ASSUME last' # NoCall, cam'.id = "back", NEW s \in varied \ {"fps"}, last'[s] # Ignored
               PROVE  /\ cam'.param[s] = last'[s]
                      /\ cam'.run /\ s \notin {"focus", "quality"} => cam'.sensor[s] = last'[s]
    BY <1>3 DEF AcceptedIsSet
  <2>1. ~ w.bad /\ w.r.c.failed = {} /\ last' = InScene(wanted)
    BY <1>2
  <2>2. s \in Public
    BY <1>3 DEF Reported, Default
  <2>3. /\ w.r.c.param[s] = InScene(wanted)[s]
        /\ w.r.c.run /\ s \notin {"focus", "quality"} => w.r.c.sensor[s] = InScene(wanted)[s]
    BY <1>8, <1>10, <2>1, <2>2 DEF Stage, Done
  <2>4. QED
    BY <1>10, <2>1, <2>3
<1>12. QED
  BY <1>3, <1>10, <1>11 DEF SettingsInv, Intact

\* The constructor of CameraHardwareSec.
LEMMA SettingsInit == InitSettings => SettingsInv
<1> SUFFICES ASSUME InitSettings PROVE SettingsInv
  OBVIOUS
<1>1. PICK id \in {"back", "front"} : cam = initDefaultParameters(FreshCamera(id))
  BY DEF InitSettings
<1> DEFINE c == FreshCamera(id)
<1>2. c \in Cams /\ c.run = FALSE /\ c.sensor["flash"] # Torch
  <2>1. Default \in [Reported -> 0..2]
    BY DEF Default, Reported
  <2>2. "flash" \in Settings /\ Unset \in Values /\ 0 \in Values /\ Unset # Torch
    BY DEF Settings, Block, Values, Accepted, Unset, Torch
  <2>3. QED
    BY <2>1, <2>2 DEF FreshCamera, Cams
<1> HIDE DEF c
<1>3. Good(cam) /\ IsoEnds(cam) /\ Reflected(cam)
  BY <1>1, <1>2, InitKeeps DEF c
<1>4. AcceptedIsSet /\ varied \in Clusters
  BY DEF InitSettings, AcceptedIsSet
<1>5. QED
  BY <1>3, <1>4 DEF SettingsInv

\* Every call keeps the invariant.
LEMMA SettingsNext ==
  ASSUME SettingsInv, [NextSettings]_setVars
  PROVE  SettingsInv'
<1>1. Intact(cam) /\ varied \in Clusters /\ varied \subseteq Reported
  BY ClustersArePublic DEF SettingsInv, Intact, Reported
<1>2. Reported \subseteq SetKinds
  BY DEF SetKinds, Reported, Default, Public, Settings, Block, Others
<1>3. CASE SetParameters
  BY <1>3, SetParametersStep
<1>4. CASE SettingsStart
  <2>1. PICK f \in SetFaults(varied \cup {"batch", "parm"}) : Settle(StartSends(R(cam, f)))
    BY <1>4 DEF SettingsStart
  <2> DEFINE r == R(cam, f)
  <2>2. f \in SUBSET SetKinds
    BY <1>1, <1>2 DEF SetFaults, SetKinds
  <2>3. r \in Rs /\ r.c = cam /\ r.ok = TRUE
    BY <1>1, <2>2, CallIs
  <2> HIDE DEF r
  <2>4. cam.run = FALSE
    BY <1>1, <1>4 DEF SettingsStart, Intact, Good, Coherent, Cams
  <2>5. Intact(StartSends(r).c)
    BY <1>1, <2>3, <2>4, StartKeeps DEF Intact
  <2>6. QED
    BY <1>1, <2>1, <2>5, SettleKeeps DEF r
<1>5. CASE SettingsStop
  <2>1. PICK f \in SetFaults((varied \cap {"flash"}) \cup {"stream"}) : Settle(StopSends(R(cam, f)))
    BY <1>5 DEF SettingsStop
  <2> DEFINE r == R(cam, f)
  <2>2. f \in SUBSET SetKinds
    BY <1>1, <1>2 DEF SetFaults, SetKinds
  <2>3. r \in Rs /\ r.c = cam /\ r.ok = TRUE
    BY <1>1, <2>2, CallIs
  <2> HIDE DEF r
  <2>4. cam.run = TRUE
    BY <1>1, <1>5 DEF SettingsStop, Intact, Good, Coherent, Cams
  <2>5. Intact(StopSends(r).c)
    BY <1>1, <2>3, <2>4, StopKeeps
  <2>6. QED
    BY <1>1, <2>1, <2>5, SettleKeeps DEF r
<1>6. CASE SettingsRecord
  <2>1. PICK f \in SetFaults((varied \cap {"iso"}) \cup {"batch", "record"}) : Settle(RecordSends(R(cam, f)))
    BY <1>6 DEF SettingsRecord
  <2> DEFINE r == R(cam, f)
  <2>2. f \in SUBSET SetKinds
    BY <1>1, <1>2 DEF SetFaults, SetKinds
  <2>3. r \in Rs /\ r.c = cam /\ r.ok = TRUE
    BY <1>1, <2>2, CallIs
  <2> HIDE DEF r
  <2>4. cam.run = TRUE
    BY <1>1, <1>6 DEF SettingsRecord, Intact, Good, Coherent, Cams
  <2>5. Intact(RecordSends(r).c)
    BY <1>1, <2>3, <2>4, RecordKeeps
  <2>6. QED
    BY <1>1, <2>1, <2>5, SettleKeeps DEF r
<1>7. CASE SettingsRecordEnd
  <2>1. PICK f \in SetFaults((varied \cap {"iso", "focus"}) \cup {"batch", "caf", "streamoff2"}) :
          Settle(RecordEndSends(R(cam, f)))
    BY <1>7 DEF SettingsRecordEnd
  <2> DEFINE r == R(cam, f)
  <2>2. f \in SUBSET SetKinds
    BY <1>1, <1>2 DEF SetFaults, SetKinds
  <2>3. r \in Rs /\ r.c = cam /\ r.ok = TRUE
    BY <1>1, <2>2, CallIs
  <2> HIDE DEF r
  <2>4. Intact(RecordEndSends(r).c)
    BY <1>1, <2>3, RecordEndKeeps
  <2>5. QED
    BY <1>1, <2>1, <2>4, SettleKeeps DEF r
<1>8. CASE Reopen
  <2>1. PICK id \in {"back", "front"} :
          Settle(R(initDefaultParameters([cam EXCEPT !.id = id, !.sensor = [s \in Settings |-> Unset],
                                                     !.pending = {}, !.failed = {}]), {}))
    BY <1>8 DEF Reopen
  <2> DEFINE c == [cam EXCEPT !.id = id, !.sensor = [s \in Settings |-> Unset], !.pending = {}, !.failed = {}]
             r == R(initDefaultParameters(c), {})
  <2>2. c \in Cams /\ c.run = FALSE /\ c.sensor["flash"] # Torch
    <3>1. cam \in Cams /\ cam.run = FALSE
      BY <1>1, <1>8 DEF Reopen, Intact, Good, Coherent, Cams
    <3>2. "flash" \in Settings /\ Unset \in Values /\ Unset # Torch
      BY DEF Settings, Block, Values, Unset, Torch
    <3>3. QED
      BY <3>1, <3>2 DEF Cams
  <2>3. Settle(r)
    BY <2>1
  <2> HIDE DEF c
  <2>4. Intact(initDefaultParameters(c))
    BY <2>2, InitKeeps DEF Intact
  <2>5. r.c = initDefaultParameters(c)
    BY DEF R
  <2> HIDE DEF r
  <2>6. QED
    BY <1>1, <2>3, <2>4, <2>5, SettleKeeps
<1>9. CASE UNCHANGED setVars
  BY <1>9 DEF setVars, SettingsInv, AcceptedIsSet
<1>10. QED
  BY <1>3, <1>4, <1>5, <1>6, <1>7, <1>8, <1>9 DEF NextSettings

\* The invariant is what the two properties say.
LEMMA SettingsMeans ==
  ASSUME SettingsInv
  PROVE  SettingsAgree /\ SettingsEnd
<1>1. cam \in Cams /\ Good(cam) /\ IsoEnds(cam) /\ Reflected(cam) /\ AcceptedIsSet
  BY DEF SettingsInv, Good, Coherent
<1>2. SettingsTypeOK
  BY <1>1 DEF SettingsTypeOK, Cams, Good, Coherent, Askable, Values, Reported
<1>3. SensorFollowsCache
  BY <1>1 DEF SensorFollowsCache, SentAtStart, Good, Coherent, Follows, SentBy, Apart
<1>4. ChangesReflected
  BY <1>1 DEF ChangesReflected, Reflected
<1>5. TorchOff /\ DistancesFitFocus /\ MovieIsoEnds
  BY <1>1 DEF TorchOff, DistancesFitFocus, MovieIsoEnds, Good, Coherent, Dark, Fits, IsoEnds
<1>6. QED
  BY <1>1, <1>2, <1>3, <1>4, <1>5 DEF SettingsAgree, SettingsEnd

\* For every group of settings and any number of failing ioctls: through all calls of
\* setParameters(), starts, recordings and openings the running sensor has what SecCamera
\* remembers, accepted parameters are reported and set, and changes are reflected.
THEOREM SettingsAlwaysAgree == SpecSettings => []SettingsAgree
<1>1. SettingsInv => SettingsAgree
  BY SettingsMeans
<1>2. QED
  BY <1>1, SettingsInit, SettingsNext, PTL DEF SpecSettings

\* For the same: the lamp does not outlive the preview, nor the ISO of recordings the
\* recording, and the reported focus distances are those of the reported focus mode.
THEOREM SettingsAlwaysEnd == SpecSettings => []SettingsEnd
<1>1. SettingsInv => SettingsEnd
  BY SettingsMeans
<1>2. QED
  BY <1>1, SettingsInit, SettingsNext, PTL DEF SpecSettings

=============================================================================
